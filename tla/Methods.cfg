SPECIFICATION Spec
CONSTANTS
    t1 = t1
    t2 = t2
    a = a
    b = b
    Tasks <- MCTasks
    Kinds <- AllKinds
    NObjects <- MCObjects
    Items <- MCItems
    Lists <- MCLists
    Limit = 1
    MaxChanges <- MCChanges
    MaxCalls <- MCCalls
    MaxEvents = 2
INVARIANTS TypeOK Settled ListedHeld
PROPERTIES NeverBack
SYMMETRY Symmetry
CHECK_DEADLOCK FALSE
