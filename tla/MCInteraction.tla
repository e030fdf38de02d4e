--------------------------- MODULE MCInteraction ---------------------------
(* Small instances of Interaction. *)
EXTENDS Interaction

MCTasks == {"wrapper", "inner"} \cup Waiters
Scene(events, waiters) ==
    [events |-> events, interaction |-> FALSE, waiters |-> waiters, timed |-> BOOLEAN, calls |-> 0, faults |-> 0]
Responding(waiters, timed, n, faulty) ==
    [events |-> 1, interaction |-> TRUE, waiters |-> waiters, timed |-> {timed}, calls |-> n, faults |-> faulty]

\* Two waiters, or more events, without an interaction; an interaction whose coroutine
\* and error callback respond; one that a waiter responds to beside them.
MCScenes == {Scene(2, {"w1", "w2"}), Scene(3, {"w1"}), Responding({}, FALSE, 3, 1),
             Responding({"w1"}, FALSE, 2, 0), Responding({"w1"}, TRUE, 1, 1)}
=============================================================================
