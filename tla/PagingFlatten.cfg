SPECIFICATION Spec
CONSTANTS
    MaxId = 8
    First = 4
    More = 3
    Low = 2
    Infinity = 99
    Maxima <- AnyMaximum
    Rejections <- NoRejection
    Cachings <- AllCached
    MaxChanges = 0
INVARIANTS FlattenReturnsAll
