SPECIFICATION FairSpec
CONSTANTS
    MaxId = 8
    First = 4
    More = 3
    Low = 2
    Infinity = 99
    Maxima <- MCMaxima
    Rejections <- MCRejections
    Cachings <- MCCachings
    MaxChanges = 1
INVARIANTS TypeOK PagesJoin Unchecked LosesFew
PROPERTIES Ends
