SPECIFICATION Spec
CONSTANTS
    Own = "own"
    Ext = "ext"
    Guilds <- OneGuild
    ScopeOf <- MCScope
    MaxSyncs = 3
    Existing <- Before
    MaxFaults = 0
    Versions <- OneVersion
    MaxLoads = 2
CHECK_DEADLOCK FALSE
INVARIANTS ReloadReadds
