SPECIFICATION FairSpec
CONSTANTS
    Own = "own"
    Ext = "ext"
    Guilds <- OneGuild
    ScopeOf <- MCScope
    MaxSyncs = 3
    Existing <- Before
    MaxFaults = 1
    Versions <- AllVersions
    MaxLoads = 2
CHECK_DEADLOCK FALSE
INVARIANTS TypeOK RegistryAgrees Synced
PROPERTIES Settles
