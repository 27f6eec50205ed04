SPECIFICATION LimiterSpec
CONSTANTS
    approve = approve  tok = tok  a = a  None = None
    Routes <- OneRoute
    Tokens <- OneToken
    Ips <- OneIp
    Limit = 2
    Window = 3
    Second = 2
    MaxTracked = 2
    MaxNow = 4
    MaxBack = 1
INVARIANTS
    AdmittedAsTold
PROPERTIES
    EvictsOnlyWhenFull
CHECK_DEADLOCK FALSE
