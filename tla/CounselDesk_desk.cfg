SPECIFICATION Spec
CONSTANTS
    None = None  Blank = Blank
    Docket <- AllCases
    File <- EveryFile
    Names <- ThreeNames
    Reviewed <- ReviewedCases
    MaxExports = 1
    MaxSigned = 2
INVARIANTS
    DispositionFollowsMatrix
    SkepticIsExact
    PenaltyIsBounded
    RecordsAreRead
    ExportsWereSigned
CHECK_DEADLOCK FALSE
