SPECIFICATION Spec
CONSTANTS
    gdelt = gdelt  reuters = reuters  unlabelled = unlabelled  us = us  jp = jp
    Blank = Blank  NoCountry = NoCountry  None = None
    Signals <- ThreeSignals
    Outlet <- OutletOf
    Origin <- OriginOf
    Floor = 45
    CapGap = 5
    Scenarios <- OneScenario
    Fetches <- AllFetches
    Routes <- LoopOnly
    Confidences <- High
    Countries <- NoCountries
    Cap = 9
    Estimate = 2
    CriticEstimate = 1
    StepEstimates <- GrowingSteps
    LiveCosts <- Varied
    ThrownCosts <- Thrown
    Reserve = 2
    MaxSteps = 6
INVARIANTS
    EvidenceBound
CHECK_DEADLOCK FALSE
