SPECIFICATION Spec
CONSTANTS
    gdelt = gdelt  reuters = reuters  unlabelled = unlabelled  us = us  jp = jp
    Blank = Blank  NoCountry = NoCountry  None = None
    Signals <- ThreeSignals
    Outlet <- OutletOf
    Origin <- OriginOf
    Floor = 45
    CapGap = 5
    Scenarios <- AllScenarios
    Fetches <- AllFetches
    Routes <- BothRoutes
    Confidences <- BothSides
    Countries <- SomeCountry
    Cap = 99
    Estimate = 2
    CriticEstimate = 1
    StepEstimates <- FlatSteps
    LiveCosts <- Small
    ThrownCosts <- Free
    Reserve = 0
    MaxSteps = 2
INVARIANTS
    EvidenceDecides
    CriticBinds
CHECK_DEADLOCK FALSE
