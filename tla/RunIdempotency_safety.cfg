SPECIFICATION FairSpec
CONSTANTS
    i1 = i1  i2 = i2  k1 = k1  c1 = c1  c2 = c2
    r1 = r1  r2 = r2  r3 = r3  NoKey = NoKey  NoRun = NoRun
    Instances <- TwoInstances
    Keys <- OneKey
    Callers <- TwoCallers
    Runs <- ThreeRuns
    MaxFaults = 1
    MaxCrashes = 1
INVARIANTS
    RunsOncePerKey
    AnswersAreCanonical
PROPERTIES
    RequestsEnd
CHECK_DEADLOCK FALSE
