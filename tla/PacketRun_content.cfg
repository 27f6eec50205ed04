SPECIFICATION Spec
CONSTANTS
    None = None
    NameFigures <- FiguresInName
    Suppliers <- SeedSuppliers
    ScenarioIds <- AllScenarioIds
    LiveSignals <- Fetched1
    ThreatAnswers <- ThreatNames
    PlaybookAnswers <- PlaybookNames
    DraftAnswers <- DraftNames
    ThreatAnswer <- Threats
    PlaybookAnswer <- Playbooks
    DraftAnswer <- Drafts
    Environments <- AnyOfEnv
    ProviderAnswers <- AnyAnswer
    Reserve = 2
    Floor = 45
    CapGap = 5
INVARIANTS
    ClearedIsGraded
    DraftsDiscloseNothing
    ActionsAreGoverned
    FindingIsExact
    PromotionIsSafe
CHECK_DEADLOCK FALSE
