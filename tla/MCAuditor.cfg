SPECIFICATION Spec
CONSTANTS
    Rules <- MCRules
    Configs <- MCConfigs
    Observations <- MCObservations
    Kinds = {"full", "modern", "partial", "package"}
    MaxAudits = 2
INVARIANTS
    ReportAddsUp
    NothingCarriedOver
    JudgedOnItsLifecycle
    SessionCatalogJudgedWhole
PROPERTIES
    WholeCatalogKept
