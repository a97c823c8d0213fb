SPECIFICATION Spec
CONSTANTS
    Rules <- MCRules
    Configs <- MCConfigs
    Observations <- MCObservations
    Kinds = {"full"}
    MaxAudits = 1
INVARIANTS
    RecoveredCatalogJudgedWhole
