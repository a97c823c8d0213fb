SPECIFICATION Spec
CONSTANTS
    Servers <- ServerList
    MaxListPages = 2
    MaxSkillFiles = 4
    MaxSupportingFiles = 2
    ReadConcurrency = 2
    MaxFileBytes = 2
    MaxTotalBytes = 2
    FileSizes = {1, 2, 3}
    UnknownNames <- Names
INVARIANTS
    FailureNeedsAFault
    FaultIsFailed
    KeptWithinBudget
