SPECIFICATION Spec
CONSTANTS
    Scenarios <- ScenarioList
    UnknownNames <- UnknownNameList
    Files = {"canary"}
    Vectors <- VectorList
    Bytes = {"canary_marker", "write_marker"}
    MaxActs = 3
    Denied <- DeniedListeners
    NetworkVectors <- NetworkVectorList
    MaxConnections = 2
INVARIANTS
    NeverAborts
