SPECIFICATION Spec
CONSTANTS
    MaxPages = 2
    PageSpan = 100
    StdioQueues <- Queues
    MaxLate = 2
    Surfaces <- SurfaceList
    Addresses <- AddressList
    WellKnown <- WellKnownList
    IssuerLocations <- IssuerLocationList
    Latest = 3
    ForbiddenFrom = 2
    Subjects <- HttpSubjects
CHECK_DEADLOCK FALSE
INVARIANTS
    BusyIsNoEvidence
