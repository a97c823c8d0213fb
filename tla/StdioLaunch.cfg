SPECIFICATION FairSpec
CONSTANTS
    HeldLines = 2
    MaxLines = 4
INVARIANTS
    StderrInOrder
    TracebackNotBeforeHint
    NothingHeldAfterReturn
PROPERTIES
    LaunchEnds
