SPECIFICATION SignedSpec
CONSTANTS
    Targets = {"url", "script", "missing_script", "command", "invalid"}
    OptionSets <- CommandLines
    SignsIn <- WithOAuth
    Endpoints <- NamedEndpoints
    Visits = {v1, v2}
    MaxRedirects = 2
INVARIANTS
    ExitOneMeansNoAudit
