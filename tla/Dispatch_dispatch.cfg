SPECIFICATION LiveSpec
CONSTANTS
    Run = {1, 2}
    Worker = {1}
    MaxAsg = 6
    BuildNo = {1}
    NoBuild = NoBuild
    MaxRetries = 0
    Language = {}
    LangOf <- MCLangOf
    LangNeeded <- MCLangNeeded
    Ticker = {api, beat}
    Web = api
    NoWorker = NoWorker
    PayloadOf <- MCPayloadOf
    RepoOf <- MCRepoOf
    AllowSynthetic = FALSE
    MaxExec = 1
    Outcome = {"FAILURE"}
    MaxUpsets = 2
CHECK_DEADLOCK FALSE
INVARIANTS BoundedOvertaking BusyAccounted
PROPERTIES RestartOnlyDemotes WorkersReturn
