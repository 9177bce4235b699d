SPECIFICATION LiveSpec
CONSTANTS
    Run = {1}
    Worker = {1}
    MaxAsg = 8
    BuildNo <- MCBuildNo
    NoBuild = NoBuild
    MaxRetries = 2
    Language = {}
    LangOf <- MCAlike
    LangNeeded <- MCAny
    j1 = j1
    j2 = j2
    Job = {j1, j2}
    JobOf <- MCOwnJob
    Celery = {}
    Outcome = {"SUCCESS", "UNSTABLE"}
    MaxBuilds = 2
    TriggerRetries = 1
CHECK_DEADLOCK FALSE
INVARIANT SuccessIsOwn
PROPERTY RunEnds
