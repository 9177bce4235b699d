SPECIFICATION Spec
CONSTANTS
    Run = {1, 2}
    Worker = {1}
    MaxAsg = 4
    BuildNo <- MCBuildNo
    NoBuild = NoBuild
    MaxRetries = 0
    Language = {}
    LangOf <- MCAlike
    LangNeeded <- MCAny
    j1 = j1
    j2 = j2
    Job = {j1, j2}
    JobOf <- MCOwnJob
    Celery = {1}
    Outcome = {"SUCCESS", "UNSTABLE"}
    MaxBuilds = 2
    TriggerRetries = 1
CHECK_DEADLOCK FALSE
INVARIANTS TypeOK LinkedToOwn NoWorkerLeftBehind
