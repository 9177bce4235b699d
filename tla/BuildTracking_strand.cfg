SPECIFICATION LiveSpec
CONSTANTS
    Run = {1}
    Worker = {1}
    MaxAsg = 6
    BuildNo <- MCBuildNo
    NoBuild = NoBuild
    MaxRetries = 0
    Language = {}
    LangOf <- MCAlike
    LangNeeded <- MCAny
    j1 = j1
    j2 = j2
    Job = {j1, j2}
    JobOf <- MCOwnJob
    Celery = {1}
    Outcome = {"SUCCESS", "FAILURE", "UNSTABLE", "ABORTED"}
    MaxBuilds = 3
    TriggerRetries = 1
CHECK_DEADLOCK FALSE
PROPERTY RunEnds
