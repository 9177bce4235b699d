SPECIFICATION Spec
CONSTANTS
    Run = {1}
    Worker = {1}
    MaxAsg = 6
    BuildNo <- MCBuildNo
    NoBuild = NoBuild
    NoWorker = NoWorker
    Language <- MCLanguage
    LangOf <- MCLangOf
    LangNeeded <- MCLangNeeded
    Rank <- MCRank
    Ticker = {api, beat}
    Threaded = {api}
    MaxRetries = 1
    MaxExec = 2
    MaxEvents = 1
INVARIANTS TypeOK  RetryBudget
 
