SPECIFICATION MortalSpec
CONSTANTS
    Run = {1, 2}
    Worker = {1, 2}
    MaxAsg = 8
    BuildNo <- MCBuildNo
    NoBuild = NoBuild
    NoWorker = NoWorker
    Language <- MCLanguage
    LangOf <- MCLangOf
    LangNeeded <- MCLangNeeded
    Rank <- MCRank
    Ticker = {api, beat}
    Threaded = {api}
    MaxRetries = 0
    MaxExec = 1
    MaxEvents = 2
INVARIANTS  ThreadBound
