SPECIFICATION LiveSpec
CONSTANTS
    Run = {1, 2}
    Worker = {1, 2}
    MaxAsg = 8
    BuildNo = {1}
    NoBuild = NoBuild
    NoWorker = NoWorker
    Language <- MCLanguage
    LangOf <- MCLangOf
    LangNeeded <- MCPython
    Rank <- MCRank
    Ticker = {api}
    Threaded = {api}
    MaxRetries = 1
    MaxExec = 2
    MaxEvents = 1
INVARIANT OneRunPerWorker
PROPERTIES ImplementsLifecycle RunSettles 
