SPECIFICATION LiveSpec
CONSTANTS
    b1 = b1
    b2 = b2
    b3 = b3
    s1 = s1
    s2 = s2
    NoSig = NoSig
    NoBuild = NoBuild
    Build = {b1, b2}
    Signature = {s1, s2}
    SigOf <- SignatureOfLog
    Serial = {b1}
    Analysis = {c1, c2, c3}
    SlackConfigured = TRUE
    MaxDeaths = 1
    Anchor <- MCAnchor
    Rules <- MCRules
    Normal <- MCNormal
    Ctx = 1
    TailLen = 2
    ExcerptCap = 3
    Threshold = 3
    MaxLog = 2
    NoLog = NoLog
    NoSignature = NoSig
    Text = {"template", "diagnosis", "do this", "do that", "escalate", "advice", "resolution"}
    NoText = "none"
    Junk = "junk"
    NotAsked = NotAsked
    SummaryTemplate <- MCSummaryTemplate
    FixTemplate <- MCFixTemplate
    Line <- MCLine
    Logs <- MCLogs
    Served <- MCServed
    Records <- MCRecords
    Replies <- MCReplies
CHECK_DEADLOCK FALSE
INVARIANTS TypeOK Accounted EventHasPattern CountSound OneMessageInTurn
    EveryErrorFound  EveryAnswerSound
PROPERTIES Reported EventSettles
