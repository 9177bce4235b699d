---------------------------- MODULE LogPipeline ----------------------------
(***************************************************************************)
(* From a failed build to the words about it: fetching the console log     *)
(* (log_fetcher.py), cutting out its errors (log_parser.py), naming their  *)
(* kind (classifier.py), and the parts of _process_async and of            *)
(* pattern_store.py between them.  Nothing here has state of its own:      *)
(* FailureAnalysis takes the signature of a build's log from here.         *)
(*                                                                         *)
(* A log is a sequence of lines; a line is its text and the stamp in front *)
(* of it (a time, an escape sequence).  Bytes are counted in lines.        *)
(***************************************************************************)
EXTENDS Naturals, FiniteSets, Sequences, SequencesExt

CONSTANTS Anchor,      \* texts in which _ERROR_ANCHOR finds something
          Rules,       \* the rules file: a sequence of [type, hits], hits a set of texts
          Normal,      \* _normalise and _hash: an anchor without its volatile tokens
          Ctx,         \* _CTX
          TailLen,     \* the end of the raw log that is shown
          ExcerptCap,  \* what a language model is given
          Threshold,   \* _THRESHOLD
          MaxLog,      \* _MAX_LOG_BYTES
          NoLog,       \* the answer of a Jenkins that does not answer
          NoSignature  \* the log has no error block

\* The text that stands for a log that could not be fetched.
Unavailable == "unavailable"

(***************************************************************************)
(* The anchor "ERROR" is in that text: "Fetcher error: ...".  "unknown" is *)
(* what classify says without a rule, and no rule has that type.  The      *)
(* lines around an error are not so long that the first error and those    *)
(* before it do not fit into an excerpt.                                   *)
(***************************************************************************)
ASSUME LogAssumption ==
    /\ Unavailable \in Anchor
    /\ Rules \in Seq([type : STRING \ {"unknown"}, hits : SUBSET STRING])
    /\ {MaxLog, Ctx, TailLen, ExcerptCap, Threshold} \subseteq Nat
    /\ Ctx + 1 <= ExcerptCap

Attempts == 3

EndOf(n, s)   == IF Len(s) > n THEN SubSeq(s, Len(s) - n + 1, Len(s)) ELSE s
StartOf(n, s) == SubSeq(s, 1, IF Len(s) < n THEN Len(s) ELSE n)
Empty      == ""
Bare(text) == [stamp |-> Empty, text |-> text]

\* The elements of s at the places in keep: [x for x in s if ...]
Kept(s, keep) ==
    LET kept[k \in 0..Len(s)] ==
          IF k = 0 THEN <<>>
          ELSE IF k \in keep THEN Append(kept[k - 1], s[k])
          ELSE kept[k - 1]
    IN  kept[Len(s)]

-----------------------------------------------------------------------------
(* The log *)

(***************************************************************************)
(* The first of three attempts that Jenkins answers, cut to its end.       *)
(***************************************************************************)
Answered(replies) == {k \in 1..Attempts : replies[k] # NoLog}

FetchConsoleLog(replies) ==
    EndOf(MaxLog, replies[CHOOSE k \in Answered(replies) : \A m \in Answered(replies) : k <= m])

(***************************************************************************)
(* A log in the webhook's payload is taken as it is; a log that cannot be  *)
(* fetched is replaced by a line that says so.                             *)
(***************************************************************************)
RawLog(embedded, replies) ==
    IF embedded # <<>> THEN embedded
    ELSE IF Answered(replies) # {} THEN FetchConsoleLog(replies)
    ELSE <<Bare(Unavailable)>>

\* build_events.log_truncated
Truncated(raw) == Len(raw) >= MaxLog

-----------------------------------------------------------------------------
(* Its errors *)

Strip(log) == [i \in DOMAIN log |-> Bare(log[i].text)]

Block(lines, i) ==
    [anchor |-> lines[i].text,
     before |-> SubSeq(lines, IF i > Ctx THEN i - Ctx ELSE 1, i - 1),
     after  |-> SubSeq(lines, i + 1, IF i + Ctx < Len(lines) THEN i + Ctx ELSE Len(lines))]

FullText(block) == block.before \o <<Bare(block.anchor)>> \o block.after

Nothing == [seen |-> {}, blocks |-> <<>>]

\* Mutant of Scan: errors are told apart with their time stamps.
Scan_Stamped(log, found, i) ==
    IF log[i].text \in Anchor /\ log[i] \notin found.seen
    THEN [seen   |-> found.seen \cup {log[i]},
          blocks |-> Append(found.blocks, Block(Strip(log), i))]
    ELSE found

\* One line: an error that was not seen before gets a block.
Scan(log, found, i) ==
    IF log[i].text \in Anchor \ found.seen
    THEN [seen   |-> found.seen \cup {log[i].text},
          blocks |-> Append(found.blocks, Block(Strip(log), i))]
    ELSE found

(***************************************************************************)
(* One block per different error line, where it first appears.             *)
(***************************************************************************)
Parse(log) ==
    LET found[i \in 0..Len(log)] == IF i = 0 THEN Nothing ELSE Scan(log, found[i - 1], i)
    IN  found[Len(log)].blocks

\* The key of the pattern store: the first error, without what varies.
SignatureOf(log) ==
    LET blocks == Parse(log)
    IN  IF blocks = <<>> THEN NoSignature ELSE Normal[blocks[1].anchor]

(***************************************************************************)
(* A stable sort by similarity, in descending order: in place n is the     *)
(* record that has n - 1 ahead of it.                                      *)
(***************************************************************************)
Ahead(records, k) ==
    {m \in DOMAIN records : \/ records[m].similarity > records[k].similarity
                            \/ records[m].similarity = records[k].similarity /\ m < k}

Sorted(records) ==
    [n \in DOMAIN records |->
        records[CHOOSE k \in DOMAIN records : Cardinality(Ahead(records, k)) = n - 1]]

(***************************************************************************)
(* find_similar, the similarity of each pattern record to the excerpt      *)
(* being given: those over the threshold, the best three of them.          *)
(***************************************************************************)
FindSimilar(records) ==
    StartOf(3, Sorted(Kept(records, {k \in DOMAIN records : records[k].similarity >= Threshold})))

\* "\n\n".join
BlocksText(blocks) ==
    LET text[k \in 0..Len(blocks)] ==
          IF k = 0 THEN <<>>
          ELSE IF k = 1 THEN FullText(blocks[1])
          ELSE text[k - 1] \o <<Bare(Empty)>> \o FullText(blocks[k])
    IN  text[Len(blocks)]

Within(part, whole) ==
    \E i \in 0..Len(whole) : /\ i + Len(part) <= Len(whole)
                             /\ SubSeq(whole, i + 1, i + Len(part)) = part

\* Mutant of Excerpt: what is over the limit is cut off in front.
Excerpt_CutInFront(raw) ==
    LET text == BlocksText(Parse(raw))
        tail == EndOf(TailLen, raw)
    IN  EndOf(ExcerptCap, IF text # <<>> /\ ~Within(tail, text) THEN text \o tail
                         ELSE IF text # <<>> THEN text ELSE tail)

(***************************************************************************)
(* What the classifier and the language models read: the error blocks,     *)
(* then the end of the raw log unless the blocks contain it.               *)
(***************************************************************************)
Excerpt(raw) ==
    LET text == BlocksText(Parse(raw))
        tail == EndOf(TailLen, raw)
    IN  StartOf(ExcerptCap, IF text # <<>> /\ ~Within(tail, text) THEN text \o tail
                          ELSE IF text # <<>> THEN text ELSE tail)

-----------------------------------------------------------------------------
(* Their kind *)

Hits(line) == Kept(Rules, {k \in DOMAIN Rules : line.text \in Rules[k].hits})

\* One tag per line and rule that match.
Types(lines) ==
    LET types[i \in 0..Len(lines)] ==
          IF i = 0 THEN <<>>
          ELSE types[i - 1] \o [k \in DOMAIN Hits(lines[i]) |-> Hits(lines[i])[k].type]
    IN  types[Len(lines)]

\* Kinds that contradict each other lower the confidence of all of them.
Classify(lines) ==
    LET types == Types(lines)
    IN  IF types = <<>> THEN <<[category |-> "unknown", confidence |-> "LOW"]>>
        ELSE [k \in DOMAIN types |->
                [category   |-> types[k],
                 confidence |-> IF \E m \in DOMAIN types : types[m] # types[k]
                                THEN "MEDIUM" ELSE "HIGH"]]

Primary(raw) == Classify(IF Excerpt(raw) # <<>> THEN Excerpt(raw) ELSE raw)[1]

-----------------------------------------------------------------------------
(* Properties of a log *)

ErrorsIn(log) == {log[i].text : i \in DOMAIN log} \cap Anchor
Place(text, log) == CHOOSE i \in DOMAIN log : log[i].text = text /\ \A j \in 1..(i - 1) : log[j].text # text

(***************************************************************************)
(* parse finds every error of a log once, in the order of their first      *)
(* appearance, whatever the times in front of them, each with the lines    *)
(* around it.                                                              *)
(***************************************************************************)
ErrorsFoundOnce(log) ==
    LET blocks == Parse(log)
    IN  /\ Len(blocks) = Cardinality(ErrorsIn(log))
        /\ {blocks[k].anchor : k \in DOMAIN blocks} = ErrorsIn(log)
        /\ \A k \in DOMAIN blocks :
             LET at == Place(blocks[k].anchor, log)
             IN  /\ k > 1 => Place(blocks[k - 1].anchor, log) < at
                 /\ Within(FullText(blocks[k]), Strip(log))
                 /\ Len(blocks[k].before) = (IF at > Ctx THEN Ctx ELSE at - 1)
                 /\ Len(blocks[k].after) = (IF at + Ctx <= Len(log) THEN Ctx ELSE Len(log) - at)

(***************************************************************************)
(* What is analysed is the end of what Jenkins sent, where a build fails;  *)
(* if anything is missing, the event says so.                              *)
(***************************************************************************)
EndIsAnalysed(replies) ==
    LET raw == RawLog(<<>>, replies)
    IN  \/ raw = <<Bare(Unavailable)>> /\ \A k \in 1..Attempts : replies[k] \in {NoLog, raw}
        \/ \E k \in 1..Attempts :
             /\ replies[k] # NoLog
             /\ IsSuffix(raw, replies[k])
             /\ raw # replies[k] => Truncated(raw)

(***************************************************************************)
(* The error that a build is counted under is one the classifier sees: if  *)
(* a rule knows it, the build is not reported as unknown.                  *)
(***************************************************************************)
CountedErrorIsClassified(raw) ==
    LET blocks == Parse(raw)
    IN  blocks # <<>> /\ Hits(Bare(blocks[1].anchor)) # <<>> => Primary(raw).category # "unknown"

(***************************************************************************)
(* Of the failures like this one, none that is left out is more similar    *)
(* than the one whose resolution is offered.                               *)
(***************************************************************************)
BestMatchFirst(records) ==
    LET found == FindSimilar(records)
    IN  IF found = <<>> THEN \A r \in ToSet(records) : r.similarity < Threshold
        ELSE \A r \in ToSet(records) : r.similarity <= found[1].similarity
=============================================================================
