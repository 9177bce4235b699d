----------------------- MODULE FailureAnalysisProofs -----------------------
(***************************************************************************)
(* For any number of analyses, builds and deaths: the tables tell the      *)
(* truth about deliveries, a recorded failure is known to the pattern      *)
(* store, counts are never made up, a build whose paths come in turn is    *)
(* reported once, and no build goes unreported and no event unconfirmed    *)
(* unless an analysis died or the build was outrun.  For any log, any      *)
(* rules, any history and any replies: the end of the log is analysed,     *)
(* every error in it is found once and classified, and every failure has a *)
(* sound answer.                                                           *)
(***************************************************************************)
EXTENDS Diagnosis, FiniteSetTheorems, SequenceTheorems, WellFoundedInduction, TLAPS

(***************************************************************************)
(* What a call that has come so far has already done.                      *)
(***************************************************************************)
Progress(i) ==
    /\ calls[i].pc # "unborn" => calls[i].build \in Build
    /\ calls[i].pc \in {"unborn", "guard", "analyse", "upsert", "record"} => i \notin DOMAIN events
    /\ calls[i].pc \in {"analyse", "upsert"} => Sig(i) # NoSig
    /\ calls[i].pc = "record" /\ Sig(i) # NoSig => patterns[Sig(i)] > 0
    /\ calls[i].pc \in {"notify", "confirm"} => i \in DOMAIN events
    /\ SlackConfigured /\ calls[i].pc = "confirm" /\ calls[i].ok => i \in posted

IInv == TypeOK /\ Accounted /\ EventHasPattern /\ \A i \in Analysis : Progress(i)

LEMMA InitIInv ==
    ASSUME AnalysisAssumption, Init
    PROVE  IInv
<1>1. DOMAIN events = {}
  BY DEF Init
<1> QED
  BY <1>1 DEF Init, AnalysisAssumption, IInv, TypeOK, Call, Accounted, EventHasPattern, Progress

(***************************************************************************)
(* A step of call i that only moves its program counter and its local      *)
(* variables leaves the other calls' progress and the tables alone.        *)
(***************************************************************************)
LEMMA LocalStep ==
    ASSUME IInv, UNCHANGED <<patterns, events, posted>>, NEW i \in Analysis,
           deaths' \in 0..MaxDeaths,
           NEW c \in Call, calls' = [calls EXCEPT ![i] = c],
           i \in DOMAIN events => c.build = calls[i].build,
           Progress(i)'
    PROVE  IInv'
<1> USE DEF IInv
<1>1. TypeOK'
  BY DEF TypeOK
<1>2. /\ calls'[i] = c
      /\ \A j \in Analysis \ {i} : calls'[j] = calls[j]
  BY DEF TypeOK
<1>3. Accounted'
  BY DEF Accounted
<1>4. \A j \in DOMAIN events : Sig(j)' = Sig(j)
  BY <1>2 DEF Sig, TypeOK
<1>5. EventHasPattern'
  BY <1>4 DEF EventHasPattern
<1>6. \A j \in Analysis : Progress(j)'
  BY <1>2 DEF Progress, Sig
<1> QED
  BY <1>1, <1>3, <1>5, <1>6

LEMMA TriggerStep ==
    ASSUME IInv, NEW i \in Analysis, NEW b \in Build, Trigger(i, b)
    PROVE  IInv'
<1> DEFINE c == [calls[i] EXCEPT !.build = b, !.pc = "guard"]
<1>1. calls[i] \in Call /\ calls[i].pc = "unborn"
  BY DEF IInv, TypeOK, Trigger, At
<1>2. c \in Call /\ c.pc = "guard" /\ c.build = b
  BY <1>1 DEF Call
<1>3. calls' = [calls EXCEPT ![i] = c] /\ UNCHANGED <<patterns, events, posted, deaths>>
  BY DEF Trigger
<1>4. i \notin DOMAIN events
  BY <1>1 DEF IInv, Progress
<1>5. calls'[i] = c
  BY <1>3 DEF IInv, TypeOK
<1>6. Progress(i)'
  BY <1>2, <1>3, <1>4, <1>5 DEF Progress
<1> HIDE DEF c
<1> QED
  BY <1>2, <1>3, <1>4, <1>6, LocalStep DEF IInv, TypeOK

(***************************************************************************)
(* The steps that move the program counter to pc and nothing else.         *)
(***************************************************************************)
LEMMA GotoStep ==
    ASSUME IInv, NEW i \in Analysis, calls[i].pc # "unborn",
           NEW pc \in {"over", "record", "analyse"}, Goto(i, pc),
           pc # "over" => i \notin DOMAIN events,
           pc = "record" => Sig(i) = NoSig,
           pc = "analyse" => Sig(i) # NoSig,
           UNCHANGED <<patterns, events, posted>>, deaths' \in 0..MaxDeaths
    PROVE  IInv'
<1> DEFINE c == [calls[i] EXCEPT !.pc = pc]
<1>1. calls[i] \in Call /\ calls[i].build \in Build
  BY DEF IInv, TypeOK, Progress
<1>2. c \in Call /\ c.pc = pc /\ c.build = calls[i].build /\ c.ok = calls[i].ok
  BY <1>1 DEF Call
<1>3. calls' = [calls EXCEPT ![i] = c]
  BY DEF Goto
<1>4. calls'[i] = c
  BY <1>3 DEF IInv, TypeOK
<1>5. Sig(i)' = Sig(i)
  BY <1>2, <1>4 DEF Sig
<1>6. Progress(i)'
  BY <1>1, <1>2, <1>4, <1>5 DEF Progress
<1> HIDE DEF c
<1> QED
  BY <1>2, <1>3, <1>6, LocalStep

LEMMA GuardStep ==
    ASSUME IInv, NEW i \in Analysis, Guard(i)
    PROVE  IInv'
<1>1. calls[i].pc = "guard" /\ i \notin DOMAIN events
  BY DEF Guard, At, IInv, Progress
<1>2. deaths' \in 0..MaxDeaths
  BY DEF Guard, IInv, TypeOK
<1>3. \/ Goto(i, "over")
      \/ Goto(i, "record") /\ Sig(i) = NoSig
      \/ Goto(i, "analyse") /\ Sig(i) # NoSig
  BY DEF Guard, Goto
<1> QED
  BY <1>1, <1>2, <1>3, GotoStep DEF Guard

LEMMA LookupStep ==
    ASSUME AnalysisAssumption, IInv, NEW i \in Analysis, LookupPattern(i)
    PROVE  IInv'
<1> DEFINE c == [calls[i] EXCEPT !.pc = "upsert", !.seen = patterns[Sig(i)]]
<1>1. calls[i] \in Call /\ calls[i].pc = "analyse" /\ calls[i].build \in Build
      /\ i \notin DOMAIN events /\ Sig(i) # NoSig
  BY DEF IInv, TypeOK, Progress, LookupPattern, At
<1>2. Sig(i) \in Signature /\ patterns[Sig(i)] \in Nat
  BY <1>1 DEF Sig, AnalysisAssumption, IInv, TypeOK
<1>3. c \in Call /\ c.pc = "upsert" /\ c.build = calls[i].build
  BY <1>1, <1>2 DEF Call
<1>4. calls' = [calls EXCEPT ![i] = c] /\ UNCHANGED <<patterns, events, posted, deaths>>
  BY DEF LookupPattern
<1>5. calls'[i] = c
  BY <1>4 DEF IInv, TypeOK
<1>6. Sig(i)' = Sig(i)
  BY <1>3, <1>5 DEF Sig
<1>7. Progress(i)'
  BY <1>1, <1>3, <1>4, <1>5, <1>6 DEF Progress
<1> HIDE DEF c
<1> QED
  BY <1>3, <1>4, <1>7, LocalStep DEF IInv, TypeOK

(***************************************************************************)
(* The count of a signature never goes back to zero.                       *)
(***************************************************************************)
LEMMA UpsertStep ==
    ASSUME AnalysisAssumption, IInv, NEW i \in Analysis, UpsertPattern(i)
    PROVE  IInv'
<1>1. calls[i] \in Call /\ calls[i].pc = "upsert" /\ calls[i].build \in Build
      /\ i \notin DOMAIN events /\ Sig(i) # NoSig
  BY DEF IInv, TypeOK, Progress, UpsertPattern, At
<1>2. CASE Goto(i, "over") /\ UNCHANGED patterns
  BY <1>1, <1>2, GotoStep DEF UpsertPattern, IInv, TypeOK
<1>3. CASE patterns' = [patterns EXCEPT ![Sig(i)] = calls[i].seen + 1] /\ Goto(i, "record")
  <2> DEFINE c == [calls[i] EXCEPT !.pc = "record"]
  <2>1. Sig(i) \in Signature /\ calls[i].seen + 1 \in Nat /\ calls[i].seen + 1 > 0
    BY <1>1 DEF Sig, AnalysisAssumption, Call
  <2>2. /\ patterns' \in [Signature -> Nat]
        /\ \A s \in Signature : patterns[s] > 0 => patterns'[s] > 0
        /\ patterns'[Sig(i)] > 0
    BY <1>3, <2>1 DEF IInv, TypeOK
  <2>3. c \in Call /\ c.pc = "record" /\ c.build = calls[i].build /\ c.ok = calls[i].ok
    BY <1>1 DEF Call
  <2>4. calls' = [calls EXCEPT ![i] = c] /\ UNCHANGED <<events, posted, deaths>>
    BY <1>3 DEF Goto, UpsertPattern
  <2> HIDE DEF c
  <2>5. calls'[i] = c /\ \A j \in Analysis \ {i} : calls'[j] = calls[j]
    BY <2>4 DEF IInv, TypeOK
  <2>6. TypeOK'
    BY <2>2, <2>3, <2>4 DEF IInv, TypeOK
  <2>7. \A j \in Analysis : Sig(j)' = Sig(j)
    BY <2>3, <2>5 DEF Sig
  <2>8. \A j \in Analysis : calls[j].build \in Build /\ Sig(j) # NoSig => Sig(j) \in Signature
    BY DEF Sig, AnalysisAssumption
  <2>9. Accounted'
    BY <2>4 DEF IInv, Accounted
  <2>10. \A j \in Analysis : Progress(j)'
    <3>1. Progress(i)'
      <4>1. calls'[i].pc = "record" /\ calls'[i].build \in Build /\ i \notin DOMAIN events'
        BY <1>1, <2>3, <2>4, <2>5
      <4>2. Sig(i)' = Sig(i)
        BY <2>3, <2>5 DEF Sig
      <4>3. patterns'[Sig(i)'] > 0
        BY <2>2, <4>2
      <4> QED
        BY <4>1, <4>3 DEF Progress
    <3>2. ASSUME NEW j \in Analysis \ {i}
          PROVE  Progress(j)'
      <4>1. Progress(j)
        BY DEF IInv
      <4>2. calls[j].pc = "record" /\ Sig(j) # NoSig => patterns'[Sig(j)] > 0
        BY <2>2, <2>8, <4>1 DEF Progress
      <4> QED
        BY <2>4, <2>5, <2>7, <4>1, <4>2 DEF Progress
    <3> QED
      BY <3>1, <3>2
  <2>11. EventHasPattern'
    <3>1. ASSUME NEW j \in DOMAIN events, Sig(j) # NoSig
          PROVE  patterns'[Sig(j)] > 0
      <4>1. j \in Analysis /\ calls[j] \in Call /\ Progress(j) /\ patterns[Sig(j)] > 0
        BY <3>1 DEF IInv, TypeOK, EventHasPattern
      <4>2. calls[j].pc # "unborn"
        BY <3>1, <4>1 DEF Progress
      <4>3. Sig(j) \in Signature
        BY <2>8, <3>1, <4>1, <4>2 DEF Progress
      <4> QED
        BY <2>2, <4>1, <4>3
    <3>2. DOMAIN events \subseteq Analysis
      BY DEF IInv, TypeOK
    <3> QED
      BY <2>4, <2>7, <3>1, <3>2 DEF EventHasPattern
  <2> QED
    BY <2>6, <2>9, <2>10, <2>11 DEF IInv
<1> QED
  BY <1>2, <1>3 DEF UpsertPattern

(***************************************************************************)
(* The row is new, and its signature has been counted.                     *)
(***************************************************************************)
LEMMA RecordStep ==
    ASSUME IInv, NEW i \in Analysis, RecordEvent(i)
    PROVE  IInv'
<1> DEFINE c == [calls[i] EXCEPT !.pc = "notify"]
<1>1. calls[i] \in Call /\ calls[i].pc = "record" /\ calls[i].build \in Build
      /\ (Sig(i) # NoSig => patterns[Sig(i)] > 0) /\ i \notin DOMAIN events
  BY DEF IInv, TypeOK, Progress, RecordEvent, At
<1>2. c \in Call /\ c.pc = "notify" /\ c.build = calls[i].build /\ c.ok = calls[i].ok
  BY <1>1 DEF Call
<1>3. calls' = [calls EXCEPT ![i] = c] /\ UNCHANGED <<patterns, posted, deaths>>
  BY DEF RecordEvent, Goto
<1> HIDE DEF c
<1>4. calls'[i] = c /\ \A j \in Analysis \ {i} : calls'[j] = calls[j]
  BY <1>3 DEF IInv, TypeOK
<1>5. /\ DOMAIN events' = DOMAIN events \cup {i}
      /\ events'[i] = "PENDING"
      /\ \A e \in DOMAIN events : events'[e] = events[e]
  BY <1>1 DEF RecordEvent
<1>6. events' \in [DOMAIN events' -> Delivery]
  BY DEF RecordEvent, IInv, TypeOK, Delivery
<1>7. TypeOK'
  BY <1>2, <1>3, <1>5, <1>6 DEF IInv, TypeOK
<1>8. \A j \in Analysis : Sig(j)' = Sig(j)
  BY <1>2, <1>4 DEF Sig
<1>9. Accounted'
  BY <1>3, <1>5 DEF IInv, Accounted
<1>10. EventHasPattern'
  BY <1>1, <1>3, <1>5, <1>8 DEF IInv, TypeOK, EventHasPattern
<1>11. Progress(i)'
  BY <1>1, <1>2, <1>3, <1>4, <1>5, <1>8 DEF Progress
<1>12. \A j \in Analysis \ {i} : Progress(j)'
  BY <1>3, <1>4, <1>5, <1>8 DEF IInv, Progress
<1> QED
  BY <1>7, <1>9, <1>10, <1>11, <1>12 DEF IInv

LEMMA NotifyStep ==
    ASSUME IInv, NEW i \in Analysis, Notify(i)
    PROVE  IInv'
<1>1. calls[i] \in Call /\ calls[i].pc = "notify" /\ calls[i].build \in Build
      /\ i \in DOMAIN events
  BY DEF IInv, TypeOK, Progress, Notify, At
<1>2. PICK ok \in BOOLEAN, delivered \in BOOLEAN :
         /\ IF SlackConfigured THEN ok => delivered ELSE ok /\ ~delivered
         /\ posted' = IF delivered THEN posted \cup {i} ELSE posted
         /\ calls' = [calls EXCEPT ![i].pc = "confirm", ![i].ok = ok]
  BY DEF Notify
<1> DEFINE c == [calls[i] EXCEPT !.pc = "confirm", !.ok = ok]
<1>3. c \in Call /\ c.pc = "confirm" /\ c.build = calls[i].build /\ c.ok = ok
  BY <1>1 DEF Call
<1>4. calls' = [calls EXCEPT ![i] = c] /\ UNCHANGED <<patterns, events, deaths>>
  BY <1>2 DEF Notify
<1> HIDE DEF c
<1>5. calls'[i] = c /\ \A j \in Analysis \ {i} : calls'[j] = calls[j]
  BY <1>4 DEF IInv, TypeOK
<1>6. posted \subseteq posted' /\ posted' \subseteq posted \cup {i} /\ (SlackConfigured /\ ok => i \in posted')
  BY <1>2
<1>7. TypeOK'
  BY <1>3, <1>4, <1>6 DEF IInv, TypeOK
<1>8. \A j \in Analysis : Sig(j)' = Sig(j)
  BY <1>3, <1>5 DEF Sig
<1>9. Accounted'
  BY <1>1, <1>4, <1>6 DEF IInv, Accounted
<1>10. EventHasPattern'
  BY <1>4, <1>8 DEF IInv, TypeOK, EventHasPattern
<1>11. Progress(i)'
  BY <1>1, <1>3, <1>4, <1>5, <1>6 DEF Progress
<1>12. \A j \in Analysis \ {i} : Progress(j)'
  BY <1>4, <1>5, <1>6, <1>8 DEF IInv, Progress
<1> QED
  BY <1>7, <1>9, <1>10, <1>11, <1>12 DEF IInv

LEMMA ConfirmStep ==
    ASSUME IInv, NEW i \in Analysis, Confirm(i)
    PROVE  IInv'
<1> DEFINE c == [calls[i] EXCEPT !.pc = "over"]
<1>1. calls[i] \in Call /\ calls[i].pc = "confirm" /\ calls[i].build \in Build
      /\ i \in DOMAIN events /\ (SlackConfigured /\ calls[i].ok => i \in posted)
  BY DEF IInv, TypeOK, Progress, Confirm, At
<1>2. c \in Call /\ c.pc = "over" /\ c.build = calls[i].build
  BY <1>1 DEF Call
<1>3. calls' = [calls EXCEPT ![i] = c] /\ UNCHANGED <<patterns, posted, deaths>>
  BY DEF Confirm, Goto
<1> HIDE DEF c
<1>4. calls'[i] = c /\ \A j \in Analysis \ {i} : calls'[j] = calls[j]
  BY <1>3 DEF IInv, TypeOK
<1>5. /\ events' \in [DOMAIN events -> Delivery]
      /\ events'[i] = IF calls[i].ok THEN "OK" ELSE "FAILED"
      /\ \A e \in DOMAIN events \ {i} : events'[e] = events[e]
  BY <1>1 DEF Confirm, IInv, TypeOK, Delivery
<1>6. DOMAIN events' = DOMAIN events
  BY <1>5
<1>7. TypeOK'
  BY <1>2, <1>3, <1>5, <1>6 DEF IInv, TypeOK
<1>8. \A j \in Analysis : Sig(j)' = Sig(j)
  BY <1>2, <1>4 DEF Sig
<1>9. Accounted'
  BY <1>1, <1>3, <1>5, <1>6 DEF IInv, Accounted
<1>10. EventHasPattern'
  BY <1>3, <1>6, <1>8 DEF IInv, TypeOK, EventHasPattern
<1>11. Progress(i)'
  BY <1>1, <1>2, <1>4 DEF Progress
<1>12. \A j \in Analysis \ {i} : Progress(j)'
  BY <1>3, <1>4, <1>6, <1>8 DEF IInv, Progress
<1> QED
  BY <1>7, <1>9, <1>10, <1>11, <1>12 DEF IInv

LEMMA DiesStep ==
    ASSUME AnalysisAssumption, IInv, NEW i \in Analysis, Dies(i)
    PROVE  IInv'
<1>1. deaths' \in 0..MaxDeaths
  BY DEF Dies, IInv, TypeOK, AnalysisAssumption
<1> QED
  BY <1>1, GotoStep DEF Dies

LEMMA NextIInv ==
    ASSUME AnalysisAssumption, IInv, [Next]_vars
    PROVE  IInv'
<1>1. CASE Next
  BY <1>1, TriggerStep, GuardStep, LookupStep, UpsertStep, RecordStep, NotifyStep,
     ConfirmStep, DiesStep DEF Next, ProcessAsync
<1>2. CASE UNCHANGED vars
  BY <1>2 DEF vars, IInv, TypeOK, Accounted, EventHasPattern, Progress, Sig
<1> QED
  BY <1>1, <1>2

(***************************************************************************)
(* The invariant the theorems below are conjuncts of.                      *)
(***************************************************************************)
THEOREM Invariance == Spec => []IInv
<1>1. Init => IInv
  BY AnalysisAssumption, InitIInv
<1>2. IInv /\ [Next]_vars => IInv'
  BY AnalysisAssumption, NextIInv
<1> QED
  BY <1>1, <1>2, PTL DEF Spec

(***************************************************************************)
(* A message is only posted for a recorded build, and a row that says OK   *)
(* was delivered (RecordEvent, Notify, Confirm).                           *)
(***************************************************************************)
THEOREM DeliveriesAccounted == Spec => []Accounted
BY Invariance, PTL DEF IInv

(***************************************************************************)
(* Every recorded failure with an error block is known to the pattern      *)
(* store (UpsertPattern before RecordEvent, counts that never return to 0).*)
(***************************************************************************)
THEOREM FailuresAreKnown == Spec => []EventHasPattern
BY Invariance, PTL DEF IInv
(***************************************************************************)
(* Types of the calls, the pattern store and the event table.              *)
(***************************************************************************)
THEOREM TypeCorrect == Spec => []TypeOK
BY Invariance, PTL DEF IInv

-----------------------------------------------------------------------------
(* Counts *)

Past == {"record", "notify", "confirm", "over"}

(***************************************************************************)
(* What a call read is covered by the calls that counted before it: the    *)
(* row itself may fall back when an update is lost, so it does not bound   *)
(* what was read.                                                          *)
(***************************************************************************)
CountInv ==
    /\ CountSound
    /\ \A i \in Analysis : At(i, "upsert") => calls[i].seen <= Cardinality(Counted(Sig(i)))

(***************************************************************************)
(* A call keeps its build once it has one, and moves forward.              *)
(***************************************************************************)
Forward == \A i \in Analysis :
    /\ calls[i].pc # "unborn" => calls'[i].build = calls[i].build
    /\ calls[i].pc \in Past => calls'[i].pc \in Past

LEMMA StepsGoForward ==
    ASSUME TypeOK, [Next]_vars
    PROVE  Forward
<1>1. ASSUME NEW j \in Analysis, NEW b \in Build, Trigger(j, b)
      PROVE  Forward
  BY <1>1 DEF Trigger, At, TypeOK, Forward, Past
<1>2. ASSUME NEW j \in Analysis, NEW pc \in Past \cup {"analyse"}, Goto(j, pc),
             calls[j].pc \in Past => pc \in Past
      PROVE  Forward
  BY <1>2 DEF Goto, TypeOK, Forward, Past
<1>3. ASSUME NEW j \in Analysis, ProcessAsync(j)
      PROVE  Forward
  <2>1. CASE Guard(j)
    BY <1>2, <2>1 DEF Guard, At, Past
  <2>2. CASE LookupPattern(j)
    BY <2>2 DEF LookupPattern, At, TypeOK, Forward, Past
  <2>3. CASE UpsertPattern(j)
    BY <1>2, <2>3 DEF UpsertPattern, At, Past
  <2>4. CASE RecordEvent(j)
    BY <1>2, <2>4 DEF RecordEvent, At, Past
  <2>5. CASE Notify(j)
    BY <2>5 DEF Notify, At, TypeOK, Forward, Past
  <2>6. CASE Confirm(j)
    BY <1>2, <2>6 DEF Confirm, At, Past
  <2> QED
    BY <1>3, <2>1, <2>2, <2>3, <2>4, <2>5, <2>6 DEF ProcessAsync
<1>4. ASSUME NEW j \in Analysis, Dies(j)
      PROVE  Forward
  BY <1>2, <1>4 DEF Dies, Past
<1>5. CASE UNCHANGED vars
  BY <1>5 DEF vars, Forward
<1> QED
  BY <1>1, <1>3, <1>4, <1>5 DEF Next

(***************************************************************************)
(* So no step takes a call out of Counted.                                 *)
(***************************************************************************)
LEMMA CountedGrows ==
    ASSUME AnalysisAssumption, Forward, NEW s \in Signature
    PROVE  /\ Counted(s) \subseteq Counted(s)'
           /\ IsFiniteSet(Counted(s)) /\ IsFiniteSet(Counted(s)')
           /\ Cardinality(Counted(s)) \in Nat /\ Cardinality(Counted(s)') \in Nat
           /\ Cardinality(Counted(s)) <= Cardinality(Counted(s)')
<1>1. Counted(s) \subseteq Counted(s)'
  BY DEF Counted, Past, Sig, Forward
<1>2. IsFiniteSet(Counted(s)) /\ IsFiniteSet(Counted(s)')
  <2>1. Counted(s) \subseteq Analysis /\ Counted(s)' \subseteq Analysis
    BY DEF Counted
  <2> QED
    BY <2>1, FS_Subset DEF AnalysisAssumption
<1> QED
  BY <1>1, <1>2, FS_Subset, FS_CardinalityType

(***************************************************************************)
(* The call that writes was not counted before and is counted after.       *)
(***************************************************************************)
LEMMA WriterCounts ==
    ASSUME AnalysisAssumption, IInv, NEW i \in Analysis, UpsertPattern(i), Goto(i, "record"),
           NEW s \in Signature, s = Sig(i)
    PROVE  Cardinality(Counted(s)') >= Cardinality(Counted(s)) + 1
<1>1. calls[i].pc = "upsert" /\ calls[i].build \in Build
  BY DEF IInv, Progress, UpsertPattern, At
<1>2. Forward
  BY StepsGoForward DEF IInv, Next, ProcessAsync
<1>3. Counted(s) \subseteq Counted(s)' /\ IsFiniteSet(Counted(s)) /\ IsFiniteSet(Counted(s)')
      /\ Cardinality(Counted(s)) \in Nat /\ Cardinality(Counted(s)') \in Nat
  BY <1>2, CountedGrows
<1>4. i \notin Counted(s)
  BY <1>1 DEF Counted
<1>5. calls'[i].pc = "record" /\ calls'[i].build = calls[i].build
  BY DEF Goto, IInv, TypeOK
<1>6. i \in Counted(s)'
  BY <1>1, <1>5 DEF Counted, AnalysisAssumption, Sig
<1>7. Counted(s) \cup {i} \subseteq Counted(s)'
  BY <1>3, <1>6
<1>8. Cardinality(Counted(s) \cup {i}) = Cardinality(Counted(s)) + 1
      /\ IsFiniteSet(Counted(s) \cup {i})
  BY <1>3, <1>4, FS_AddElement
<1>9. Cardinality(Counted(s) \cup {i}) <= Cardinality(Counted(s)')
  BY <1>3, <1>7, FS_Subset
<1> QED
  BY <1>3, <1>8, <1>9

(***************************************************************************)
(* Every other step leaves the rows and what was read as they are; a       *)
(* lookup reads a row that CountSound covers.                              *)
(***************************************************************************)
LEMMA QuietCounts ==
    ASSUME AnalysisAssumption, IInv, CountInv, Forward, UNCHANGED patterns,
           \A i \in Analysis : calls'[i].pc = "upsert" =>
              /\ calls[i].pc # "unborn" /\ Sig(i) \in Signature
              /\ \/ calls[i].pc = "upsert" /\ calls'[i].seen = calls[i].seen
                 \/ calls'[i].seen = patterns[Sig(i)]
    PROVE  CountInv'
<1>1. ASSUME NEW s \in Signature
      PROVE  /\ patterns[s] \in Nat
             /\ Cardinality(Counted(s)) \in Nat /\ Cardinality(Counted(s)') \in Nat
             /\ Cardinality(Counted(s)) <= Cardinality(Counted(s)')
  BY CountedGrows DEF IInv, TypeOK
<1>2. CountSound'
  BY <1>1 DEF CountInv, CountSound
<1>3. ASSUME NEW i \in Analysis, At(i, "upsert")'
      PROVE  (calls[i].seen <= Cardinality(Counted(Sig(i))))'
  <2>1. calls[i].pc # "unborn" /\ Sig(i) \in Signature /\ Sig(i)' = Sig(i)
    BY <1>3 DEF At, Forward, Sig
  <2>2. calls'[i].seen <= Cardinality(Counted(Sig(i))) /\ calls'[i].seen \in Nat
    <3>1. CASE calls[i].pc = "upsert" /\ calls'[i].seen = calls[i].seen
      BY <3>1 DEF CountInv, At, IInv, TypeOK, Call
    <3>2. CASE calls'[i].seen = patterns[Sig(i)]
      BY <1>1, <2>1, <3>2 DEF CountInv, CountSound
    <3> QED
      BY <1>3, <3>1, <3>2 DEF At
  <2>3. Cardinality(Counted(Sig(i))) <= Cardinality(Counted(Sig(i))')
        /\ Cardinality(Counted(Sig(i))) \in Nat /\ Cardinality(Counted(Sig(i))') \in Nat
    BY <1>1, <2>1
  <2>4. calls'[i].seen <= Cardinality(Counted(Sig(i))')
    BY <2>2, <2>3
  <2> QED
    BY <2>1, <2>4 DEF Counted
<1> QED
  BY <1>2, <1>3 DEF CountInv

LEMMA NextCountInv ==
    ASSUME AnalysisAssumption, IInv, CountInv, [Next]_vars
    PROVE  CountInv'
<1>1. Forward
  BY StepsGoForward DEF IInv
<1>2. \A i \in Analysis : calls[i].pc \in {"analyse", "upsert"} => Sig(i) \in Signature
  BY DEF IInv, Progress, Sig, AnalysisAssumption
<1>3. ASSUME NEW j \in Analysis, NEW b \in Build, Trigger(j, b)
      PROVE  CountInv'
  <2>1. \A i \in Analysis : calls'[i].pc = "upsert" => i # j /\ calls'[i] = calls[i]
    BY <1>3 DEF Trigger, IInv, TypeOK
  <2> QED
    BY <1>1, <1>2, <1>3, <2>1, QuietCounts DEF Trigger
<1>4. ASSUME NEW j \in Analysis, UNCHANGED patterns,
             NEW pc \in Past \cup {"analyse"}, Goto(j, pc)
      PROVE  CountInv'
  <2>1. \A i \in Analysis : calls'[i].pc = "upsert" => calls'[i] = calls[i]
    BY <1>4 DEF Goto, IInv, TypeOK, Past
  <2> QED
    BY <1>1, <1>2, <1>4, <2>1, QuietCounts
<1>5. ASSUME NEW j \in Analysis, LookupPattern(j)
      PROVE  CountInv'
  <2>1. \A i \in Analysis : calls'[i].pc = "upsert" =>
          \/ calls'[i] = calls[i]
          \/ i = j /\ calls[i].pc = "analyse" /\ calls'[i].seen = patterns[Sig(i)]
    BY <1>5 DEF LookupPattern, At, IInv, TypeOK
  <2> QED
    BY <1>1, <1>2, <1>5, <2>1, QuietCounts DEF LookupPattern
<1>6. ASSUME NEW j \in Analysis, UpsertPattern(j), Goto(j, "record"),
             patterns' = [patterns EXCEPT ![Sig(j)] = calls[j].seen + 1]
      PROVE  CountInv'
  <2>1. At(j, "upsert") /\ calls[j].seen \in Nat
    BY <1>6 DEF UpsertPattern, IInv, TypeOK, Call
  <2>2. ASSUME NEW s \in Signature
        PROVE  patterns'[s] \in Nat /\ patterns'[s] <= Cardinality(Counted(s)')
    <3>1. Cardinality(Counted(s)) \in Nat /\ Cardinality(Counted(s)') \in Nat
          /\ Cardinality(Counted(s)) <= Cardinality(Counted(s)')
      BY <1>1, CountedGrows
    <3>2. CASE s = Sig(j)
      <4>1. calls[j].seen <= Cardinality(Counted(s))
        BY <2>1, <3>2 DEF CountInv
      <4>2. Cardinality(Counted(s)') >= Cardinality(Counted(s)) + 1
        BY <1>6, <3>2, WriterCounts
      <4>3. patterns'[s] = calls[j].seen + 1
        BY <1>6, <3>2 DEF IInv, TypeOK
      <4> QED
        BY <2>1, <3>1, <4>1, <4>2, <4>3
    <3>3. CASE s # Sig(j)
      BY <1>6, <3>1, <3>3 DEF IInv, TypeOK, CountInv, CountSound
    <3> QED
      BY <3>2, <3>3
  <2>3. ASSUME NEW i \in Analysis, At(i, "upsert")'
        PROVE  (calls[i].seen <= Cardinality(Counted(Sig(i))))'
    <3>1. calls'[i] = calls[i] /\ calls[i].pc = "upsert" /\ calls[i].seen \in Nat
      BY <1>6, <2>3 DEF At, Goto, IInv, TypeOK, Call
    <3>2. Sig(i)' = Sig(i) /\ Sig(i) \in Signature
      BY <1>2, <3>1 DEF Sig
    <3>3. calls[i].seen <= Cardinality(Counted(Sig(i)))
      BY <3>1 DEF CountInv, At
    <3>4. calls[i].seen <= Cardinality(Counted(Sig(i))')
      BY <1>1, <3>1, <3>2, <3>3, CountedGrows
    <3> QED
      BY <3>1, <3>2, <3>4 DEF Counted
  <2> QED
    BY <2>2, <2>3 DEF CountInv, CountSound
<1>7. ASSUME NEW j \in Analysis, Notify(j)
      PROVE  CountInv'
  <2>1. \A i \in Analysis : calls'[i].pc = "upsert" => calls'[i] = calls[i]
    BY <1>7 DEF Notify, IInv, TypeOK
  <2> QED
    BY <1>1, <1>2, <1>7, <2>1, QuietCounts DEF Notify
<1>8. CASE UNCHANGED vars
  BY <1>1, <1>2, <1>8, QuietCounts DEF vars
<1>9. ASSUME NEW j \in Analysis, ProcessAsync(j)
      PROVE  CountInv'
  <2>1. CASE Guard(j)
    BY <1>4, <2>1 DEF Guard, Past
  <2>2. CASE UpsertPattern(j)
    BY <1>4, <1>6, <2>2 DEF UpsertPattern, Past
  <2>3. CASE RecordEvent(j) \/ Confirm(j)
    BY <1>4, <2>3 DEF RecordEvent, Confirm, Past
  <2> QED
    BY <1>5, <1>7, <1>9, <2>1, <2>2, <2>3 DEF ProcessAsync
<1>10. ASSUME NEW j \in Analysis, Dies(j)
       PROVE  CountInv'
  BY <1>4, <1>10 DEF Dies, Past
<1> QED
  BY <1>3, <1>8, <1>9, <1>10 DEF Next

(***************************************************************************)
(* A signature's count is at most the number of analyses that counted it,  *)
(* although reads and writes of the row interleave.                        *)
(***************************************************************************)
THEOREM CountsAreSound == Spec => []CountSound
<1>1. ASSUME Init
      PROVE  CountInv
  <2>1. \A s \in Signature : Cardinality(Counted(s)) = 0
    <3> TAKE s \in Signature
    <3>1. Counted(s) = {}
      BY <1>1 DEF Init, Counted
    <3> QED
      BY <3>1, FS_EmptySet
  <2> QED
    BY <1>1, <2>1 DEF Init, CountInv, CountSound, At
<1>2. IInv /\ CountInv /\ [Next]_vars => CountInv'
  BY AnalysisAssumption, NextCountInv
<1>3. CountInv => CountSound
  BY DEF CountInv
<1> QED
  BY <1>1, <1>2, <1>3, Invariance, PTL DEF Spec

-----------------------------------------------------------------------------
(* One message, in turn *)

(***************************************************************************)
(* Of the paths of a serial build at most one is under way; it has passed  *)
(* the guard only if none before it left an event.                         *)
(***************************************************************************)
InTurn(b) ==
    /\ \A i, j \in CallsOf(b) : i = j \/ At(i, "over") \/ At(j, "over")
    /\ \A i, j \in EventsOf(b) : i = j
    /\ \A i \in CallsOf(b) : calls[i].pc \in {"analyse", "upsert", "record"} => EventsOf(b) = {}

TurnInv == \A b \in Serial : InTurn(b)

LEMMA TriggerInTurn ==
    ASSUME AnalysisAssumption, IInv, TurnInv, NEW i \in Analysis, NEW c \in Build, Trigger(i, c)
    PROVE  TurnInv'
<1> SUFFICES ASSUME NEW b \in Serial
             PROVE  InTurn(b)'
  BY DEF TurnInv
<1>1. /\ calls'[i].build = c /\ calls'[i].pc = "guard" /\ calls[i].pc = "unborn"
      /\ \A j \in Analysis \ {i} : calls'[j] = calls[j]
      /\ i \notin DOMAIN events /\ events' = events /\ DOMAIN events \subseteq Analysis
  BY DEF Trigger, At, IInv, TypeOK, Progress
<1>2. EventsOf(b)' = EventsOf(b)
  BY <1>1 DEF EventsOf
<1>3. CallsOf(b)' \subseteq CallsOf(b) \cup {i}
  BY <1>1 DEF CallsOf
<1>4. i \in CallsOf(b)' => \A j \in CallsOf(b) : At(j, "over")
  BY <1>1 DEF Trigger, Apart, CallsOf
<1> QED
  BY <1>1, <1>2, <1>3, <1>4 DEF TurnInv, InTurn, At, CallsOf

(***************************************************************************)
(* A call that has a build keeps it; with no new event, and no other call  *)
(* revived, only passing the guard needs an argument.                      *)
(***************************************************************************)
LEMMA MoveInTurn ==
    ASSUME AnalysisAssumption, IInv, TurnInv, NEW i \in Analysis, calls[i].pc \notin {"unborn", "over"},
           DOMAIN events' = DOMAIN events,
           calls'[i].build = calls[i].build,
           \A j \in Analysis \ {i} : calls'[j] = calls[j],
           calls'[i].pc \in {"analyse", "upsert", "record"} =>
              \/ calls[i].pc \in {"analyse", "upsert", "record"}
              \/ EventsOf(calls[i].build) = {}
    PROVE  TurnInv'
<1> SUFFICES ASSUME NEW b \in Serial
             PROVE  InTurn(b)'
  BY DEF TurnInv
<1>1. \A j \in Analysis : calls'[j].build = calls[j].build
  OBVIOUS
<1>2. CallsOf(b)' = CallsOf(b)
  BY <1>1 DEF CallsOf
<1>3. EventsOf(b)' = EventsOf(b)
  BY <1>1 DEF EventsOf, IInv, TypeOK
<1>4. InTurn(b)
  BY DEF TurnInv
<1>5. \A j \in CallsOf(b) : j \in Analysis /\ calls[j].build = b
  BY DEF CallsOf
<1> QED
  BY <1>2, <1>3, <1>4, <1>5 DEF InTurn, At

LEMMA RecordInTurn ==
    ASSUME AnalysisAssumption, IInv, TurnInv, NEW i \in Analysis, RecordEvent(i)
    PROVE  TurnInv'
<1> SUFFICES ASSUME NEW b \in Serial
             PROVE  InTurn(b)'
  BY DEF TurnInv
<1>1. /\ calls[i].pc = "record" /\ calls'[i].pc = "notify" /\ calls'[i].build = calls[i].build
      /\ \A j \in Analysis \ {i} : calls'[j] = calls[j]
      /\ DOMAIN events' = DOMAIN events \cup {i} /\ DOMAIN events \subseteq Analysis
  BY DEF RecordEvent, Goto, At, IInv, TypeOK
<1>2. \A j \in Analysis : calls'[j].build = calls[j].build
  BY <1>1
<1>3. CallsOf(b)' = CallsOf(b)
  BY <1>2 DEF CallsOf
<1>4. EventsOf(b)' = IF calls[i].build = b THEN EventsOf(b) \cup {i} ELSE EventsOf(b)
  BY <1>1, <1>2 DEF EventsOf
<1>5. calls[i].build = b => i \in CallsOf(b) /\ EventsOf(b) = {}
  BY <1>1 DEF TurnInv, InTurn, CallsOf
<1>6. InTurn(b)
  BY DEF TurnInv
<1>7. \A j \in CallsOf(b) : j \in Analysis /\ calls[j].build = b
  BY DEF CallsOf
<1>8. \A k, j \in EventsOf(b)' : k = j
  BY <1>4, <1>5, <1>6 DEF InTurn
<1>9. \A k, j \in CallsOf(b)' : k = j \/ At(k, "over")' \/ At(j, "over")'
  BY <1>1, <1>3, <1>6, <1>7 DEF InTurn, At
<1>10. \A j \in CallsOf(b)' : calls'[j].pc \in {"analyse", "upsert", "record"} => EventsOf(b)' = {}
  <2> SUFFICES ASSUME NEW j \in CallsOf(b), calls'[j].pc \in {"analyse", "upsert", "record"}
               PROVE  EventsOf(b)' = {}
    BY <1>3
  <2>1. j # i /\ calls'[j] = calls[j]
    BY <1>1, <1>7
  <2>2. calls[i].build # b
    BY <1>1, <1>5, <1>6, <2>1 DEF InTurn, At
  <2> QED
    BY <1>4, <1>6, <2>1, <2>2 DEF InTurn
<1> QED
  BY <1>8, <1>9, <1>10 DEF InTurn

LEMMA NextTurnInv ==
    ASSUME AnalysisAssumption, IInv, TurnInv, [Next]_vars
    PROVE  TurnInv'
<1>1. ASSUME NEW i \in Analysis, Guard(i)
      PROVE  TurnInv'
  BY <1>1, MoveInTurn DEF Guard, Goto, At, IInv, TypeOK
<1>2. ASSUME NEW i \in Analysis, LookupPattern(i)
      PROVE  TurnInv'
  BY <1>2, MoveInTurn DEF LookupPattern, At, IInv, TypeOK
<1>3. ASSUME NEW i \in Analysis, UpsertPattern(i)
      PROVE  TurnInv'
  <2>1. calls[i].pc = "upsert" /\ events' = events
    BY <1>3 DEF UpsertPattern, At
  <2>2. PICK pc \in {"over", "record"} : Goto(i, pc)
    BY <1>3 DEF UpsertPattern
  <2> QED
    BY <2>1, <2>2, MoveInTurn DEF Goto, IInv, TypeOK
<1>4. ASSUME NEW i \in Analysis, Notify(i)
      PROVE  TurnInv'
  BY <1>4, MoveInTurn DEF Notify, At, IInv, TypeOK
<1>5. ASSUME NEW i \in Analysis, Confirm(i)
      PROVE  TurnInv'
  BY <1>5, MoveInTurn DEF Confirm, Goto, At, IInv, TypeOK
<1>6. ASSUME NEW i \in Analysis, Dies(i)
      PROVE  TurnInv'
  BY <1>6, MoveInTurn DEF Dies, Goto, IInv, TypeOK
<1>7. CASE UNCHANGED vars
  BY <1>7 DEF vars, TurnInv, InTurn, CallsOf, EventsOf, At
<1> QED
  BY <1>1, <1>2, <1>3, <1>4, <1>5, <1>6, <1>7, TriggerInTurn, RecordInTurn DEF Next, ProcessAsync

(***************************************************************************)
(* When the paths of a build come in turn, at most one of them posts,      *)
(* whatever dies on the way and whatever the other builds do (the guard of *)
(* _process_async, and the event recorded before the message).             *)
(***************************************************************************)
THEOREM OneMessageWhenInTurn == Spec => []OneMessageInTurn
<1>1. Init => TurnInv
  BY AnalysisAssumption DEF Init, TurnInv, InTurn, CallsOf, EventsOf
<1>2. IInv /\ TurnInv /\ [Next]_vars => TurnInv'
  BY AnalysisAssumption, NextTurnInv
<1>3. ASSUME IInv, TurnInv
      PROVE  OneMessageInTurn
  <2> SUFFICES ASSUME NEW b \in Serial
               PROVE  Cardinality(Messages(b)) <= 1
    BY DEF OneMessageInTurn
  <2>1. \A i, j \in Messages(b) : i = j
    BY <1>3 DEF Messages, TurnInv, InTurn, IInv, Accounted, CallsOf, EventsOf
  <2>2. CASE Messages(b) = {}
    BY <2>2, FS_EmptySet
  <2>3. CASE Messages(b) # {}
    <3>1. PICK i : Messages(b) = {i}
      BY <2>1, <2>3
    <3> QED
      BY <3>1, FS_Singleton
  <2> QED
    BY <2>2, <2>3
<1> QED
  BY <1>1, <1>2, <1>3, Invariance, PTL DEF Spec

-----------------------------------------------------------------------------
(* Nothing is forgotten *)

(***************************************************************************)
(* An analysis that is over has left its build with an event, or with      *)
(* another analysis that is about to record one, unless one died or the    *)
(* build was outrun.                                                       *)
(***************************************************************************)
Accounts(b) == EventsOf(b) # {} \/ deaths > 0 \/ Outrun(b)

AboutTo(b) == \E j \in CallsOf(b) : At(j, "record")

OverInv == \A i \in Analysis : At(i, "over") => Accounts(calls[i].build) \/ AboutTo(calls[i].build)

\* An event waits for a call that is still going to write its status.
PendingInv ==
    \A i \in DOMAIN events :
        events[i] = "PENDING" => calls[i].pc \in {"notify", "confirm"} \/ deaths > 0

LEMMA AccountsStay ==
    ASSUME AnalysisAssumption, IInv, Forward, DOMAIN events \subseteq DOMAIN events',
           deaths > 0 => deaths' > 0,
           \A i \in Analysis : At(i, "over") => At(i, "over")',
           NEW b \in Build, Accounts(b)
    PROVE  Accounts(b)'
<1>1. ASSUME NEW i \in DOMAIN events, calls[i].build = b
      PROVE  EventsOf(b)' # {}
  <2>1. i \in Analysis /\ calls[i].pc # "unborn"
    BY DEF IInv, TypeOK, Progress
  <2>2. calls'[i].build = b
    BY <1>1, <2>1 DEF Forward
  <2> QED
    BY <2>2 DEF EventsOf
<1>2. ASSUME Outrun(b)
      PROVE  Outrun(b)'
  <2>1. PICK i \in CallsOf(b), j \in Counted(SigOf[b]) : At(i, "over") /\ calls[j].build # b
    BY <1>2 DEF Outrun
  <2>2. i \in Analysis /\ j \in Analysis
    BY DEF CallsOf, Counted
  <2>3. calls[j].pc \in Past /\ calls[j].pc # "unborn" /\ Sig(j) = SigOf[b]
        /\ calls[j].build # NoBuild
    BY DEF Counted, Past
  <2>4. i \in CallsOf(b)' /\ At(i, "over")'
    BY <2>1, <2>2 DEF CallsOf, Forward, At
  <2>5. calls'[j].build = calls[j].build /\ calls'[j].pc \in Past
    BY <2>2, <2>3 DEF Forward
  <2>6. j \in Counted(SigOf[b])' /\ calls'[j].build # b
    BY <2>1, <2>2, <2>3, <2>5 DEF Counted, Sig, Past
  <2> QED
    BY <2>4, <2>6 DEF Outrun
<1> QED
  BY <1>1, <1>2 DEF Accounts, EventsOf

(***************************************************************************)
(* Who finds a row that was not there before lost the race to a call that  *)
(* has counted: one of another build, or one of the same build that has    *)
(* recorded it or is about to.                                             *)
(***************************************************************************)
LEMMA LostRace ==
    ASSUME AnalysisAssumption, IInv, CountInv, OverInv, Forward, NEW i \in Analysis,
           NEW b \in Build, calls[i].build = b,
           At(i, "upsert"), patterns[Sig(i)] # 0, Goto(i, "over"), events' = events,
           deaths' = deaths
    PROVE  Accounts(b)' \/ AboutTo(b)'
<1>0. Sig(i) \in Signature /\ SigOf[b] = Sig(i)
  BY DEF IInv, Progress, At, Sig, AnalysisAssumption
<1>1. patterns[Sig(i)] \in Nat /\ patterns[Sig(i)] <= Cardinality(Counted(Sig(i)))
  BY <1>0 DEF IInv, TypeOK, CountInv, CountSound
<1>2. PICK j \in Counted(Sig(i)) : TRUE
  <2>1. CASE Counted(Sig(i)) = {}
    BY <1>1, <2>1, FS_EmptySet
  <2> QED
    BY <2>1
<1>3. /\ j \in Analysis /\ calls[j].pc \in Past /\ j # i /\ calls'[j] = calls[j]
      /\ calls[j].build # NoBuild /\ SigOf[calls[j].build] = SigOf[b]
  BY <1>0 DEF Counted, Past, At, Goto, IInv, TypeOK, Sig
<1>4. calls'[i].build = b /\ At(i, "over")'
  BY DEF Goto, At, IInv, TypeOK
<1>5. CASE calls[j].build # b
  <2>1. i \in CallsOf(b)'
    BY <1>4 DEF CallsOf
  <2>2. j \in Counted(SigOf[b])'
    BY <1>3 DEF Counted, Sig, Past
  <2>3. calls'[j].build # b
    BY <1>3, <1>5
  <2>4. Outrun(b)'
    BY <1>4, <2>1, <2>2, <2>3 DEF Outrun
  <2> QED
    BY <2>4 DEF Accounts
<1>6. CASE calls[j].build = b /\ calls[j].pc = "record"
  BY <1>3, <1>6 DEF AboutTo, CallsOf, At
<1>7. CASE calls[j].build = b /\ calls[j].pc \in {"notify", "confirm"}
  BY <1>3, <1>7 DEF IInv, Progress, Accounts, EventsOf
<1>8. CASE calls[j].build = b /\ calls[j].pc = "over"
  <2>1. Accounts(b) \/ AboutTo(b)
    BY <1>3, <1>8 DEF OverInv, At
  <2>2. \A k \in Analysis : At(k, "over") => At(k, "over")'
    BY DEF At, Goto, IInv, TypeOK
  <2>3. Accounts(b) => Accounts(b)'
    <3>1. DOMAIN events \subseteq DOMAIN events' /\ (deaths > 0 => deaths' > 0)
      OBVIOUS
    <3> QED
      BY <2>2, <3>1, AccountsStay
  <2>4. AboutTo(b) => AboutTo(b)'
    BY DEF AboutTo, CallsOf, At, Goto, IInv, TypeOK
  <2> QED
    BY <2>1, <2>3, <2>4
<1> QED
  BY <1>3, <1>5, <1>6, <1>7, <1>8 DEF Past

(***************************************************************************)
(* A step moves one call, which is not over yet, and takes no event and no *)
(* death back.                                                             *)
(***************************************************************************)
LEMMA GotoMoves ==
    ASSUME TypeOK, NEW i \in Analysis, NEW pc, Goto(i, pc)
    PROVE  calls'[i] = [calls[i] EXCEPT !.pc = pc] /\ \A k \in Analysis \ {i} : calls'[k] = calls[k]
BY DEF TypeOK, Goto

LEMMA StepMoves ==
    ASSUME TypeOK, [Next]_vars
    PROVE  /\ \A i \in Analysis : At(i, "over") => At(i, "over")'
           /\ DOMAIN events \subseteq DOMAIN events'
           /\ deaths > 0 => deaths' > 0
<1>1. ASSUME NEW j \in Analysis, ~At(j, "over"),
             \A i \in Analysis \ {j} : calls'[i] = calls[i]
      PROVE  \A i \in Analysis : At(i, "over") => At(i, "over")'
  BY <1>1 DEF At
<1>2. ASSUME NEW j \in Analysis, NEW b \in Build, Trigger(j, b)
      PROVE  /\ ~At(j, "over") /\ \A i \in Analysis \ {j} : calls'[i] = calls[i]
             /\ events' = events /\ deaths' = deaths
  BY <1>2 DEF Trigger, At, TypeOK
<1>3. ASSUME NEW j \in Analysis, Guard(j) \/ UpsertPattern(j)
      PROVE  /\ ~At(j, "over") /\ \A i \in Analysis \ {j} : calls'[i] = calls[i]
             /\ events' = events /\ deaths' = deaths
  BY <1>3, GotoMoves DEF Guard, UpsertPattern, At
<1>4. ASSUME NEW j \in Analysis, LookupPattern(j) \/ Notify(j)
      PROVE  /\ ~At(j, "over") /\ \A i \in Analysis \ {j} : calls'[i] = calls[i]
             /\ events' = events /\ deaths' = deaths
  BY <1>4 DEF LookupPattern, Notify, At, TypeOK
<1>5. ASSUME NEW j \in Analysis, RecordEvent(j) \/ Confirm(j)
      PROVE  /\ ~At(j, "over") /\ \A i \in Analysis \ {j} : calls'[i] = calls[i]
             /\ DOMAIN events \subseteq DOMAIN events' /\ deaths' = deaths
  <2>1. ~At(j, "over") /\ \A i \in Analysis \ {j} : calls'[i] = calls[i]
    BY <1>5, GotoMoves DEF RecordEvent, Confirm, At
  <2>2. DOMAIN events \subseteq DOMAIN events' /\ deaths' = deaths
    BY <1>5 DEF RecordEvent, Confirm
  <2> QED
    BY <2>1, <2>2
<1>6. ASSUME NEW j \in Analysis, Dies(j)
      PROVE  /\ ~At(j, "over") /\ \A i \in Analysis \ {j} : calls'[i] = calls[i]
             /\ events' = events /\ deaths' > 0
  <2>1. ~At(j, "over") /\ \A i \in Analysis \ {j} : calls'[i] = calls[i]
    BY <1>6, GotoMoves DEF Dies, At
  <2> QED
    BY <1>6, <2>1 DEF Dies, TypeOK
<1>7. CASE UNCHANGED vars
  BY <1>7 DEF vars, At
<1> QED
  BY <1>1, <1>2, <1>3, <1>4, <1>5, <1>6, <1>7 DEF Next, ProcessAsync

(***************************************************************************)
(* Who is about to record an event does so, or dies.                       *)
(***************************************************************************)
LEMMA RecordersRecord ==
    ASSUME TypeOK, [Next]_vars, NEW j \in Analysis, At(j, "record")
    PROVE  At(j, "record")' \/ j \in DOMAIN events' \/ deaths' > 0
<1>1. ASSUME NEW i \in Analysis, RecordEvent(i)
      PROVE  At(j, "record")' \/ j \in DOMAIN events'
  <2>1. CASE i = j
    BY <1>1, <2>1 DEF RecordEvent
  <2>2. CASE i # j
    BY <1>1, <2>2, GotoMoves DEF RecordEvent, At
  <2> QED
    BY <2>1, <2>2
<1>2. ASSUME NEW i \in Analysis, Dies(i)
      PROVE  deaths' > 0
  BY <1>2 DEF Dies, TypeOK
<1>3. ASSUME NEW i \in Analysis, NEW b \in Build, Trigger(i, b)
      PROVE  At(j, "record")'
  BY <1>3 DEF Trigger, At, TypeOK
<1>4. ASSUME NEW i \in Analysis, LookupPattern(i) \/ Notify(i)
      PROVE  At(j, "record")'
  BY <1>4 DEF LookupPattern, Notify, At, TypeOK
<1>5. ASSUME NEW i \in Analysis, Guard(i) \/ UpsertPattern(i) \/ Confirm(i)
      PROVE  At(j, "record")'
  <2>1. i # j /\ \E pc \in {"over", "record", "analyse"} : Goto(i, pc)
    BY <1>5 DEF Guard, UpsertPattern, Confirm, At
  <2> QED
    BY <2>1, GotoMoves DEF At
<1>6. CASE UNCHANGED vars
  BY <1>6 DEF vars, At
<1> QED
  BY <1>1, <1>2, <1>3, <1>4, <1>5, <1>6 DEF Next, ProcessAsync

(***************************************************************************)
(* A call ends at the guard, because its build has an event; at the row it *)
(* lost; after its event; or by dying.                                     *)
(***************************************************************************)
LEMMA Ends ==
    ASSUME TypeOK, [Next]_vars, NEW i \in Analysis, ~At(i, "over"), At(i, "over")'
    PROVE  \/ Guard(i) /\ Goto(i, "over") /\ EventsOf(calls[i].build) # {}
           \/ UpsertPattern(i) /\ Goto(i, "over") /\ patterns[Sig(i)] # 0
           \/ Confirm(i)
           \/ Dies(i)
<1>1. ASSUME NEW j \in Analysis, NEW b \in Build, Trigger(j, b)
      PROVE  FALSE
  BY <1>1 DEF Trigger, At, TypeOK
<1>2. ASSUME NEW j \in Analysis, LookupPattern(j) \/ Notify(j)
      PROVE  FALSE
  <2>1. CASE LookupPattern(j)
    BY <2>1 DEF LookupPattern, At, TypeOK
  <2>2. CASE Notify(j)
    <3>1. PICK ok \in BOOLEAN : calls' = [calls EXCEPT ![j].pc = "confirm", ![j].ok = ok]
      BY <2>2 DEF Notify
    <3>2. calls'[j].pc = "confirm" /\ \A k \in Analysis \ {j} : calls'[k] = calls[k]
      BY <3>1 DEF TypeOK, Call
    <3> QED
      BY <3>2 DEF At
  <2> QED
    BY <1>2, <2>1, <2>2
<1>3. ASSUME NEW j \in Analysis, NEW pc \in {"over", "record", "analyse", "notify"}, Goto(j, pc)
      PROVE  j = i /\ pc = "over"
  BY <1>3 DEF Goto, At, TypeOK
<1>4. ASSUME NEW j \in Analysis, RecordEvent(j)
      PROVE  FALSE
  BY <1>3, <1>4 DEF RecordEvent
<1>5. ASSUME NEW j \in Analysis, Guard(j)
      PROVE  Guard(i) /\ Goto(i, "over") /\ EventsOf(calls[i].build) # {}
  <2>1. CASE EventsOf(calls[j].build) # {}
    <3>1. Goto(j, "over")
      BY <1>5, <2>1 DEF Guard
    <3> QED
      BY <1>3, <1>5, <2>1, <3>1
  <2>2. CASE EventsOf(calls[j].build) = {}
    <3>1. Goto(j, "record") \/ Goto(j, "analyse")
      BY <1>5, <2>2 DEF Guard
    <3> QED
      BY <1>3, <3>1
  <2> QED
    BY <2>1, <2>2
<1>6. ASSUME NEW j \in Analysis, UpsertPattern(j)
      PROVE  UpsertPattern(i) /\ Goto(i, "over") /\ patterns[Sig(i)] # 0
  <2>1. \/ Goto(j, "over") /\ patterns[Sig(j)] # 0
        \/ Goto(j, "record")
    BY <1>6 DEF UpsertPattern
  <2> QED
    BY <1>3, <1>6, <2>1
<1>7. ASSUME NEW j \in Analysis, Confirm(j) \/ Dies(j)
      PROVE  j = i
  BY <1>3, <1>7 DEF Confirm, Dies
<1>8. ~(UNCHANGED vars)
  BY DEF vars, At
<1> QED
  BY <1>1, <1>2, <1>4, <1>5, <1>6, <1>7, <1>8 DEF Next, ProcessAsync

LEMMA NextOverInv ==
    ASSUME AnalysisAssumption, IInv, CountInv, OverInv, [Next]_vars
    PROVE  OverInv'
<1>1. Forward /\ TypeOK
  BY StepsGoForward DEF IInv
<1>2. /\ \A i \in Analysis : At(i, "over") => At(i, "over")'
      /\ DOMAIN events \subseteq DOMAIN events'
      /\ deaths > 0 => deaths' > 0
  BY <1>1, StepMoves
<1>3. ASSUME NEW b \in Build, Accounts(b)
      PROVE  Accounts(b)'
  BY <1>1, <1>2, <1>3, AccountsStay
<1>4. ASSUME NEW b \in Build, AboutTo(b)
      PROVE  Accounts(b)' \/ AboutTo(b)'
  <2>1. PICK j \in Analysis : calls[j].build = b /\ At(j, "record")
    BY <1>4 DEF AboutTo, CallsOf
  <2>2. calls'[j].build = b
    BY <1>1, <2>1 DEF Forward, At
  <2>3. At(j, "record")' \/ j \in DOMAIN events' \/ deaths' > 0
    BY <1>1, <2>1, RecordersRecord
  <2> QED
    BY <2>2, <2>3 DEF Accounts, EventsOf, AboutTo, CallsOf
<1>5. ASSUME NEW i \in Analysis, At(i, "over")
      PROVE  (Accounts(calls[i].build) \/ AboutTo(calls[i].build))'
  <2>1. calls[i].build \in Build /\ calls'[i].build = calls[i].build
    BY <1>1, <1>5 DEF Forward, At, IInv, Progress
  <2>2. Accounts(calls[i].build)' \/ AboutTo(calls[i].build)'
    BY <1>3, <1>4, <1>5, <2>1 DEF OverInv
  <2> QED
    BY <2>2
<1>6. ASSUME NEW i \in Analysis, ~At(i, "over"), At(i, "over")'
      PROVE  (Accounts(calls[i].build) \/ AboutTo(calls[i].build))'
  <2>1. CASE Guard(i) /\ Goto(i, "over") /\ EventsOf(calls[i].build) # {}
    <3>1. calls[i].build \in Build
      BY <2>1 DEF Guard, At, IInv, Progress
    <3>2. Accounts(calls[i].build)
      BY <2>1 DEF Accounts
    <3>3. calls'[i].build = calls[i].build
      BY <1>1, <2>1 DEF Forward, Guard, At
    <3> QED
      BY <1>3, <3>1, <3>2, <3>3
  <2>2. CASE UpsertPattern(i) /\ Goto(i, "over") /\ patterns[Sig(i)] # 0
    <3>1. At(i, "upsert") /\ events' = events /\ deaths' = deaths
      BY <2>2 DEF UpsertPattern
    <3>2. calls[i].build \in Build /\ calls'[i].build = calls[i].build
      BY <1>1, <3>1 DEF Forward, At, IInv, Progress
    <3> QED
      BY <1>1, <2>2, <3>1, <3>2, LostRace
  <2>3. CASE Confirm(i)
    <3>1. At(i, "confirm") /\ calls[i].pc # "unborn" /\ i \in DOMAIN events
      BY <2>3 DEF Confirm, At, IInv, Progress
    <3>2. i \in DOMAIN events' /\ calls'[i].build = calls[i].build
      BY <1>1, <1>2, <3>1 DEF Forward
    <3> QED
      BY <3>2 DEF Accounts, EventsOf
  <2>4. CASE Dies(i)
    BY <1>1, <2>4 DEF Dies, TypeOK, Accounts
  <2> QED
    BY <1>1, <1>6, <2>1, <2>2, <2>3, <2>4, Ends
<1> QED
  BY <1>5, <1>6 DEF OverInv

(***************************************************************************)
(* An event is written PENDING by a call that goes on to confirm it.       *)
(***************************************************************************)
LEMMA NextPendingInv ==
    ASSUME IInv, PendingInv, [Next]_vars
    PROVE  PendingInv'
<1>1. TypeOK
  BY DEF IInv
<1>2. ASSUME NEW j \in Analysis, Goto(j, "over") \/ Goto(j, "record") \/ Goto(j, "analyse"),
             events' = events, deaths' = deaths, calls[j].pc \notin {"notify", "confirm"}
      PROVE  PendingInv'
  BY <1>1, <1>2, GotoMoves DEF PendingInv, TypeOK
<1>3. ASSUME NEW j \in Analysis, NEW b \in Build, Trigger(j, b)
      PROVE  PendingInv'
  BY <1>1, <1>3 DEF Trigger, At, TypeOK, PendingInv
<1>4. ASSUME NEW j \in Analysis, Guard(j)
      PROVE  PendingInv'
  BY <1>2, <1>4 DEF Guard, At
<1>5. ASSUME NEW j \in Analysis, LookupPattern(j) \/ Notify(j)
      PROVE  PendingInv'
  <2>1. CASE LookupPattern(j)
    BY <1>1, <2>1 DEF LookupPattern, At, TypeOK, PendingInv
  <2>2. CASE Notify(j)
    <3>1. PICK ok \in BOOLEAN : calls' = [calls EXCEPT ![j].pc = "confirm", ![j].ok = ok]
      BY <2>2 DEF Notify
    <3>2. calls'[j].pc = "confirm" /\ \A k \in Analysis \ {j} : calls'[k] = calls[k]
      BY <1>1, <3>1 DEF TypeOK, Call
    <3>3. events' = events /\ deaths' = deaths
      BY <2>2 DEF Notify
    <3> QED
      BY <1>1, <3>2, <3>3 DEF PendingInv, TypeOK
  <2> QED
    BY <1>5, <2>1, <2>2
<1>6. ASSUME NEW j \in Analysis, UpsertPattern(j)
      PROVE  PendingInv'
  BY <1>2, <1>6 DEF UpsertPattern, At
<1>7. ASSUME NEW j \in Analysis, RecordEvent(j)
      PROVE  PendingInv'
  <2>1. ASSUME NEW i \in DOMAIN events', events'[i] = "PENDING"
        PROVE  calls'[i].pc \in {"notify", "confirm"} \/ deaths' > 0
    <3>0. Goto(j, "notify") /\ deaths' = deaths
      BY <1>7 DEF RecordEvent
    <3>1. CASE i = j
      <4>1. j \in Analysis /\ calls[j] \in Call
        BY <1>1 DEF TypeOK
      <4>2. calls'[j] = [calls[j] EXCEPT !.pc = "notify"]
        BY <1>1, <3>0, GotoMoves
      <4>3. calls'[j].pc = "notify"
        BY <4>1, <4>2 DEF Call
      <4> QED
        BY <3>1, <4>3
    <3>2. CASE i # j
      <4>1. i \in DOMAIN events /\ events[i] = "PENDING" /\ i \in Analysis
        BY <1>1, <1>7, <2>1, <3>2 DEF RecordEvent, TypeOK
      <4>2. calls'[i] = calls[i]
        BY <1>1, <3>0, <3>2, <4>1, GotoMoves
      <4> QED
        BY <3>0, <4>1, <4>2 DEF PendingInv
    <3> QED
      BY <3>1, <3>2
  <2> QED
    BY <2>1 DEF PendingInv
<1>8. ASSUME NEW j \in Analysis, Confirm(j)
      PROVE  PendingInv'
  <2>1. ASSUME NEW i \in DOMAIN events', events'[i] = "PENDING"
        PROVE  calls'[i].pc \in {"notify", "confirm"} \/ deaths' > 0
    <3>0. Goto(j, "over") /\ deaths' = deaths
      BY <1>8 DEF Confirm
    <3>1. i \in DOMAIN events /\ i \in Analysis /\ i # j /\ events[i] = "PENDING"
      BY <1>1, <1>8, <2>1 DEF Confirm, TypeOK
    <3>2. calls'[i] = calls[i]
      BY <1>1, <3>0, <3>1, GotoMoves
    <3> QED
      BY <3>0, <3>1, <3>2 DEF PendingInv
  <2> QED
    BY <2>1 DEF PendingInv
<1>9. ASSUME NEW j \in Analysis, Dies(j)
      PROVE  PendingInv'
  BY <1>1, <1>9 DEF Dies, TypeOK, PendingInv
<1>10. CASE UNCHANGED vars
  BY <1>10 DEF vars, PendingInv
<1> QED
  BY <1>3, <1>4, <1>5, <1>6, <1>7, <1>8, <1>9, <1>10 DEF Next, ProcessAsync

(***************************************************************************)
(* When the paths of a build are all over, an event is recorded for it,    *)
(* unless an analysis died or the build was outrun: no analysis ends       *)
(* because another one only seemed to do its work.                         *)
(***************************************************************************)
THEOREM BuildsAreReported ==
    Spec => [](\A b \in Build :
                 CallsOf(b) # {} /\ (\A i \in CallsOf(b) : At(i, "over"))
                   => EventsOf(b) # {} \/ deaths > 0 \/ Outrun(b))
<1>1. ASSUME Init
      PROVE  CountInv /\ OverInv
  <2>1. \A s \in Signature : Cardinality(Counted(s)) = 0
    <3> TAKE s \in Signature
    <3>1. Counted(s) = {}
      BY <1>1 DEF Init, Counted
    <3> QED
      BY <3>1, FS_EmptySet
  <2> QED
    BY <1>1, <2>1 DEF Init, CountInv, CountSound, OverInv, At
<1>2. IInv /\ CountInv /\ OverInv /\ [Next]_vars => CountInv' /\ OverInv'
  BY AnalysisAssumption, NextCountInv, NextOverInv
<1>3. OverInv => \A b \in Build :
                   CallsOf(b) # {} /\ (\A i \in CallsOf(b) : At(i, "over"))
                     => EventsOf(b) # {} \/ deaths > 0 \/ Outrun(b)
  <2> SUFFICES ASSUME OverInv, NEW b \in Build, CallsOf(b) # {},
                      \A i \in CallsOf(b) : At(i, "over")
               PROVE  EventsOf(b) # {} \/ deaths > 0 \/ Outrun(b)
    OBVIOUS
  <2>1. PICK i \in Analysis : calls[i].build = b /\ At(i, "over")
    BY DEF CallsOf
  <2>2. ~AboutTo(b)
    BY DEF AboutTo, At
  <2> QED
    BY <2>1, <2>2 DEF OverInv, Accounts
<1> QED
  BY <1>1, <1>2, <1>3, Invariance, PTL DEF Spec

(***************************************************************************)
(* An event that waits has a call that is still going to write its status, *)
(* unless an analysis died.                                                *)
(***************************************************************************)
THEOREM PendingEventsHaveTheirCall == Spec => []PendingInv
<1>1. Init => PendingInv
  BY DEF Init, PendingInv
<1>2. IInv /\ PendingInv /\ [Next]_vars => PendingInv'
  BY NextPendingInv
<1> QED
  BY <1>1, <1>2, Invariance, PTL DEF Spec

-----------------------------------------------------------------------------
(* Loops *)

\* A set of numbers has a least element.
LEMMA Least ==
    ASSUME NEW S \in SUBSET Nat, S # {}
    PROVE  \E g \in S : \A s \in S : g <= s
<1>1. \E g \in S : \A s \in S : ~(<<s, g>> \in OpToRel(<, Nat))
  BY NatLessThanWellFounded, WFMin
<1>2. PICK g \in S : \A s \in S : ~(s < g)
  BY <1>1 DEF OpToRel
<1> QED
  BY <1>2

\* A loop that starts in P and stays in P ends in P.
LEMMA Induction ==
    ASSUME NEW n \in Nat, NEW P, 0 \in P, \A i \in 1..n : i - 1 \in P => i \in P
    PROVE  \A i \in 0..n : i \in P
<1> DEFINE Bad == {i \in 0..n : i \notin P}
<1>1. CASE Bad = {}
  BY <1>1
<1>2. CASE Bad # {}
  <2>1. PICK g \in Bad : \A s \in Bad : g <= s
    <3>1. Bad \in SUBSET Nat
      OBVIOUS
    <3> HIDE DEF Bad
    <3> QED
      BY <1>2, <3>1, Least
  <2>2. g \in 1..n /\ g - 1 \in 0..n /\ g - 1 \notin Bad
    BY <2>1
  <2>3. g - 1 \in P
    BY <2>2
  <2> QED
    BY <2>1, <2>2, <2>3
<1> QED
  BY <1>1, <1>2

\* f[i] is what a loop carries after i turns, g[i] its body in turn i.
Runs(n, base, g, f) == f[0] = base /\ \A i \in 1..n : f[i] = g[i][f[i - 1]]

(***************************************************************************)
(* A loop has run: whatever its body g does to the value that it carries,  *)
(* there is a function from the number of turns to that value.             *)
(***************************************************************************)
LEMMA LoopExists ==
    ASSUME NEW n \in Nat, NEW S, NEW base \in S, NEW g \in [1..n -> [S -> S]]
    PROVE  \E f \in [0..n -> S] : Runs(n, base, g, f)
<1> USE DEF Runs
<1> DEFINE P == {k \in 0..n : \E f \in [0..k -> S] : Runs(k, base, g, f)}
<1>1. 0 \in P
  <2> DEFINE f == [i \in 0..0 |-> base]
  <2>1. f \in [0..0 -> S] /\ f[0] = base
    OBVIOUS
  <2> HIDE DEF f
  <2>2. Runs(0, base, g, f)
    BY <2>1
  <2> QED
    BY <2>1, <2>2
<1>2. ASSUME NEW k \in 1..n, k - 1 \in P
      PROVE  k \in P
  <2>1. PICK f \in [0..(k - 1) -> S] : Runs(k - 1, base, g, f)
    BY <1>2
  <2> DEFINE h == [i \in 0..k |-> IF i = k THEN g[k][f[k - 1]] ELSE f[i]]
  <2>2. f[k - 1] \in S /\ g[k] \in [S -> S]
    BY <1>2
  <2>3. h \in [0..k -> S]
    <3>1. g[k][f[k - 1]] \in S
      BY <2>2
    <3>2. \A i \in 0..k : i # k => f[i] \in S
      BY <1>2
    <3> QED
      BY <3>1, <3>2
  <2>4. h[0] = base
    BY <1>2, <2>1
  <2>5. \A i \in 1..k : h[i] = g[i][h[i - 1]]
    <3> TAKE i \in 1..k
    <3>1. i \in 0..k /\ i - 1 \in 0..k /\ i - 1 # k
      BY <1>2
    <3>2. h[i - 1] = f[i - 1]
      BY <3>1
    <3>3. CASE i = k
      BY <3>1, <3>2, <3>3
    <3>4. CASE i # k
      <4>1. i \in 1..(k - 1)
        BY <1>2, <3>4
      <4>2. h[i] = f[i]
        BY <3>1, <3>4
      <4> QED
        BY <2>1, <3>2, <4>1, <4>2
    <3> QED
      BY <3>3, <3>4
  <2> HIDE DEF h
  <2>6. Runs(k, base, g, h)
    BY <2>4, <2>5
  <2>7. \E e \in [0..k -> S] : Runs(k, base, g, e)
    BY <2>3, <2>6
  <2>8. k \in 0..n
    OBVIOUS
  <2> QED
    BY <2>7, <2>8
<1> HIDE DEF P
<1>3. n \in P
  <2>1. \A i \in 1..n : i - 1 \in P => i \in P
    BY <1>2
  <2>2. \A i \in 0..n : i \in P
    BY <1>1, <2>1, Induction
  <2> QED
    BY <2>2
<1> QED
  BY <1>3 DEF P

-----------------------------------------------------------------------------
(* List comprehensions *)

KeptRun(s, keep, f) ==
    /\ f[0] = <<>>
    /\ \A k \in 1..Len(s) : f[k] = IF k \in keep THEN Append(f[k - 1], s[k]) ELSE f[k - 1]

\* What Kept computes, turn by turn.
LEMMA KeptLoop ==
    ASSUME NEW S, NEW s \in Seq(S), NEW keep, NEW T, \A k \in 1..Len(s) : k \in keep => s[k] \in T
    PROVE  \E f \in [0..Len(s) -> Seq(T)] : KeptRun(s, keep, f) /\ Kept(s, keep) = f[Len(s)]
<1> DEFINE n == Len(s)
           g == [k \in 1..n |-> [x \in Seq(T) |-> IF k \in keep THEN Append(x, s[k]) ELSE x]]
<1>1. n \in Nat
  OBVIOUS
<1>2. g \in [1..n -> [Seq(T) -> Seq(T)]] /\ <<>> \in Seq(T)
  <2> SUFFICES ASSUME NEW k \in 1..n, NEW x \in Seq(T), k \in keep
               PROVE  Append(x, s[k]) \in Seq(T)
    OBVIOUS
  <2> QED
    BY <1>1
<1>3. PICK f \in [0..n -> Seq(T)] : f[0] = <<>> /\ \A k \in 1..n : f[k] = g[k][f[k - 1]]
  <2> DEFINE base == <<>>
             U == Seq(T)
  <2>1. base \in U /\ g \in [1..n -> [U -> U]] /\ n \in Nat
    BY <1>1, <1>2
  <2> HIDE DEF n, g, base, U
  <2>2. \E f \in [0..n -> U] : Runs(n, base, g, f)
    BY <2>1, LoopExists
  <2> QED
    BY <2>2 DEF base, U, Runs
<1> DEFINE Body(h) == [k \in 0..n |-> IF k = 0 THEN <<>>
                                     ELSE IF k \in keep THEN Append(h[k - 1], s[k])
                                     ELSE h[k - 1]]
<1>4. \A k \in 1..n : f[k] = IF k \in keep THEN Append(f[k - 1], s[k]) ELSE f[k - 1]
  <2> TAKE k \in 1..n
  <2>1. k - 1 \in 0..n
    BY <1>1
  <2>2. f[k - 1] \in Seq(T)
    BY <2>1
  <2> QED
    BY <1>3, <2>2
<1>5. f = Body(f)
  <2>1. f = [k \in 0..n |-> f[k]]
    BY <1>3
  <2>2. \A k \in 0..n : k = 0 \/ k \in 1..n
    BY <1>1
  <2>3. \A k \in 0..n : f[k] = IF k = 0 THEN <<>>
                                ELSE IF k \in keep THEN Append(f[k - 1], s[k])
                                ELSE f[k - 1]
    BY <1>3, <1>4, <2>2
  <2> QED
    BY <2>1, <2>3
<1> DEFINE c == CHOOSE h : h = Body(h)
<1>6. c = Body(c)
  BY <1>5
<1>7. Kept(s, keep) = c[n]
  BY DEF Kept
<1> HIDE DEF c
<1>8. \A k \in 0..n : c[k] = Body(c)[k]
  BY <1>6
<1>9. \A k \in 0..n : c[k] = f[k]
  <2> DEFINE P == {k \in 0..n : c[k] = f[k]}
  <2>1. 0 \in P
    BY <1>1, <1>3, <1>8
  <2>2. ASSUME NEW k \in 1..n, k - 1 \in P
        PROVE  k \in P
    BY <1>1, <1>4, <1>8, <2>2
  <2> HIDE DEF P
  <2>3. \A k \in 0..n : k \in P
    BY <1>1, <2>1, <2>2, Induction
  <2> QED
    BY <2>3 DEF P
<1>10. Kept(s, keep) = f[n]
  BY <1>1, <1>7, <1>9
<1> QED
  BY <1>3, <1>4, <1>10 DEF KeptRun

\* A comprehension has the elements that satisfy its condition, and no other.
LEMMA KeptElements ==
    ASSUME NEW S, NEW s \in Seq(S), NEW keep, NEW T, \A k \in 1..Len(s) : k \in keep => s[k] \in T
    PROVE  /\ Kept(s, keep) \in Seq(T)
           /\ \A k \in 1..Len(s) :
                k \in keep => \E m \in 1..Len(Kept(s, keep)) : Kept(s, keep)[m] = s[k]
<1> DEFINE n == Len(s)
<1>0. PICK f \in [0..Len(s) -> Seq(T)] : KeptRun(s, keep, f) /\ Kept(s, keep) = f[Len(s)]
  BY KeptLoop
<1>1. /\ f[0] = <<>>
      /\ \A k \in 1..n : f[k] = IF k \in keep THEN Append(f[k - 1], s[k]) ELSE f[k - 1]
      /\ Kept(s, keep) = f[n]
  BY <1>0 DEF KeptRun
<1>2. n \in Nat /\ n \in 0..n
  OBVIOUS
<1>3. Kept(s, keep) \in Seq(T)
  BY <1>1, <1>2
<1> DEFINE Has(k) == \A j \in 1..k : j \in keep => \E m \in 1..Len(f[k]) : f[k][m] = s[j]
           P == {k \in 0..n : Has(k)}
<1>4. 0 \in P
  BY <1>2
<1>5. ASSUME NEW k \in 1..n, k - 1 \in P
      PROVE  k \in P
  <2> SUFFICES ASSUME NEW j \in 1..k, j \in keep
               PROVE  \E m \in 1..Len(f[k]) : f[k][m] = s[j]
    BY <1>2
  <2>1. k - 1 \in 0..n /\ f[k - 1] \in Seq(T) /\ Has(k - 1)
    BY <1>2, <1>5
  <2> HIDE DEF P
  <2>2. CASE k \notin keep
    <3>1. f[k] = f[k - 1] /\ j \in 1..(k - 1)
      BY <1>1, <1>2, <2>2
    <3> QED
      BY <2>1, <3>1
  <2>3. CASE k \in keep
    <3> DEFINE x == f[k - 1]
    <3>1. f[k] = Append(x, s[k]) /\ s[k] \in T
      BY <1>1, <2>3
    <3> HIDE DEF x
    <3>2. x \in Seq(T) /\ Len(x) \in Nat
      BY <2>1 DEF x
    <3>3. /\ Len(f[k]) = Len(x) + 1 /\ f[k][Len(x) + 1] = s[k]
          /\ \A m \in 1..Len(x) : f[k][m] = x[m]
      BY <3>1, <3>2, AppendProperties
    <3>4. CASE j = k
      BY <3>2, <3>3, <3>4
    <3>5. CASE j # k
      <4>1. j \in 1..(k - 1)
        BY <1>2, <3>5
      <4>2. PICK m \in 1..Len(x) : x[m] = s[j]
        BY <2>1, <4>1 DEF x
      <4>3. m \in 1..Len(f[k])
        BY <3>2, <3>3
      <4> QED
        BY <3>3, <4>2, <4>3
    <3> QED
      BY <3>4, <3>5
  <2> QED
    BY <2>2, <2>3
<1> HIDE DEF P
<1>6. \A k \in 0..n : k \in P
  <2>1. \A k \in 1..n : k - 1 \in P => k \in P
    BY <1>5
  <2> QED
    BY <1>2, <1>4, <2>1, Induction
<1>7. Has(n)
  BY <1>2, <1>6 DEF P
<1> QED
  BY <1>1, <1>3, <1>7
-----------------------------------------------------------------------------
(* Similar failures *)

Rank(records, k) == Cardinality(Ahead(records, k))

\* Ahead is a strict order: whoever is further ahead has fewer ahead of it.
LEMMA RankOrders ==
    ASSUME NEW S, NEW s \in Seq(S), \A k \in 1..Len(s) : s[k].similarity \in Nat
    PROVE  /\ \A k \in 1..Len(s) : Rank(s, k) \in 0..(Len(s) - 1)
           /\ \A k \in 1..Len(s) : \A m \in Ahead(s, k) : Rank(s, m) < Rank(s, k)
<1> DEFINE n == Len(s)
<1>1. n \in Nat /\ DOMAIN s = 1..n
  OBVIOUS
<1>2. \A k \in 1..n : Ahead(s, k) \subseteq (1..n) \ {k}
  BY <1>1 DEF Ahead
<1>3. IsFiniteSet(1..n) /\ Cardinality(1..n) = n
  BY <1>1, FS_Interval
<1>4. ASSUME NEW k \in 1..n
      PROVE  IsFiniteSet(Ahead(s, k)) /\ Rank(s, k) \in 0..(n - 1)
  <2>1. IsFiniteSet((1..n) \ {k}) /\ Cardinality((1..n) \ {k}) = n - 1
    BY <1>3, FS_RemoveElement
  <2>2. IsFiniteSet(Ahead(s, k)) /\ Cardinality(Ahead(s, k)) <= n - 1
    BY <1>2, <2>1, FS_Subset
  <2>3. Cardinality(Ahead(s, k)) \in Nat
    BY <2>2, FS_CardinalityType
  <2> QED
    BY <1>1, <2>2, <2>3 DEF Rank
<1>5. ASSUME NEW k \in 1..n, NEW m \in Ahead(s, k)
      PROVE  Rank(s, m) < Rank(s, k)
  <2>1. m \in 1..n
    BY <1>2
  <2>2. \A j \in Ahead(s, m) : j \in Ahead(s, k)
    <3> SUFFICES ASSUME NEW j \in Ahead(s, m)
                 PROVE  j \in Ahead(s, k)
      OBVIOUS
    <3>1. j \in 1..n
      BY <1>2, <2>1
    <3>2. s[j].similarity \in Nat /\ s[m].similarity \in Nat /\ s[k].similarity \in Nat
      BY <2>1, <3>1
    <3>3. \/ s[j].similarity > s[m].similarity
          \/ s[j].similarity = s[m].similarity /\ j < m
      BY DEF Ahead
    <3>4. \/ s[m].similarity > s[k].similarity
          \/ s[m].similarity = s[k].similarity /\ m < k
      BY DEF Ahead
    <3>5. \/ s[j].similarity > s[k].similarity
          \/ s[j].similarity = s[k].similarity /\ j < k
      BY <1>1, <2>1, <3>1, <3>2, <3>3, <3>4
    <3> QED
      BY <1>1, <3>1, <3>5 DEF Ahead
  <2>3. m \notin Ahead(s, m)
    BY <1>2, <2>1
  <2>4. IsFiniteSet(Ahead(s, k)) /\ IsFiniteSet(Ahead(s, m)) /\ Rank(s, m) \in Nat /\ Rank(s, k) \in Nat
    BY <1>4, <2>1
  <2>5. Ahead(s, m) \in SUBSET Ahead(s, k) /\ Ahead(s, m) # Ahead(s, k)
    BY <2>2, <2>3
  <2>6. Rank(s, m) <= Rank(s, k) /\ Rank(s, m) # Rank(s, k)
    BY <2>4, <2>5, FS_Subset DEF Rank
  <2> QED
    BY <2>4, <2>6
<1> QED
  BY <1>4, <1>5

\* Every place is taken by exactly one record.
LEMMA RankSurjects ==
    ASSUME NEW S, NEW s \in Seq(S), \A k \in 1..Len(s) : s[k].similarity \in Nat
    PROVE  /\ \A j, k \in 1..Len(s) : Rank(s, j) = Rank(s, k) => j = k
           /\ \A r \in 0..(Len(s) - 1) : \E k \in 1..Len(s) : Rank(s, k) = r
<1> DEFINE n == Len(s)
           f == [k \in 1..n |-> Rank(s, k)]
<1>1. n \in Nat /\ DOMAIN s = 1..n
  OBVIOUS
<1>2. \A k \in 1..n : Rank(s, k) \in 0..(n - 1)
  BY RankOrders
<1>3. \A j, k \in 1..n : Rank(s, j) = Rank(s, k) => j = k
  <2> SUFFICES ASSUME NEW j \in 1..n, NEW k \in 1..n, j # k
               PROVE  Rank(s, j) # Rank(s, k)
    OBVIOUS
  <2>1. s[j].similarity \in Nat /\ s[k].similarity \in Nat
    OBVIOUS
  <2>2. j < k \/ k < j
    BY <1>1
  <2> DEFINE a == s[j].similarity
             b == s[k].similarity
  <2> HIDE DEF a, b
  <2>3. j \in Ahead(s, k) \/ k \in Ahead(s, j)
    <3>1. /\ a > b \/ (a = b /\ j < k) => j \in Ahead(s, k)
          /\ b > a \/ (b = a /\ k < j) => k \in Ahead(s, j)
      BY <1>1 DEF Ahead, a, b
    <3>2. a > b \/ b > a \/ a = b
      BY <2>1 DEF a, b
    <3> QED
      BY <2>2, <3>1, <3>2
  <2>4. Rank(s, j) < Rank(s, k) \/ Rank(s, k) < Rank(s, j)
    BY <2>3, RankOrders
  <2>5. Rank(s, j) \in Nat /\ Rank(s, k) \in Nat
    BY <1>1, <1>2
  <2> QED
    BY <2>4, <2>5
<1>4. f \in Injection(1..n, 0..(n - 1))
  <2>1. f \in [1..n -> 0..(n - 1)]
    BY <1>2
  <2>2. \A a, b \in 1..n : f[a] = f[b] => a = b
    BY <1>3
  <2> QED
    BY <2>1, <2>2 DEF Injection, IsInjective
<1>5. /\ Cardinality(1..n) = n /\ Cardinality(0..(n - 1)) = n
      /\ IsFiniteSet(1..n) /\ IsFiniteSet(0..(n - 1))
  <2>1. 0 \in Int /\ 1 \in Int /\ n \in Int /\ n - 1 \in Int
    BY <1>1
  <2>2. IsFiniteSet(1..n) /\ Cardinality(1..n) = IF 1 > n THEN 0 ELSE n - 1 + 1
    BY <2>1, FS_Interval
  <2>3. IsFiniteSet(0..(n - 1)) /\ Cardinality(0..(n - 1)) = IF 0 > n - 1 THEN 0 ELSE n - 1 - 0 + 1
    BY <2>1, FS_Interval
  <2> QED
    BY <1>1, <2>2, <2>3
<1>6. f \in Surjection(1..n, 0..(n - 1))
  <2> HIDE DEF f
  <2> QED
    BY <1>4, <1>5, FS_Injection
<1>7. \A r \in 0..(n - 1) : \E k \in 1..n : f[k] = r
  BY <1>6 DEF Surjection
<1> QED
  BY <1>3, <1>7

\* list.sort: all the records, the most similar first.
LEMMA SortedProperties ==
    ASSUME NEW S, NEW s \in Seq(S), \A k \in 1..Len(s) : s[k].similarity \in Nat
    PROVE  /\ Sorted(s) \in Seq(S) /\ Len(Sorted(s)) = Len(s)
           /\ \A k \in 1..Len(s) : \E m \in 1..Len(s) : Sorted(s)[m] = s[k]
           /\ \A j, m \in 1..Len(s) : j <= m => Sorted(s)[j].similarity >= Sorted(s)[m].similarity
<1> DEFINE n == Len(s)
           at(m) == CHOOSE k \in 1..n : Rank(s, k) = m - 1
<1>1. n \in Nat /\ DOMAIN s = 1..n
  OBVIOUS
<1>2. ASSUME NEW m \in 1..n
      PROVE  at(m) \in 1..n /\ Rank(s, at(m)) = m - 1
  <2>1. m - 1 \in 0..(n - 1)
    BY <1>1
  <2>2. \E k \in 1..n : Rank(s, k) = m - 1
    BY <2>1, RankSurjects
  <2> QED
    BY <2>2
<1>3. Sorted(s) = [m \in 1..n |-> s[at(m)]]
  BY <1>1 DEF Sorted, Rank
<1> HIDE DEF at
<1>4. \A m \in 1..n : s[at(m)] \in S
  BY <1>2, ElementOfSeq
<1>5. Sorted(s) \in Seq(S) /\ Len(Sorted(s)) = n
  <2>1. [m \in 1..n |-> s[at(m)]] \in Seq(S)
    BY <1>1, <1>4, IsASeq
  <2>2. DOMAIN Sorted(s) = 1..n
    BY <1>3
  <2> QED
    BY <1>1, <1>3, <2>1, <2>2
<1>6. ASSUME NEW k \in 1..n
      PROVE  \E m \in 1..n : Sorted(s)[m] = s[k]
  <2> DEFINE m == Rank(s, k) + 1
  <2>1. Rank(s, k) \in 0..(n - 1)
    BY RankOrders
  <2>2. m \in 1..n /\ m - 1 = Rank(s, k)
    BY <1>1, <2>1
  <2> HIDE DEF m
  <2>3. at(m) \in 1..n /\ Rank(s, at(m)) = Rank(s, k)
    BY <1>2, <2>2
  <2>4. at(m) = k
    BY <2>3, RankSurjects
  <2> QED
    BY <1>3, <2>2, <2>4
<1>7. ASSUME NEW j \in 1..n, NEW m \in 1..n, j <= m
      PROVE  Sorted(s)[j].similarity >= Sorted(s)[m].similarity
  <2>1. at(j) \in 1..n /\ at(m) \in 1..n /\ Rank(s, at(j)) = j - 1 /\ Rank(s, at(m)) = m - 1
    BY <1>2
  <2>2. s[at(j)].similarity \in Nat /\ s[at(m)].similarity \in Nat
    BY <2>1
  <2>3. SUFFICES ASSUME s[at(m)].similarity > s[at(j)].similarity
                 PROVE  FALSE
    BY <1>3, <2>2
  <2>4. at(m) \in Ahead(s, at(j))
    BY <1>1, <2>1, <2>3 DEF Ahead
  <2>5. Rank(s, at(m)) < Rank(s, at(j))
    BY <2>1, <2>4, RankOrders
  <2> QED
    BY <1>7, <2>1, <2>5
<1> QED
  BY <1>5, <1>6, <1>7

\* The first n elements of a sequence.
LEMMA StartOfProperties ==
    ASSUME NEW S, NEW s \in Seq(S), NEW n \in Nat
    PROVE  /\ StartOf(n, s) \in Seq(S)
           /\ Len(StartOf(n, s)) = IF Len(s) < n THEN Len(s) ELSE n
           /\ \A i \in 1..Len(s) : i <= n => StartOf(n, s)[i] = s[i]
<1> DEFINE m == IF Len(s) < n THEN Len(s) ELSE n
<1>1. m \in Nat /\ Len(s) \in Nat /\ m <= Len(s) /\ m <= n
  OBVIOUS
<1>2. StartOf(n, s) = SubSeq(s, 1, m)
  BY DEF StartOf
<1> HIDE DEF m
<1>3. \A i \in 1..m : s[i] \in S
  BY <1>1, ElementOfSeq
<1>4. /\ SubSeq(s, 1, m) \in Seq(S)
      /\ Len(SubSeq(s, 1, m)) = IF 1 <= m THEN m - 1 + 1 ELSE 0
      /\ \A i \in 1..(m - 1 + 1) : SubSeq(s, 1, m)[i] = s[1 + i - 1]
  BY <1>1, <1>3, SubSeqProperties
<1>5. Len(SubSeq(s, 1, m)) = m
  BY <1>1, <1>4
<1>6. \A i \in 1..m : SubSeq(s, 1, m)[i] = s[i]
  BY <1>1, <1>4
<1>7. \A i \in 1..Len(s) : i <= n => i \in 1..m
  BY <1>1 DEF m
<1> QED
  BY <1>2, <1>4, <1>5, <1>6, <1>7 DEF m

\* find_similar returns records over the threshold, at most three.
LEMMA FindSimilarProperties ==
    ASSUME NEW S, NEW s \in Seq(S), \A k \in 1..Len(s) : s[k].similarity \in Nat
    PROVE  /\ FindSimilar(s) \in Seq(S) /\ Len(FindSimilar(s)) <= 3
           /\ BestMatchFirst(s)
<1> DEFINE keep == {k \in DOMAIN s : s[k].similarity >= Threshold}
           T    == {x \in S : x.similarity \in Nat /\ x.similarity >= Threshold}
           like == Kept(s, keep)
           sort == Sorted(like)
           top  == StartOf(3, sort)
<1>1. Len(s) \in Nat /\ DOMAIN s = 1..Len(s) /\ (\A k \in 1..Len(s) : s[k] \in S) /\ Threshold \in Nat
  BY ElementOfSeq, LogAssumption DEF LogAssumption
<1>2. \A k \in 1..Len(s) : k \in keep => s[k] \in T
  BY <1>1
<1>3. FindSimilar(s) = top
  BY DEF FindSimilar
<1>4. \A k \in 1..Len(s) : s[k].similarity >= Threshold => k \in keep
  BY <1>1
<1>5. \A x \in T : x.similarity \in Nat /\ x.similarity >= Threshold
  OBVIOUS
<1>6. T \subseteq S
  OBVIOUS
<1> HIDE DEF keep, T
<1>7. like \in Seq(T) /\ \A k \in 1..Len(s) : k \in keep => \E m \in 1..Len(like) : like[m] = s[k]
  BY <1>2, KeptElements
<1> HIDE DEF like
<1>8. \A k \in 1..Len(like) : like[k].similarity \in Nat
  BY <1>5, <1>7, ElementOfSeq
<1>9. /\ sort \in Seq(T) /\ Len(sort) = Len(like)
      /\ \A k \in 1..Len(like) : \E m \in 1..Len(like) : sort[m] = like[k]
      /\ \A j, m \in 1..Len(like) : j <= m => sort[j].similarity >= sort[m].similarity
  BY <1>7, <1>8, SortedProperties
<1> HIDE DEF sort
<1>10. /\ top \in Seq(T) /\ Len(top) = IF Len(sort) < 3 THEN Len(sort) ELSE 3
       /\ \A i \in 1..Len(sort) : i <= 3 => top[i] = sort[i]
  <2>1. sort \in Seq(T) /\ 3 \in Nat
    BY <1>9
  <2> QED
    BY <2>1, StartOfProperties
<1> HIDE DEF top
<1>11. top \in Seq(S) /\ Len(top) <= 3
  BY <1>6, <1>10, SeqMonotonic
<1>12. \A r \in ToSet(s) : \E k \in 1..Len(s) : r = s[k]
  BY <1>1 DEF ToSet
<1>13. CASE top = <<>>
  <2>1. Len(like) = 0
    BY <1>9, <1>10, <1>13
  <2>2. \A k \in 1..Len(s) : k \notin keep
    BY <1>7, <2>1
  <2>3. \A k \in 1..Len(s) : s[k].similarity < Threshold
    BY <1>1, <1>4, <2>2
  <2>4. BestMatchFirst(s)
    BY <1>3, <1>12, <1>13, <2>3 DEF BestMatchFirst
  <2> QED
    BY <1>3, <1>11, <2>4
<1>14. CASE top # <<>>
  <2>1. Len(like) \in Nat /\ Len(sort) >= 1
    BY <1>7, <1>9, <1>10, <1>14
  <2>2. top[1] = sort[1] /\ sort[1] \in T
    BY <1>9, <1>10, <2>1, ElementOfSeq
  <2>3. ASSUME NEW k \in 1..Len(s)
        PROVE  s[k].similarity <= top[1].similarity
    <3>1. CASE s[k].similarity >= Threshold
      <4>1. PICK m \in 1..Len(like) : like[m] = s[k]
        BY <1>4, <1>7, <3>1
      <4>2. PICK j \in 1..Len(like) : sort[j] = s[k]
        BY <1>9, <4>1
      <4>3. sort[1].similarity >= sort[j].similarity
        <5>1. 1 \in 1..Len(like) /\ 1 <= j
          BY <2>1, <4>2
        <5> QED
          BY <1>9, <5>1
      <4> QED
        BY <1>5, <2>2, <4>2, <4>3
    <3>2. CASE ~(s[k].similarity >= Threshold)
      BY <1>1, <1>5, <2>2, <3>2
    <3> QED
      BY <3>1, <3>2
  <2>4. BestMatchFirst(s)
    BY <1>3, <1>12, <1>14, <2>3 DEF BestMatchFirst
  <2> QED
    BY <1>3, <1>11, <2>4
<1> QED
  BY <1>13, <1>14
-----------------------------------------------------------------------------
(* Kinds of errors *)

RuleKind == STRING \ {"unknown"}
Tags(line) == [k \in DOMAIN Hits(line) |-> Hits(line)[k].type]

\* The tags of one line.
LEMMA TagsProperties ==
    ASSUME NEW line
    PROVE  /\ Tags(line) \in Seq(RuleKind)
           /\ Hits(line) # <<>> => Len(Tags(line)) >= 1
<1> DEFINE Rule == [type : RuleKind, hits : SUBSET STRING]
           keep == {k \in DOMAIN Rules : line.text \in Rules[k].hits}
           h == Hits(line)
<1>1. Rules \in Seq(Rule)
  BY LogAssumption DEF LogAssumption, RuleKind
<1>2. h = Kept(Rules, keep)
  BY DEF Hits
<1>3. \A r \in Rule : r.type \in RuleKind
  OBVIOUS
<1> HIDE DEF Rule, keep
<1>4. \A k \in 1..Len(Rules) : k \in keep => Rules[k] \in Rule
  BY <1>1, ElementOfSeq
<1>5. h \in Seq(Rule)
  BY <1>1, <1>2, <1>4, KeptElements
<1>6. Tags(line) = [k \in DOMAIN h |-> h[k].type]
  BY DEF Tags
<1> HIDE DEF h
<1>7. DOMAIN h = 1..Len(h) /\ Len(h) \in Nat /\ \A k \in 1..Len(h) : h[k].type \in RuleKind
  BY <1>3, <1>5, ElementOfSeq
<1>8. Tags(line) = [k \in 1..Len(h) |-> h[k].type]
  BY <1>6, <1>7
<1>9. Tags(line) \in Seq(RuleKind)
  <2> DEFINE t(k) == h[k].type
  <2>1. \A k \in 1..Len(h) : t(k) \in RuleKind
    BY <1>7
  <2> HIDE DEF t
  <2>2. [k \in 1..Len(h) |-> t(k)] \in Seq(RuleKind)
    BY <1>7, <2>1, IsASeq
  <2> QED
    BY <1>8, <2>2 DEF t
<1>10. Len(Tags(line)) = Len(h)
  <2>1. DOMAIN Tags(line) = 1..Len(h)
    BY <1>8
  <2> QED
    BY <1>7, <1>9, <2>1
<1>11. h # <<>> => Len(h) >= 1
  BY <1>5
<1> QED
  BY <1>9, <1>10, <1>11 DEF h

TypesRun(lines, f) ==
    /\ f[0] = <<>>
    /\ \A i \in 1..Len(lines) : f[i] = f[i - 1] \o Tags(lines[i])

\* What Types computes, line by line.
LEMMA TypesLoop ==
    ASSUME NEW S, NEW lines \in Seq(S)
    PROVE  \E f \in [0..Len(lines) -> Seq(RuleKind)] : TypesRun(lines, f) /\ Types(lines) = f[Len(lines)]
<1> DEFINE n == Len(lines)
           U == Seq(RuleKind)
           base == <<>>
           g == [k \in 1..n |-> [x \in U |-> x \o Tags(lines[k])]]
<1>1. n \in Nat /\ base \in U
  OBVIOUS
<1>2. g \in [1..n -> [U -> U]]
  <2> SUFFICES ASSUME NEW k \in 1..n, NEW x \in U
               PROVE  x \o Tags(lines[k]) \in U
    OBVIOUS
  <2>1. Tags(lines[k]) \in U
    BY TagsProperties
  <2> QED
    BY <2>1, ConcatProperties
<1>3. PICK f \in [0..n -> U] : Runs(n, base, g, f)
  <2> HIDE DEF n, g, base, U
  <2> QED
    BY <1>1, <1>2, LoopExists
<1> DEFINE Body(h) == [k \in 0..n |-> IF k = 0 THEN <<>> ELSE h[k - 1] \o Tags(lines[k])]
<1>4. f[0] = <<>> /\ \A k \in 1..n : f[k] = f[k - 1] \o Tags(lines[k])
  <2>1. f[0] = <<>> /\ \A k \in 1..n : f[k] = g[k][f[k - 1]]
    BY <1>3 DEF Runs
  <2>2. \A k \in 1..n : k - 1 \in 0..n
    BY <1>1
  <2>3. \A k \in 1..n : f[k - 1] \in U
    BY <2>2
  <2> HIDE DEF U
  <2> QED
    BY <2>1, <2>3
<1>5. f = Body(f)
  <2>1. f = [k \in 0..n |-> f[k]]
    BY <1>3
  <2>2. \A k \in 0..n : k = 0 \/ k \in 1..n
    BY <1>1
  <2>3. \A k \in 0..n : f[k] = IF k = 0 THEN <<>> ELSE f[k - 1] \o Tags(lines[k])
    BY <1>4, <2>2
  <2> QED
    BY <2>1, <2>3
<1> DEFINE c == CHOOSE h : h = Body(h)
<1>6. c = Body(c)
  BY <1>5
<1>7. Types(lines) = c[n]
  BY DEF Types, Tags
<1> HIDE DEF c
<1>8. \A k \in 0..n : c[k] = Body(c)[k]
  BY <1>6
<1>9. \A k \in 0..n : c[k] = f[k]
  <2> DEFINE P == {k \in 0..n : c[k] = f[k]}
  <2>1. 0 \in P
    BY <1>1, <1>4, <1>8
  <2>2. ASSUME NEW k \in 1..n, k - 1 \in P
        PROVE  k \in P
    <3>1. k \in 0..n /\ k # 0 /\ c[k - 1] = f[k - 1]
      BY <1>1, <2>2
    <3>2. c[k] = c[k - 1] \o Tags(lines[k])
      BY <1>8, <3>1
    <3> QED
      BY <1>4, <3>1, <3>2
  <2> HIDE DEF P
  <2>3. \A k \in 0..n : k \in P
    BY <1>1, <2>1, <2>2, Induction
  <2> QED
    BY <2>3 DEF P
<1>10. Types(lines) = f[n]
  BY <1>1, <1>7, <1>9
<1> QED
  BY <1>3, <1>4, <1>10 DEF TypesRun

\* A line that a rule matches gives a tag.
LEMMA TypesProperties ==
    ASSUME NEW S, NEW lines \in Seq(S)
    PROVE  /\ Types(lines) \in Seq(RuleKind)
           /\ \A j \in 1..Len(lines) : Hits(lines[j]) # <<>> => Types(lines) # <<>>
<1> DEFINE n == Len(lines)
<1>1. n \in Nat /\ n \in 0..n
  OBVIOUS
<1>2. PICK f \in [0..Len(lines) -> Seq(RuleKind)] : TypesRun(lines, f) /\ Types(lines) = f[Len(lines)]
  BY TypesLoop
<1>3. f[0] = <<>> /\ \A k \in 1..n : f[k] = f[k - 1] \o Tags(lines[k])
  BY <1>2 DEF TypesRun
<1> DEFINE Has(k) == \A j \in 1..k : Hits(lines[j]) # <<>> => Len(f[k]) >= 1
           P == {k \in 0..n : Has(k)}
<1>4. 0 \in P
  BY <1>1
<1>5. ASSUME NEW k \in 1..n, k - 1 \in P
      PROVE  k \in P
  <2>1. k - 1 \in 0..n /\ Has(k - 1)
    BY <1>1, <1>5
  <2>2. SUFFICES ASSUME NEW j \in 1..k, Hits(lines[j]) # <<>>
                 PROVE  Len(f[k]) >= 1
    BY <1>1
  <2> HIDE DEF P
  <2> DEFINE x == f[k - 1]
             t == Tags(lines[k])
  <2>3. x \in Seq(RuleKind) /\ t \in Seq(RuleKind) /\ f[k] = x \o t
    BY <1>3, <2>1, TagsProperties
  <2>4. j = k => Len(t) >= 1
    BY <2>2, TagsProperties
  <2>5. j # k => Len(x) >= 1
    BY <1>1, <2>1, <2>2
  <2> HIDE DEF x, t
  <2>6. Len(f[k]) = Len(x) + Len(t) /\ Len(x) \in Nat /\ Len(t) \in Nat
    BY <2>3, ConcatProperties
  <2> QED
    BY <2>4, <2>5, <2>6
<1> HIDE DEF P
<1>6. \A k \in 0..n : k \in P
  <2>1. \A k \in 1..n : k - 1 \in P => k \in P
    BY <1>5
  <2> QED
    BY <1>1, <1>4, <2>1, Induction
<1>7. Has(n)
  BY <1>1, <1>6 DEF P
<1>8. Types(lines) \in Seq(RuleKind)
  BY <1>1, <1>2
<1> QED
  BY <1>2, <1>7, <1>8
-----------------------------------------------------------------------------
(* Errors of a log *)

\* A line without its stamp.
LEMMA StripProperties ==
    ASSUME NEW S, NEW log \in Seq(S)
    PROVE  /\ Strip(log) \in Seq({Bare(log[i].text) : i \in 1..Len(log)})
           /\ Len(Strip(log)) = Len(log)
           /\ \A i \in 1..Len(log) : Strip(log)[i] = Bare(log[i].text)
<1> DEFINE n == Len(log)
           L == {Bare(log[i].text) : i \in 1..n}
           b(i) == Bare(log[i].text)
<1>1. n \in Nat /\ DOMAIN log = 1..n
  OBVIOUS
<1>2. \A i \in 1..n : b(i) \in L
  OBVIOUS
<1>3. Strip(log) = [i \in 1..n |-> b(i)]
  BY <1>1 DEF Strip
<1> HIDE DEF b, L
<1>4. Strip(log) \in Seq(L)
  BY <1>1, <1>2, <1>3, IsASeq
<1>5. DOMAIN Strip(log) = 1..n
  BY <1>3
<1>6. Len(Strip(log)) = n
  BY <1>1, <1>4, <1>5
<1> QED
  BY <1>3, <1>4, <1>6 DEF b, L

From(p)    == IF p > Ctx THEN p - Ctx ELSE 1
Upto(p, n) == IF p + Ctx < n THEN p + Ctx ELSE n

\* A block is a window of the log: the error in the middle of its context.
LEMMA BlockProperties ==
    ASSUME NEW S, NEW lines \in Seq(S), NEW p \in 1..Len(lines),
           lines[p] = Bare(lines[p].text)
    PROVE  /\ Block(lines, p).anchor = lines[p].text
           /\ Len(Block(lines, p).before) = (IF p > Ctx THEN Ctx ELSE p - 1)
           /\ Len(Block(lines, p).after) = (IF p + Ctx <= Len(lines) THEN Ctx ELSE Len(lines) - p)
           /\ From(p) \in 1..p /\ Upto(p, Len(lines)) \in p..Len(lines) /\ p - From(p) <= Ctx
           /\ FullText(Block(lines, p)) = SubSeq(lines, From(p), Upto(p, Len(lines)))
           /\ FullText(Block(lines, p)) \in Seq(S)
           /\ Len(FullText(Block(lines, p))) = Upto(p, Len(lines)) - From(p) + 1
           /\ FullText(Block(lines, p))[p - From(p) + 1] = lines[p]
           /\ Within(FullText(Block(lines, p)), lines)
<1> DEFINE n  == Len(lines)
           lo == From(p)
           hi == Upto(p, n)
           block  == Block(lines, p)
           before == SubSeq(lines, lo, p - 1)
           after  == SubSeq(lines, p + 1, hi)
           full   == SubSeq(lines, lo, hi)
<1>1. n \in Nat /\ Ctx \in Nat /\ p \in Nat /\ p >= 1 /\ p <= n
  BY LogAssumption DEF LogAssumption
<1>2. /\ lo \in 1..p /\ hi \in p..n /\ p - lo <= Ctx
      /\ p - lo = (IF p > Ctx THEN Ctx ELSE p - 1)
      /\ hi - p = (IF p + Ctx <= n THEN Ctx ELSE n - p)
  BY <1>1 DEF From, Upto
<1>3. block = [anchor |-> lines[p].text, before |-> before, after |-> after]
  BY DEF Block, From, Upto
<1>4. \A i \in 1..n : lines[i] \in S
  BY ElementOfSeq
<1> HIDE DEF lo, hi, block
<1>5. before \in Seq(S) /\ Len(before) = p - lo
  <2>1. lo \in Int /\ p - 1 \in Int /\ \A i \in lo..(p - 1) : lines[i] \in S
    BY <1>1, <1>2, <1>4
  <2>2. before \in Seq(S) /\ Len(before) = IF lo <= p - 1 THEN p - 1 - lo + 1 ELSE 0
    BY <2>1, SubSeqProperties
  <2> QED
    BY <1>1, <1>2, <2>2
<1>6. after \in Seq(S) /\ Len(after) = hi - p
  <2>1. hi \in Int /\ p + 1 \in Int /\ \A i \in (p + 1)..hi : lines[i] \in S
    BY <1>1, <1>2, <1>4
  <2>2. after \in Seq(S) /\ Len(after) = IF p + 1 <= hi THEN hi - (p + 1) + 1 ELSE 0
    BY <2>1, SubSeqProperties
  <2> QED
    BY <1>1, <1>2, <2>2
<1>7. /\ full \in Seq(S) /\ Len(full) = hi - lo + 1
      /\ \A i \in 1..(hi - lo + 1) : full[i] = lines[lo + i - 1]
  <2>1. lo \in Int /\ hi \in Int /\ lo <= hi /\ \A i \in lo..hi : lines[i] \in S
    BY <1>1, <1>2, <1>4
  <2>2. /\ full \in Seq(S) /\ Len(full) = IF lo <= hi THEN hi - lo + 1 ELSE 0
        /\ \A i \in 1..(hi - lo + 1) : full[i] = lines[lo + i - 1]
    BY <2>1, SubSeqProperties
  <2> QED
    BY <2>1, <2>2
<1>8. FullText(block) = full
  <2>1. FullText(block) = before \o <<lines[p]>> \o after
    BY <1>3 DEF FullText
  <2>2. SubSeq(lines, p, p) = <<lines[p]>>
    <3> DEFINE x == lines[p]
               one == SubSeq(lines, p, p)
    <3>1. p \in Int /\ \A i \in p..p : lines[i] \in S
      BY <1>1, <1>4
    <3>2. /\ one \in Seq(S) /\ Len(one) = IF p <= p THEN p - p + 1 ELSE 0
          /\ \A i \in 1..(p - p + 1) : one[i] = lines[p + i - 1]
      BY <3>1, SubSeqProperties
    <3>3. Len(one) = 1 /\ 1 \in 1..(p - p + 1) /\ p + 1 - 1 = p
      BY <1>1, <3>2
    <3>4. one[1] = x
      BY <3>2, <3>3
    <3>5. x \in S
      BY <1>4
    <3> HIDE DEF one, x
    <3>6. <<x>> \in Seq(S) /\ Len(<<x>>) = 1 /\ <<x>>[1] = x
      BY <3>5
    <3>7. one = <<x>>
      <4>1. \A i \in 1..Len(one) : one[i] = <<x>>[i]
        BY <3>3, <3>4, <3>6
      <4> QED
        BY <3>2, <3>3, <3>6, <4>1, SeqEqual
    <3> QED
      BY <3>7 DEF one, x
  <2>3. before \o SubSeq(lines, p, p) = SubSeq(lines, lo, p)
    <3>1. lo \in 1..(n + 1) /\ p - 1 \in (lo - 1)..n /\ p \in (p - 1)..n
      BY <1>1, <1>2
    <3>2. SubSeq(lines, lo, p - 1) \o SubSeq(lines, (p - 1) + 1, p) = SubSeq(lines, lo, p)
      BY <3>1, ConcatAdjacentSubSeq
    <3>3. (p - 1) + 1 = p
      BY <1>1
    <3> QED
      BY <3>2, <3>3
  <2>4. SubSeq(lines, lo, p) \o after = full
    <3>1. lo \in 1..(n + 1) /\ p \in (lo - 1)..n /\ hi \in p..n
      BY <1>1, <1>2
    <3> QED
      BY <3>1, ConcatAdjacentSubSeq
  <2> QED
    BY <2>1, <2>2, <2>3, <2>4
<1>9. full[p - lo + 1] = lines[p]
  <2>1. p - lo + 1 \in 1..(hi - lo + 1) /\ lo + (p - lo + 1) - 1 = p
    BY <1>1, <1>2
  <2> QED
    BY <1>7, <2>1
<1>10. Within(full, lines)
  <2> DEFINE i == lo - 1
  <2>1. i \in 0..n /\ i + Len(full) <= n /\ i + 1 = lo /\ i + Len(full) = hi
    BY <1>1, <1>2, <1>7
  <2>2. SubSeq(lines, i + 1, i + Len(full)) = full
    BY <2>1
  <2> HIDE DEF i
  <2> QED
    BY <2>1, <2>2 DEF Within
<1>11. block.anchor = lines[p].text /\ block.before = before /\ block.after = after
  BY <1>3
<1> HIDE DEF before, after, full
<1>12. /\ Len(block.before) = (IF p > Ctx THEN Ctx ELSE p - 1)
       /\ Len(block.after) = (IF p + Ctx <= n THEN Ctx ELSE n - p)
  BY <1>2, <1>5, <1>6, <1>11
<1> QED
  BY <1>2, <1>7, <1>8, <1>9, <1>10, <1>11, <1>12 DEF lo, hi, block, full
\* The blocks that Parse may find, and what its loop carries.
BlocksOf(log) == {Block(Strip(log), i) : i \in 1..Len(log)}
Found(log)    == [seen : SUBSET Anchor, blocks : Seq(BlocksOf(log))]

ParseRun(log, f) ==
    /\ f[0] = Nothing
    /\ \A i \in 1..Len(log) : f[i] = Scan(log, f[i - 1], i)

LEMMA ScanType ==
    ASSUME NEW log, NEW i \in 1..Len(log), NEW x \in Found(log)
    PROVE  Scan(log, x, i) \in Found(log)
<1>1. x.seen \in SUBSET Anchor /\ x.blocks \in Seq(BlocksOf(log))
  BY DEF Found
<1>2. CASE log[i].text \in Anchor \ x.seen
  <2>1. Block(Strip(log), i) \in BlocksOf(log)
    BY DEF BlocksOf
  <2>2. Append(x.blocks, Block(Strip(log), i)) \in Seq(BlocksOf(log))
    BY <1>1, <2>1, AppendProperties
  <2>3. Scan(log, x, i) = [seen   |-> x.seen \cup {log[i].text},
                           blocks |-> Append(x.blocks, Block(Strip(log), i))]
    BY <1>2 DEF Scan
  <2> QED
    BY <1>1, <1>2, <2>2, <2>3 DEF Found
<1>3. CASE ~(log[i].text \in Anchor \ x.seen)
  BY <1>3 DEF Scan
<1> QED
  BY <1>2, <1>3

\* What Parse computes, line by line.
LEMMA ParseLoop ==
    ASSUME NEW S, NEW log \in Seq(S)
    PROVE  \E f \in [0..Len(log) -> Found(log)] : ParseRun(log, f) /\ Parse(log) = f[Len(log)].blocks
<1> DEFINE n == Len(log)
           U == Found(log)
           base == Nothing
           g == [k \in 1..n |-> [x \in U |-> Scan(log, x, k)]]
<1>1. n \in Nat /\ base \in U
  BY DEF Nothing, Found
<1>2. g \in [1..n -> [U -> U]]
  BY ScanType
<1>3. PICK f \in [0..n -> U] : Runs(n, base, g, f)
  <2> HIDE DEF n, g, base, U
  <2> QED
    BY <1>1, <1>2, LoopExists
<1> DEFINE Body(h) == [k \in 0..n |-> IF k = 0 THEN Nothing ELSE Scan(log, h[k - 1], k)]
<1>4. f[0] = Nothing /\ \A k \in 1..n : f[k] = Scan(log, f[k - 1], k)
  <2>1. f[0] = Nothing /\ \A k \in 1..n : f[k] = g[k][f[k - 1]]
    BY <1>3 DEF Runs
  <2>2. \A k \in 1..n : k - 1 \in 0..n
    BY <1>1
  <2>3. \A k \in 1..n : f[k - 1] \in U
    BY <2>2
  <2> HIDE DEF U
  <2> QED
    BY <2>1, <2>3
<1>5. f = Body(f)
  <2>1. f = [k \in 0..n |-> f[k]]
    BY <1>3
  <2>2. \A k \in 0..n : k = 0 \/ k \in 1..n
    BY <1>1
  <2>3. \A k \in 0..n : f[k] = IF k = 0 THEN Nothing ELSE Scan(log, f[k - 1], k)
    BY <1>4, <2>2
  <2> QED
    BY <2>1, <2>3
<1> DEFINE c == CHOOSE h : h = Body(h)
<1>6. c = Body(c)
  BY <1>5
<1>7. Parse(log) = c[n].blocks
  BY DEF Parse
<1> HIDE DEF c
<1>8. \A k \in 0..n : c[k] = Body(c)[k]
  BY <1>6
<1>9. \A k \in 0..n : c[k] = f[k]
  <2> DEFINE P == {k \in 0..n : c[k] = f[k]}
  <2>1. 0 \in P
    BY <1>1, <1>4, <1>8
  <2>2. ASSUME NEW k \in 1..n, k - 1 \in P
        PROVE  k \in P
    <3>1. k \in 0..n /\ k # 0 /\ c[k - 1] = f[k - 1]
      BY <1>1, <2>2
    <3>2. c[k] = Scan(log, c[k - 1], k)
      BY <1>8, <3>1
    <3> QED
      BY <1>4, <3>1, <3>2
  <2> HIDE DEF P
  <2>3. \A k \in 0..n : k \in P
    BY <1>1, <2>1, <2>2, Induction
  <2> QED
    BY <2>3 DEF P
<1>10. Parse(log) = f[n].blocks
  BY <1>1, <1>7, <1>9
<1> QED
  BY <1>3, <1>4, <1>10 DEF ParseRun

\* Where an error appears first.
FirstAt(log, p) == \A j \in 1..(p - 1) : log[j].text # log[p].text

LEMMA PlaceOf ==
    ASSUME NEW S, NEW log \in Seq(S), NEW p \in 1..Len(log), FirstAt(log, p)
    PROVE  Place(log[p].text, log) = p
<1> DEFINE There(i) == log[i].text = log[p].text /\ \A j \in 1..(i - 1) : log[j].text # log[p].text
<1>1. DOMAIN log = 1..Len(log) /\ Len(log) \in Nat
  OBVIOUS
<1>2. There(p)
  BY DEF FirstAt
<1>3. \A i \in 1..Len(log) : There(i) => i = p
  <2> SUFFICES ASSUME NEW i \in 1..Len(log), There(i), i # p
               PROVE  FALSE
    OBVIOUS
  <2>1. CASE i < p
    <3>1. i \in 1..(p - 1)
      BY <1>1, <2>1
    <3> QED
      BY <1>2, <3>1
  <2>2. CASE p < i
    <3>1. p \in 1..(i - 1)
      BY <1>1, <2>2
    <3> QED
      BY <3>1
  <2> QED
    BY <1>1, <2>1, <2>2
<1>4. Place(log[p].text, log) = CHOOSE i \in 1..Len(log) : There(i)
  BY <1>1 DEF Place
<1> HIDE DEF There
<1> QED
  BY <1>2, <1>3, <1>4

(***************************************************************************)
(* After i lines: every error among them has been seen, and has one block, *)
(* made where it first appears; the blocks are in the order of the lines.  *)
(***************************************************************************)
ErrorsUpto(log, i) == {log[j].text : j \in 1..i} \cap Anchor

Scanned(log, x, i) ==
    /\ x.seen = ErrorsUpto(log, i)
    /\ IsFiniteSet(x.seen)
    /\ Len(x.blocks) = Cardinality(x.seen)
    /\ \A t \in x.seen : \E k \in 1..Len(x.blocks) : x.blocks[k].anchor = t
    /\ \A k \in 1..Len(x.blocks) :
         LET p == Place(x.blocks[k].anchor, log)
         IN  /\ p \in 1..i
             /\ x.blocks[k].anchor = log[p].text /\ log[p].text \in Anchor
             /\ x.blocks[k] = Block(Strip(log), p)
             /\ k > 1 => Place(x.blocks[k - 1].anchor, log) < p

\* One line more.
LEMMA ScanStep ==
    ASSUME NEW S, NEW log \in Seq(S), NEW i \in 1..Len(log), NEW x \in Found(log),
           Scanned(log, x, i - 1)
    PROVE  Scanned(log, Scan(log, x, i), i)
<1> DEFINE text == log[i].text
           blocks == x.blocks
           B == BlocksOf(log)
<1>1. i \in Nat /\ i >= 1 /\ Len(log) \in Nat /\ i <= Len(log)
  OBVIOUS
<1>2. blocks \in Seq(B) /\ Len(blocks) \in Nat
  BY DEF Found
<1>3. ErrorsUpto(log, i) = IF text \in Anchor THEN ErrorsUpto(log, i - 1) \cup {text}
                           ELSE ErrorsUpto(log, i - 1)
  <2>1. \A j : j \in 1..i <=> (j \in 1..(i - 1) \/ j = i)
    BY <1>1
  <2>2. {log[j].text : j \in 1..i} = {log[j].text : j \in 1..(i - 1)} \cup {text}
    BY <2>1
  <2> QED
    BY <2>2 DEF ErrorsUpto
<1>4. ASSUME NEW k \in 1..Len(blocks)
      PROVE  /\ Place(blocks[k].anchor, log) \in 1..(i - 1)
             /\ Place(blocks[k].anchor, log) \in 1..i
             /\ blocks[k].anchor = log[Place(blocks[k].anchor, log)].text
             /\ log[Place(blocks[k].anchor, log)].text \in Anchor
             /\ blocks[k] = Block(Strip(log), Place(blocks[k].anchor, log))
             /\ k > 1 => Place(blocks[k - 1].anchor, log) < Place(blocks[k].anchor, log)
  <2>1. Place(blocks[k].anchor, log) \in 1..(i - 1) => Place(blocks[k].anchor, log) \in 1..i
    BY <1>1
  <2> QED
    BY <2>1 DEF Scanned
<1>5. CASE text \notin Anchor \ x.seen
  <2>1. Scan(log, x, i) = x
    BY <1>5 DEF Scan
  <2>2. ErrorsUpto(log, i) = ErrorsUpto(log, i - 1)
    BY <1>3, <1>5 DEF Scanned
  <2> QED
    BY <1>4, <2>1, <2>2 DEF Scanned
<1>6. CASE text \in Anchor \ x.seen
  <2> DEFINE new  == Block(Strip(log), i)
             all  == Append(blocks, new)
             seen == x.seen \cup {text}
  <2>1. Scan(log, x, i) = [seen |-> seen, blocks |-> all]
    BY <1>6 DEF Scan
  <2>2. new \in B
    BY DEF BlocksOf
  <2>3. new.anchor = text
    <3>1. Strip(log)[i] = Bare(text)
      BY StripProperties
    <3>2. new.anchor = Strip(log)[i].text
      BY DEF Block
    <3> QED
      BY <3>1, <3>2 DEF Bare
  <2>4. FirstAt(log, i)
    <3>1. \A j \in 1..(i - 1) : log[j].text \in Anchor => log[j].text \in x.seen
      BY DEF Scanned, ErrorsUpto
    <3> QED
      BY <1>6, <3>1 DEF FirstAt
  <2>5. Place(text, log) = i
    BY <2>4, PlaceOf
  <2> HIDE DEF new, B, text
  <2>6. /\ all \in Seq(B) /\ Len(all) = Len(blocks) + 1
        /\ all[Len(blocks) + 1] = new
        /\ \A k \in 1..Len(blocks) : all[k] = blocks[k]
    BY <1>2, <2>2, AppendProperties
  <2> HIDE DEF all
  <2>7. seen = ErrorsUpto(log, i)
    BY <1>3, <1>6 DEF Scanned
  <2>8. IsFiniteSet(seen) /\ Cardinality(seen) = Cardinality(x.seen) + 1
    BY <1>6, FS_AddElement DEF Scanned
  <2>9. Len(all) = Cardinality(seen)
    BY <2>6, <2>8 DEF Scanned
  <2>10. ASSUME NEW t \in seen
         PROVE  \E k \in 1..Len(all) : all[k].anchor = t
    <3>1. CASE t = text
      <4>1. Len(blocks) + 1 \in 1..Len(all)
        BY <1>2, <2>6
      <4> QED
        BY <2>3, <2>6, <3>1, <4>1
    <3>2. CASE t \in x.seen
      <4>1. PICK k \in 1..Len(blocks) : blocks[k].anchor = t
        BY <3>2 DEF Scanned
      <4>2. k \in 1..Len(all) /\ all[k] = blocks[k]
        BY <1>2, <2>6
      <4> QED
        BY <4>1, <4>2
    <3> QED
      BY <3>1, <3>2
  <2>11. ASSUME NEW k \in 1..Len(all)
         PROVE  /\ Place(all[k].anchor, log) \in 1..i
                /\ all[k].anchor = log[Place(all[k].anchor, log)].text
                /\ log[Place(all[k].anchor, log)].text \in Anchor
                /\ all[k] = Block(Strip(log), Place(all[k].anchor, log))
                /\ k > 1 => Place(all[k - 1].anchor, log) < Place(all[k].anchor, log)
    <3>1. CASE k \in 1..Len(blocks)
      <4>1. all[k] = blocks[k]
        BY <2>6, <3>1
      <4>2. k > 1 => all[k - 1] = blocks[k - 1]
        <5>1. k > 1 => k - 1 \in 1..Len(blocks)
          BY <1>2, <3>1
        <5> QED
          BY <2>6, <5>1
      <4> QED
        BY <1>4, <3>1, <4>1, <4>2
    <3>2. CASE k = Len(blocks) + 1
      <4>1. all[k] = new /\ Place(all[k].anchor, log) = i
        BY <2>3, <2>5, <2>6, <3>2
      <4>2. k > 1 => Place(all[k - 1].anchor, log) < i
        <5>1. k > 1 => k - 1 \in 1..Len(blocks)
          BY <1>2, <3>2
        <5>2. k > 1 => all[k - 1] = blocks[k - 1] /\ Place(blocks[k - 1].anchor, log) \in 1..(i - 1)
          BY <1>4, <2>6, <5>1
        <5> QED
          BY <1>1, <5>2
      <4>3. log[i].text = text /\ i \in 1..i
        BY <1>1 DEF text
      <4> QED
        BY <1>6, <2>3, <4>1, <4>2, <4>3 DEF new
    <3> QED
      BY <1>2, <2>6, <3>1, <3>2
  <2>12. Scan(log, x, i).seen = seen /\ Scan(log, x, i).blocks = all
    BY <2>1
  <2> HIDE DEF seen
  <2> QED
    BY <2>7, <2>8, <2>9, <2>10, <2>11, <2>12 DEF Scanned
<1> QED
  BY <1>5, <1>6

\* All of a log.
LEMMA ParseScanned ==
    ASSUME NEW S, NEW log \in Seq(S)
    PROVE  \E x \in Found(log) : Scanned(log, x, Len(log)) /\ Parse(log) = x.blocks
<1> DEFINE n == Len(log)
<1>1. n \in Nat /\ n \in 0..n
  OBVIOUS
<1>2. PICK f \in [0..Len(log) -> Found(log)] : ParseRun(log, f) /\ Parse(log) = f[Len(log)].blocks
  BY ParseLoop
<1>3. f[0] = Nothing /\ \A k \in 1..n : f[k] = Scan(log, f[k - 1], k)
  BY <1>2 DEF ParseRun
<1> DEFINE P == {k \in 0..n : Scanned(log, f[k], k)}
<1>4. 0 \in P
  <2>1. f[0].seen = {} /\ f[0].blocks = <<>> /\ Len(f[0].blocks) = 0 /\ ErrorsUpto(log, 0) = {}
    BY <1>3 DEF Nothing, ErrorsUpto
  <2>2. Scanned(log, f[0], 0)
    BY <2>1, FS_EmptySet DEF Scanned
  <2> QED
    BY <1>1, <2>2
<1>5. ASSUME NEW k \in 1..n, k - 1 \in P
      PROVE  k \in P
  <2>1. k - 1 \in 0..n /\ k \in 0..n /\ f[k - 1] \in Found(log) /\ Scanned(log, f[k - 1], k - 1)
    BY <1>1, <1>5
  <2>2. Scanned(log, Scan(log, f[k - 1], k), k)
    BY <2>1, ScanStep
  <2> QED
    BY <1>3, <2>1, <2>2
<1> HIDE DEF P
<1>6. \A k \in 0..n : k \in P
  <2>1. \A k \in 1..n : k - 1 \in P => k \in P
    BY <1>5
  <2> QED
    BY <1>1, <1>4, <2>1, Induction
<1>7. Scanned(log, f[n], n) /\ f[n] \in Found(log)
  BY <1>1, <1>6 DEF P
<1> QED
  BY <1>2, <1>7

(***************************************************************************)
(* parse finds every error of any log once, in the order of their first    *)
(* appearance and with the lines around it, whatever the stamps in front   *)
(* of the lines.                                                           *)
(***************************************************************************)
THEOREM ErrorsAreFoundOnce ==
    ASSUME NEW S, NEW log \in Seq(S)
    PROVE  ErrorsFoundOnce(log)
<1> DEFINE n == Len(log)
           blocks == Parse(log)
           lines  == Strip(log)
           L == {Bare(log[i].text) : i \in 1..n}
<1>1. PICK x \in Found(log) : Scanned(log, x, Len(log)) /\ Parse(log) = x.blocks
  BY ParseScanned
<1>2. n \in Nat /\ DOMAIN log = 1..n
  OBVIOUS
<1>3. blocks \in Seq(BlocksOf(log)) /\ DOMAIN blocks = 1..Len(blocks)
  BY <1>1 DEF Found
<1>4. ErrorsIn(log) = ErrorsUpto(log, n)
  BY <1>2 DEF ErrorsIn, ErrorsUpto
<1>5. Len(blocks) = Cardinality(ErrorsIn(log))
  BY <1>1, <1>4 DEF Scanned
<1>6. ASSUME NEW k \in 1..Len(blocks)
      PROVE  /\ Place(blocks[k].anchor, log) \in 1..n
             /\ blocks[k].anchor = log[Place(blocks[k].anchor, log)].text
             /\ log[Place(blocks[k].anchor, log)].text \in Anchor
             /\ blocks[k] = Block(lines, Place(blocks[k].anchor, log))
             /\ k > 1 => Place(blocks[k - 1].anchor, log) < Place(blocks[k].anchor, log)
  BY <1>1 DEF Scanned
<1>7. lines \in Seq(L) /\ Len(lines) = n /\ \A i \in 1..n : lines[i] = Bare(log[i].text)
  BY StripProperties
<1> HIDE DEF blocks, lines, L
<1>8. {blocks[k].anchor : k \in DOMAIN blocks} = ErrorsIn(log)
  <2>1. \A t \in ErrorsIn(log) : \E k \in 1..Len(blocks) : blocks[k].anchor = t
    BY <1>1, <1>4 DEF Scanned, blocks
  <2>2. \A k \in 1..Len(blocks) : blocks[k].anchor \in ErrorsIn(log)
    BY <1>2, <1>6 DEF ErrorsIn
  <2> QED
    BY <1>3, <2>1, <2>2
<1>9. ASSUME NEW k \in 1..Len(blocks), NEW p, p = Place(blocks[k].anchor, log)
      PROVE  /\ Within(FullText(blocks[k]), lines)
             /\ Len(blocks[k].before) = (IF p > Ctx THEN Ctx ELSE p - 1)
             /\ Len(blocks[k].after) = (IF p + Ctx <= n THEN Ctx ELSE n - p)
  <2>1. p \in 1..Len(lines) /\ blocks[k] = Block(lines, p)
    BY <1>6, <1>7, <1>9
  <2>2. lines[p] = Bare(lines[p].text)
    <3>1. PICK text : lines[p] = Bare(text)
      BY <1>7, <2>1
    <3>2. lines[p].text = text
      BY <3>1 DEF Bare
    <3> QED
      BY <3>1, <3>2
  <2> QED
    BY <1>7, <2>1, <2>2, BlockProperties
<1>10. \A k \in DOMAIN blocks :
         LET at == Place(blocks[k].anchor, log)
         IN  /\ k > 1 => Place(blocks[k - 1].anchor, log) < at
             /\ Within(FullText(blocks[k]), lines)
             /\ Len(blocks[k].before) = (IF at > Ctx THEN Ctx ELSE at - 1)
             /\ Len(blocks[k].after) = (IF at + Ctx <= n THEN Ctx ELSE n - at)
  BY <1>3, <1>6, <1>9
<1> QED
  BY <1>5, <1>8, <1>10 DEF ErrorsFoundOnce, blocks, lines
-----------------------------------------------------------------------------
(* The excerpt *)

TextRun(blocks, f) ==
    /\ f[0] = <<>>
    /\ \A k \in 1..Len(blocks) :
         f[k] = IF k = 1 THEN FullText(blocks[1]) ELSE f[k - 1] \o <<Bare(Empty)>> \o FullText(blocks[k])

\* What BlocksText computes, block by block.
LEMMA TextLoop ==
    ASSUME NEW L, Bare(Empty) \in L, NEW B, NEW blocks \in Seq(B),
           \A k \in 1..Len(blocks) : FullText(blocks[k]) \in Seq(L)
    PROVE  \E f \in [0..Len(blocks) -> Seq(L)] :
             TextRun(blocks, f) /\ BlocksText(blocks) = f[Len(blocks)]
<1> DEFINE n == Len(blocks)
           U == Seq(L)
           base == <<>>
           Step(x, k) == IF k = 1 THEN FullText(blocks[1]) ELSE x \o <<Bare(Empty)>> \o FullText(blocks[k])
           g == [k \in 1..n |-> [x \in U |-> Step(x, k)]]
<1>1. n \in Nat /\ base \in U
  OBVIOUS
<1>2. g \in [1..n -> [U -> U]]
  <2> SUFFICES ASSUME NEW k \in 1..n, NEW x \in U
               PROVE  Step(x, k) \in U
    OBVIOUS
  <2>1. FullText(blocks[k]) \in U /\ <<Bare(Empty)>> \in U
    OBVIOUS
  <2>2. x \o <<Bare(Empty)>> \in U
    BY <2>1, ConcatProperties
  <2>3. (x \o <<Bare(Empty)>>) \o FullText(blocks[k]) \in U
    BY <2>1, <2>2, ConcatProperties
  <2> QED
    BY <2>1, <2>3
<1>3. PICK f \in [0..n -> U] : Runs(n, base, g, f)
  <2> HIDE DEF n, g, base, U
  <2> QED
    BY <1>1, <1>2, LoopExists
<1> DEFINE Body(h) == [k \in 0..n |-> IF k = 0 THEN <<>>
                                     ELSE IF k = 1 THEN FullText(blocks[1])
                                     ELSE h[k - 1] \o <<Bare(Empty)>> \o FullText(blocks[k])]
<1>4. f[0] = <<>> /\ \A k \in 1..n : f[k] = Step(f[k - 1], k)
  <2>1. f[0] = <<>> /\ \A k \in 1..n : f[k] = g[k][f[k - 1]]
    BY <1>3 DEF Runs
  <2>2. \A k \in 1..n : k - 1 \in 0..n
    BY <1>1
  <2>3. \A k \in 1..n : f[k - 1] \in U
    BY <2>2
  <2> HIDE DEF U, Step
  <2> QED
    BY <2>1, <2>3
<1>5. f = Body(f)
  <2>1. f = [k \in 0..n |-> f[k]]
    BY <1>3
  <2>2. \A k \in 0..n : k = 0 \/ k \in 1..n
    BY <1>1
  <2> HIDE DEF Step
  <2>3. \A k \in 0..n : f[k] = IF k = 0 THEN <<>> ELSE Step(f[k - 1], k)
    BY <1>4, <2>2
  <2>4. f = [k \in 0..n |-> IF k = 0 THEN <<>> ELSE Step(f[k - 1], k)]
    BY <2>1, <2>3
  <2> QED
    BY <2>4 DEF Step
<1> DEFINE c == CHOOSE h : h = Body(h)
<1>6. c = Body(c)
  BY <1>5
<1>7. BlocksText(blocks) = c[n]
  BY DEF BlocksText
<1> HIDE DEF c
<1>8. \A k \in 0..n : c[k] = Body(c)[k]
  BY <1>6
<1>9. \A k \in 0..n : c[k] = f[k]
  <2> DEFINE P == {k \in 0..n : c[k] = f[k]}
  <2>1. 0 \in P
    BY <1>1, <1>4, <1>8
  <2>2. ASSUME NEW k \in 1..n, k - 1 \in P
        PROVE  k \in P
    <3>1. k \in 0..n /\ k # 0 /\ c[k - 1] = f[k - 1]
      BY <1>1, <2>2
    <3>2. c[k] = Step(c[k - 1], k)
      BY <1>8, <3>1
    <3> HIDE DEF Step
    <3>3. c[k] = f[k]
      BY <1>4, <3>1, <3>2
    <3> QED
      BY <3>1, <3>3
  <2> HIDE DEF P
  <2>3. \A k \in 0..n : k \in P
    BY <1>1, <2>1, <2>2, Induction
  <2> QED
    BY <2>3 DEF P
<1>10. BlocksText(blocks) = f[n]
  BY <1>1, <1>7, <1>9
<1>11. TextRun(blocks, f)
  BY <1>4 DEF TextRun
<1> QED
  BY <1>3, <1>10, <1>11

\* The text of the blocks begins with the first of them.
LEMMA BlocksTextProperties ==
    ASSUME NEW L, Bare(Empty) \in L, NEW B, NEW blocks \in Seq(B),
           \A k \in 1..Len(blocks) : FullText(blocks[k]) \in Seq(L)
    PROVE  /\ BlocksText(blocks) \in Seq(L)
           /\ blocks = <<>> => BlocksText(blocks) = <<>>
           /\ blocks # <<>> =>
                /\ Len(FullText(blocks[1])) <= Len(BlocksText(blocks))
                /\ \A j \in 1..Len(FullText(blocks[1])) : BlocksText(blocks)[j] = FullText(blocks[1])[j]
<1> DEFINE n == Len(blocks)
           t == FullText(blocks[1])
<1>1. n \in Nat /\ n \in 0..n /\ (blocks = <<>> => n = 0) /\ (blocks # <<>> => n \in 1..n)
  BY EmptySeq
<1>2. PICK f \in [0..Len(blocks) -> Seq(L)] : TextRun(blocks, f) /\ BlocksText(blocks) = f[Len(blocks)]
  BY TextLoop
<1>3. /\ f[0] = <<>>
      /\ \A k \in 1..n :
           f[k] = IF k = 1 THEN t ELSE f[k - 1] \o <<Bare(Empty)>> \o FullText(blocks[k])
  BY <1>2 DEF TextRun
<1>4. \A k \in 1..n : FullText(blocks[k]) \in Seq(L)
  OBVIOUS
<1> DEFINE Begins(k) == Len(t) <= Len(f[k]) /\ \A j \in 1..Len(t) : f[k][j] = t[j]
           P == {k \in 0..n : k > 0 => Begins(k)}
<1>5. 0 \in P
  BY <1>1
<1>6. ASSUME NEW k \in 1..n, k - 1 \in P
      PROVE  k \in P
  <2>1. t \in Seq(L) /\ Len(t) \in Nat
    <3>1. 1 \in 1..n
      BY <1>1
    <3> QED
      BY <1>4, <3>1
  <2>2. CASE k = 1
    <3>1. f[k] = t
      BY <1>3, <2>2
    <3> HIDE DEF t
    <3>2. Begins(k)
      BY <2>1, <3>1
    <3> QED
      BY <1>1, <3>2
  <2>3. CASE k # 1
    <3> DEFINE x == f[k - 1]
               sep == <<Bare(Empty)>>
               y == x \o sep
               z == FullText(blocks[k])
    <3>1. k - 1 \in 0..n /\ k - 1 > 0 /\ Begins(k - 1)
      BY <1>1, <1>6, <2>3
    <3>2. x \in Seq(L) /\ sep \in Seq(L) /\ z \in Seq(L)
      BY <1>4, <3>1
    <3>2a. f[k] = y \o z
      BY <1>3, <2>3
    <3>3. Len(t) <= Len(x) /\ \A j \in 1..Len(t) : x[j] = t[j]
      BY <3>1
    <3> HIDE DEF x, z, t, P
    <3> HIDE DEF sep
    <3>4. /\ y \in Seq(L) /\ Len(y) = Len(x) + Len(sep)
          /\ \A j \in 1..(Len(x) + Len(sep)) : y[j] = IF j <= Len(x) THEN x[j] ELSE sep[j - Len(x)]
      BY <3>2, ConcatProperties
    <3> HIDE DEF y
    <3>5. /\ Len(f[k]) = Len(y) + Len(z)
          /\ \A j \in 1..(Len(y) + Len(z)) : f[k][j] = IF j <= Len(y) THEN y[j] ELSE z[j - Len(y)]
      <4>1. y \in Seq(L) /\ z \in Seq(L)
        BY <3>2, <3>4
      <4>2. /\ Len(y \o z) = Len(y) + Len(z)
            /\ \A j \in 1..(Len(y) + Len(z)) : (y \o z)[j] = IF j <= Len(y) THEN y[j] ELSE z[j - Len(y)]
        BY <4>1, ConcatProperties
      <4> QED
        BY <3>2a, <4>2
    <3>6. Len(x) \in Nat /\ Len(y) \in Nat /\ Len(z) \in Nat /\ Len(sep) \in Nat
      BY <3>2, <3>4
    <3>7. Begins(k)
      <4>1. Len(t) <= Len(f[k])
        BY <2>1, <3>3, <3>4, <3>5, <3>6
      <4>2. ASSUME NEW j \in 1..Len(t)
            PROVE  f[k][j] = t[j]
        <5>1. j \in 1..(Len(y) + Len(z)) /\ j <= Len(y) /\ j \in 1..(Len(x) + Len(sep)) /\ j <= Len(x)
          BY <2>1, <3>3, <3>4, <3>6
        <5>2. f[k][j] = y[j] /\ y[j] = x[j]
          BY <3>4, <3>5, <5>1
        <5> QED
          BY <3>3, <5>2
      <4> QED
        BY <4>1, <4>2
    <3>8. k \in 0..n
      BY <1>1
    <3> QED
      BY <3>7, <3>8 DEF P
  <2> QED
    BY <2>2, <2>3
<1> HIDE DEF P
<1>7. \A k \in 0..n : k \in P
  <2>1. \A k \in 1..n : k - 1 \in P => k \in P
    BY <1>6
  <2> QED
    BY <1>1, <1>5, <2>1, Induction
<1>8. n \in 1..n => Begins(n)
  BY <1>1, <1>7 DEF P
<1>9. BlocksText(blocks) \in Seq(L)
  BY <1>1, <1>2
<1> QED
  BY <1>1, <1>2, <1>3, <1>8, <1>9

-----------------------------------------------------------------------------
(* The end of a log *)

\* Reversed, the end of a sequence is where it starts.
LEMMA Suffix ==
    ASSUME NEW S, NEW s \in Seq(S), NEW e \in Seq(S), Len(e) <= Len(s),
           \A i \in 1..Len(e) : e[i] = s[(Len(s) - Len(e)) + i]
    PROVE  IsSuffix(e, s)
<1> DEFINE re == Reverse(e)
           rs == Reverse(s)
           n  == Len(e)
<1>1. n \in Nat /\ Len(s) \in Nat /\ n <= Len(s)
  OBVIOUS
<1>2. \A i \in 1..n : re[i] = rs[i] /\ rs[i] \in S
  <2> TAKE i \in 1..n
  <2>1. (n - i) + 1 \in 1..n /\ i \in 1..Len(s) /\ (Len(s) - i) + 1 \in 1..Len(s)
    BY <1>1
  <2>2. re[i] = e[(n - i) + 1] /\ rs[i] = s[(Len(s) - i) + 1]
    BY <2>1 DEF Reverse
  <2>3. e[(n - i) + 1] = s[(Len(s) - n) + ((n - i) + 1)]
    BY <2>1
  <2>4. (Len(s) - n) + ((n - i) + 1) = (Len(s) - i) + 1
    BY <1>1
  <2>5. s[(Len(s) - i) + 1] \in S
    BY <2>1, ElementOfSeq
  <2> QED
    BY <2>2, <2>3, <2>4, <2>5
<1>3. Len(re) = n /\ Len(rs) = Len(s)
  <2>1. DOMAIN re = 1..n /\ DOMAIN rs = 1..Len(s)
    BY DEF Reverse
  <2>2. re \in Seq(S) /\ rs \in Seq(S)
    <3>1. \A i \in 1..n : e[(n - i) + 1] \in S
      BY <1>1, ElementOfSeq
    <3>2. \A i \in 1..Len(s) : s[(Len(s) - i) + 1] \in S
      BY <1>1, ElementOfSeq
    <3> QED
      BY <1>1, <3>1, <3>2, IsASeq DEF Reverse
  <2> QED
    BY <1>1, <2>1, <2>2
<1> HIDE DEF re, rs
<1>4. /\ SubSeq(re, 1, n) \in Seq(S) /\ Len(SubSeq(re, 1, n)) = n
      /\ \A i \in 1..n : SubSeq(re, 1, n)[i] = re[i]
  <2>1. \A i \in 1..n : re[i] \in S
    BY <1>2
  <2> QED
    BY <1>1, <2>1, SubSeqProperties
<1>5. /\ SubSeq(rs, 1, n) \in Seq(S) /\ Len(SubSeq(rs, 1, n)) = n
      /\ \A i \in 1..n : SubSeq(rs, 1, n)[i] = rs[i]
  <2>1. \A i \in 1..n : rs[i] \in S
    BY <1>2
  <2> QED
    BY <1>1, <2>1, SubSeqProperties
<1>6. SubSeq(re, 1, n) = SubSeq(rs, 1, n)
  BY <1>2, <1>4, <1>5, SeqEqual
<1>7. IsPrefix(re, rs)
  BY <1>1, <1>3, <1>6 DEF IsPrefix
<1> QED
  BY <1>7 DEF IsSuffix, re, rs

\* The end of a sequence is a suffix of it, and as long as was asked for
\* when anything is missing.
LEMMA EndIsSuffix ==
    ASSUME NEW S, NEW s \in Seq(S), NEW n \in Nat
    PROVE  /\ EndOf(n, s) \in Seq(S)
           /\ IsSuffix(EndOf(n, s), s)
           /\ EndOf(n, s) # s => Len(EndOf(n, s)) >= n
<1> DEFINE e == EndOf(n, s)
<1>1. CASE Len(s) <= n
  <2>1. e = s
    BY <1>1 DEF EndOf
  <2>2. Len(s) \in Nat /\ \A i \in 1..Len(s) : s[i] = s[(Len(s) - Len(s)) + i]
    OBVIOUS
  <2>3. IsSuffix(s, s)
    BY <2>2, Suffix
  <2> QED
    BY <2>1, <2>3
<1>2. CASE Len(s) > n
  <2>1. e = SubSeq(s, Len(s) - n + 1, Len(s))
    BY <1>2 DEF EndOf
  <2> HIDE DEF e
  <2>2. /\ e \in Seq(S) /\ Len(e) = n
        /\ \A i \in 1..n : e[i] = s[(Len(s) - n) + i]
    <3> DEFINE m == Len(s) - n + 1
    <3>1. m \in Nat /\ m >= 1 /\ Len(s) \in Nat /\ Len(s) - m + 1 = n
      BY <1>2
    <3>2. \A i \in m..Len(s) : s[i] \in S
      BY <3>1, ElementOfSeq
    <3>3. /\ SubSeq(s, m, Len(s)) \in Seq(S)
          /\ Len(SubSeq(s, m, Len(s))) = Len(s) - m + 1
          /\ \A i \in 1..(Len(s) - m + 1) : SubSeq(s, m, Len(s))[i] = s[m + i - 1]
      BY <3>1, <3>2, SubSeqProperties
    <3>4. \A i \in 1..n : m + i - 1 = (Len(s) - n) + i
      BY <3>1
    <3> QED
      BY <2>1, <3>1, <3>3, <3>4
  <2>3. IsSuffix(e, s)
    <3>1. Len(e) <= Len(s) /\ \A i \in 1..Len(e) : e[i] = s[(Len(s) - Len(e)) + i]
      BY <1>2, <2>2
    <3> QED
      BY <2>2, <3>1, Suffix
  <2> QED
    BY <2>2, <2>3 DEF e
<1> QED
  BY <1>1, <1>2

(***************************************************************************)
(* What is analysed is the end of the first answer Jenkins gave: for any   *)
(* lines, any answers and any MaxLog, fetch_console_log cuts a log that is *)
(* too long at its start, never at its end; the placeholder is taken only  *)
(* when no attempt was answered.                                           *)
(***************************************************************************)
THEOREM TheEndIsAnalysed ==
    ASSUME NEW S, NEW replies, \A k \in 1..Attempts : replies[k] # NoLog => replies[k] \in Seq(S)
    PROVE  EndIsAnalysed(replies)
<1> DEFINE raw == RawLog(<<>>, replies)
<1>1. CASE Answered(replies) = {}
  <2>1. raw = <<Bare(Unavailable)>>
    BY <1>1 DEF RawLog
  <2>2. \A k \in 1..Attempts : replies[k] = NoLog
    BY <1>1 DEF Answered
  <2> QED
    BY <2>1, <2>2 DEF EndIsAnalysed
<1>2. CASE Answered(replies) # {}
  <2> DEFINE first == CHOOSE k \in Answered(replies) : \A m \in Answered(replies) : k <= m
  <2>1. \E k \in Answered(replies) : \A m \in Answered(replies) : k <= m
    <3>1. Answered(replies) \in SUBSET Nat
      BY DEF Answered, Attempts
    <3> QED
      BY <1>2, <3>1, Least
  <2>2. first \in Answered(replies)
    BY <2>1
  <2>3. raw = EndOf(MaxLog, replies[first])
    BY <1>2 DEF RawLog, FetchConsoleLog
  <2> HIDE DEF first
  <2>4. first \in 1..Attempts /\ replies[first] # NoLog /\ replies[first] \in Seq(S)
    BY <2>2 DEF Answered
  <2>5. MaxLog \in Nat
    BY LogAssumption DEF LogAssumption
  <2>6. /\ EndOf(MaxLog, replies[first]) \in Seq(S)
        /\ IsSuffix(EndOf(MaxLog, replies[first]), replies[first])
        /\ EndOf(MaxLog, replies[first]) # replies[first]
             => Len(EndOf(MaxLog, replies[first])) >= MaxLog
    BY <2>4, <2>5, EndIsSuffix
  <2> QED
    BY <2>3, <2>4, <2>6 DEF EndIsAnalysed, Truncated
<1> QED
  BY <1>1, <1>2


\* Of a log with an error, the first block and where its error is in it.
LEMMA FirstBlock ==
    ASSUME NEW S, NEW log \in Seq(S), Parse(log) # <<>>,
           NEW L, L = {Bare(log[i].text) : i \in 1..Len(log)} \cup {Bare(Empty)}
    PROVE  /\ BlocksText(Parse(log)) \in Seq(L)
           /\ \E j \in 1..(Ctx + 1) : /\ j <= Len(BlocksText(Parse(log)))
                                      /\ BlocksText(Parse(log))[j] = Bare(Parse(log)[1].anchor)
<1> DEFINE n == Len(log)
           blocks == Parse(log)
           lines  == Strip(log)
           text   == BlocksText(blocks)
<1>1. PICK x \in Found(log) : Scanned(log, x, Len(log)) /\ Parse(log) = x.blocks
  BY ParseScanned
<1>2. blocks \in Seq(BlocksOf(log)) /\ Len(blocks) \in Nat /\ 1 \in 1..Len(blocks)
  BY <1>1, EmptySeq DEF Found
<1>3. \A k \in 1..Len(blocks) : \E p \in 1..n : blocks[k] = Block(lines, p)
  BY <1>1 DEF Scanned
<1>4. lines \in Seq({Bare(log[i].text) : i \in 1..Len(log)}) /\ Len(lines) = n /\ \A i \in 1..n : lines[i] = Bare(log[i].text)
  BY StripProperties
<1>5. lines \in Seq(L)
  <2>1. {Bare(log[i].text) : i \in 1..Len(log)} \subseteq L
    OBVIOUS
  <2> QED
    BY <1>4, <2>1, SeqMonotonic
<1> HIDE DEF lines
<1>6. \A p \in 1..n : lines[p] = Bare(lines[p].text)
  <2> SUFFICES ASSUME NEW p \in 1..n
               PROVE  lines[p] = Bare(lines[p].text)
    OBVIOUS
  <2>1. PICK t : lines[p] = Bare(t)
    BY <1>4
  <2>2. lines[p].text = t
    BY <2>1 DEF Bare
  <2> QED
    BY <2>1, <2>2
<1> HIDE DEF blocks
<1>7. ASSUME NEW k \in 1..Len(blocks)
      PROVE  FullText(blocks[k]) \in Seq(L)
  <2>1. PICK p \in 1..n : blocks[k] = Block(lines, p)
    BY <1>3
  <2>2. FullText(Block(lines, p)) \in Seq(L)
    BY <1>4, <1>5, <1>6, BlockProperties
  <2> QED
    BY <2>1, <2>2
<1>8. blocks # <<>> /\ Bare(Empty) \in L
  BY DEF blocks
<1>9. /\ text \in Seq(L)
      /\ Len(FullText(blocks[1])) <= Len(text)
      /\ \A j \in 1..Len(FullText(blocks[1])) : text[j] = FullText(blocks[1])[j]
  BY <1>2, <1>7, <1>8, BlocksTextProperties
<1> HIDE DEF text
<1>10. PICK p \in 1..n : blocks[1] = Block(lines, p)
  BY <1>2, <1>3
<1> DEFINE full == FullText(blocks[1])
           j    == p - From(p) + 1
<1>11. /\ blocks[1].anchor = lines[p].text
       /\ From(p) \in 1..p /\ Upto(p, n) \in p..n /\ p - From(p) <= Ctx
       /\ Len(full) = Upto(p, n) - From(p) + 1
       /\ full[j] = lines[p]
  <2>1. p \in 1..Len(lines) /\ lines[p] = Bare(lines[p].text)
    BY <1>4, <1>6
  <2>2. /\ Block(lines, p).anchor = lines[p].text
        /\ From(p) \in 1..p /\ Upto(p, Len(lines)) \in p..Len(lines) /\ p - From(p) <= Ctx
        /\ Len(FullText(Block(lines, p))) = Upto(p, Len(lines)) - From(p) + 1
        /\ FullText(Block(lines, p))[p - From(p) + 1] = lines[p]
    BY <1>5, <2>1, BlockProperties
  <2> QED
    BY <1>4, <1>10, <2>2
<1> HIDE DEF full
<1>12. n \in Nat /\ Ctx \in Nat /\ Len(text) \in Nat
  BY <1>9, LogAssumption DEF LogAssumption
<1>13. j \in 1..(Ctx + 1) /\ j \in 1..Len(full)
  BY <1>11, <1>12
<1> HIDE DEF j
<1>14. j <= Len(text) /\ text[j] = Bare(blocks[1].anchor)
  <2>1. text[j] = full[j]
    BY <1>9, <1>13 DEF full
  <2>2. Len(full) <= Len(text) /\ Len(full) \in Nat
    BY <1>9, <1>11, <1>12 DEF full
  <2> QED
    BY <1>6, <1>11, <1>12, <1>13, <2>1, <2>2
<1> QED
  BY <1>9, <1>13, <1>14 DEF blocks, text

(***************************************************************************)
(* The error that a build is counted under is in what the classifier       *)
(* reads, however long the log is and however many errors it has: the      *)
(* excerpt is cut at its end, and the first block comes first.             *)
(***************************************************************************)
THEOREM CountedErrorsAreClassified ==
    ASSUME NEW S, NEW log \in Seq(S)
    PROVE  CountedErrorIsClassified(log)
<1> DEFINE blocks == Parse(log)
           text   == BlocksText(blocks)
           tail   == EndOf(TailLen, log)
           L      == {Bare(log[i].text) : i \in 1..Len(log)} \cup {Bare(Empty)}
           whole  == IF ~Within(tail, text) THEN text \o tail ELSE text
           cut    == StartOf(ExcerptCap, whole)
<1>1. SUFFICES ASSUME blocks # <<>>, Hits(Bare(blocks[1].anchor)) # <<>>
               PROVE  Primary(log).category # "unknown"
  BY DEF CountedErrorIsClassified
<1>2. /\ text \in Seq(L)
      /\ \E j \in 1..(Ctx + 1) : j <= Len(text) /\ text[j] = Bare(blocks[1].anchor)
  BY <1>1, FirstBlock
<1>3. PICK j \in 1..(Ctx + 1) : j <= Len(text) /\ text[j] = Bare(blocks[1].anchor)
  BY <1>2
<1>4. Ctx \in Nat /\ ExcerptCap \in Nat /\ TailLen \in Nat /\ Ctx + 1 <= ExcerptCap
  BY LogAssumption DEF LogAssumption
<1>5. tail \in Seq(S)
  BY <1>4, EndIsSuffix
<1>6. Excerpt(log) = cut
  <2>1. text # <<>>
    <3>1. Len(text) # 0
      BY <1>2, <1>3, <1>4
    <3> HIDE DEF text
    <3> QED
      BY <3>1, EmptySeq
  <2> QED
    BY <2>1 DEF Excerpt
<1> HIDE DEF blocks, text, tail, L
<1>7. whole \in Seq(L \cup S) /\ Len(text) \in Nat /\ Len(text) <= Len(whole) /\ whole[j] = text[j]
  <2>1. text \in Seq(L \cup S) /\ tail \in Seq(L \cup S) /\ Len(text) \in Nat /\ Len(tail) \in Nat
    BY <1>2, <1>5, SeqMonotonic
  <2>2. j \in 1..Len(text)
    BY <1>3, <1>4, <2>1
  <2>2a. whole = text \/ whole = text \o tail
    OBVIOUS
  <2> HIDE DEF whole
  <2>3. CASE whole = text
    BY <2>1, <2>3
  <2>4. CASE whole = text \o tail
    <3>1. /\ text \o tail \in Seq(L \cup S) /\ Len(text \o tail) = Len(text) + Len(tail)
          /\ \A i \in 1..(Len(text) + Len(tail)) :
               (text \o tail)[i] = IF i <= Len(text) THEN text[i] ELSE tail[i - Len(text)]
      BY <2>1, ConcatProperties
    <3>2. j \in 1..(Len(text) + Len(tail)) /\ j <= Len(text)
      BY <2>1, <2>2
    <3> QED
      BY <2>1, <2>4, <3>1, <3>2
  <2> QED
    BY <2>2a, <2>3, <2>4
<1> HIDE DEF whole
<1>8. /\ cut \in Seq(L \cup S)
      /\ Len(cut) = IF Len(whole) < ExcerptCap THEN Len(whole) ELSE ExcerptCap
      /\ \A i \in 1..Len(whole) : i <= ExcerptCap => cut[i] = whole[i]
  BY <1>4, <1>7, StartOfProperties
<1> HIDE DEF cut
<1>9. j \in 1..Len(cut) /\ cut[j] = Bare(blocks[1].anchor)
  <2>1. Len(whole) \in Nat /\ j \in 1..Len(whole) /\ j <= ExcerptCap
    BY <1>3, <1>4, <1>7
  <2>2. cut[j] = whole[j]
    BY <1>8, <2>1
  <2>3. j \in 1..Len(cut)
    BY <1>4, <1>8, <2>1
  <2> QED
    BY <1>3, <1>7, <2>2, <2>3
<1>10. Types(cut) \in Seq(RuleKind) /\ Types(cut) # <<>>
  BY <1>1, <1>8, <1>9, TypesProperties
<1>11. cut # <<>>
  BY <1>8, <1>9, EmptySeq
<1>12. Primary(log) = Classify(cut)[1]
  BY <1>6, <1>11 DEF Primary
<1> DEFINE types == Types(cut)
<1> HIDE DEF types
<1>13. 1 \in DOMAIN types /\ types[1] \in RuleKind
  <2>1. Len(types) \in Nat /\ Len(types) # 0 /\ DOMAIN types = 1..Len(types)
    BY <1>10, EmptySeq DEF types
  <2>2. 1 \in 1..Len(types)
    BY <2>1
  <2> QED
    BY <1>10, <2>1, <2>2, ElementOfSeq DEF types
<1>14. Classify(cut)[1].category = types[1]
  BY <1>10, <1>13 DEF Classify, types
<1> QED
  BY <1>12, <1>13, <1>14 DEF RuleKind

-----------------------------------------------------------------------------
(* The answer *)

(***************************************************************************)
(* Whatever the models reply, the answer has a summary, at most three      *)
(* strings as suggestions and the severity of the category.                *)
(***************************************************************************)
LEMMA AdoptedSound ==
    ASSUME NEW category, NEW reply \in Reply
    PROVE  LET answer == Adopt(reply, category)
           IN  /\ answer.summary_text # NoText
               /\ answer.fix_suggestions \in Seq(Text \cup {NoText})
               /\ Len(answer.fix_suggestions) <= 3
               /\ answer.severity = Severity(category)
<1> DEFINE keep == {k \in DOMAIN reply.fixes : IsText(reply.fixes[k])}
           kept == Kept(reply.fixes, keep)
           answer == Adopt(reply, category)
           String == Text \cup {NoText}
<1>1. reply.fixes \in Seq(Text \cup {NoText, Junk})
  BY DEF Reply
<1>2. \A k \in 1..Len(reply.fixes) : k \in keep => reply.fixes[k] \in String
  BY DEF IsText
<1>3. answer.fix_suggestions = StartOf(3, kept) /\ answer.severity = Severity(category)
      /\ answer.summary_text = IF reply.summary = NoText THEN FallbackSummary(category) ELSE reply.summary
  BY DEF Adopt, Answer
<1> HIDE DEF keep, String
<1>4. kept \in Seq(String)
  BY <1>1, <1>2, KeptElements
<1> HIDE DEF kept
<1>5. StartOf(3, kept) \in Seq(String) /\ Len(StartOf(3, kept)) <= 3
  <2>1. 3 \in Nat
    OBVIOUS
  <2>2. /\ StartOf(3, kept) \in Seq(String)
        /\ Len(StartOf(3, kept)) = IF Len(kept) < 3 THEN Len(kept) ELSE 3
    BY <1>4, <2>1, StartOfProperties
  <2>3. Len(kept) \in Nat
    BY <1>4
  <2>4. Len(StartOf(3, kept)) <= 3
    <3> DEFINE u == Len(StartOf(3, kept))
               v == Len(kept)
    <3>1. v \in Nat /\ u = IF v < 3 THEN v ELSE 3
      BY <2>2, <2>3
    <3> HIDE DEF u, v
    <3>2. u <= 3
      BY <3>1
    <3> QED
      BY <3>2 DEF u
  <2> QED
    BY <2>2, <2>4
<1>6. FallbackSummary(category) # NoText
  <2>1. Known(category) \in Category
    BY DEF Known, Category
  <2> QED
    BY <2>1, RootCauseAssumption DEF RootCauseAssumption, FallbackSummary
<1> QED
  BY <1>3, <1>5, <1>6 DEF String

(***************************************************************************)
(* Without a usable reply of either model, the templates of root_cause.py  *)
(* answer: a summary that is not empty, one to three suggestions, the fix  *)
(* of the most similar failure first, and a severity of the category, for  *)
(* any matches and any category.                                           *)
(***************************************************************************)
THEOREM TemplatesAnswerForTheModels ==
    ASSUME NEW category, NEW matches, matches # <<>> => matches[1] \in Text \cup {NoText}, NEW groq, NEW anthropic,
           ~GroqSays(groq), ~AnthropicSays(anthropic)
    PROVE  AnswerSound(category, matches, groq, anthropic)
<1> DEFINE kind     == Known(category)
           template == FixTemplate[kind]
           advised  == IF matches # <<>> /\ matches[1] # NoText THEN <<matches[1]>> \o template
                       ELSE template
           fixes    == StartOf(3, advised)
<1>1. kind \in Category
  BY DEF Known, Category
<1>2. template \in [1..3 -> Text] /\ SummaryTemplate[kind] \in Text /\ NoText \notin Text
  BY <1>1, RootCauseAssumption DEF RootCauseAssumption
<1> HIDE DEF kind
<1>3. template \in Seq(Text) /\ Len(template) = 3
  <2>1. DOMAIN template = 1..3 /\ \A i \in 1..3 : template[i] \in Text
    BY <1>2
  <2>2. template = [i \in 1..3 |-> template[i]]
    BY <1>2
  <2>3. template \in Seq(Text)
    BY <2>1, <2>2, IsASeq
  <2> HIDE DEF template
  <2>4. Len(template) \in Nat /\ DOMAIN template = 1..Len(template)
    BY <2>3
  <2>5. Len(template) = 3
    BY <2>1, <2>4
  <2> QED
    BY <2>3, <2>5
<1>4. /\ advised \in Seq(Text) /\ Len(advised) \in Nat /\ Len(advised) >= 3
      /\ matches # <<>> /\ matches[1] # NoText => advised[1] = matches[1]
  <2>1. CASE matches # <<>> /\ matches[1] # NoText
    <3>1. matches[1] \in Text
      <4>1. matches[1] \in Text \cup {NoText}
        BY <2>1
      <4> QED
        BY <2>1, <4>1
    <3> DEFINE m == matches[1]
               t == template
    <3> HIDE DEF m, t
    <3>2. m \in Text /\ t \in Seq(Text) /\ Len(t) = 3
      BY <1>3, <3>1 DEF m, t
    <3>3. <<m>> \o t \in Seq(Text) /\ Len(<<m>> \o t) = 4 /\ (<<m>> \o t)[1] = m
      <4>1. <<m>> \in Seq(Text) /\ Len(<<m>>) = 1 /\ <<m>>[1] = m
        BY <3>2
      <4>2. <<m>> \o t \in Seq(Text)
        BY <3>2, <4>1
      <4>2a. Len(<<m>> \o t) = Len(<<m>>) + Len(t)
        BY <3>2, <4>1, ConcatProperties
      <4>2b. Len(<<m>> \o t) = 4
        BY <3>2, <4>1, <4>2a
      <4>3. (<<m>> \o t)[1] = m
        BY <3>2, <4>1, ConcatProperties
      <4> QED
        BY <4>2, <4>2b, <4>3
    <3> QED
      BY <2>1, <3>3 DEF m, t
  <2>2. CASE ~(matches # <<>> /\ matches[1] # NoText)
    <3>1. advised = template
      BY <2>2
    <3> HIDE DEF advised, template
    <3> QED
      BY <1>3, <2>2, <3>1
  <2> QED
    BY <2>1, <2>2
<1>5. fixes = SubSeq(advised, 1, 3)
  BY <1>4 DEF StartOf
<1> HIDE DEF advised
<1>6. fixes \in Seq(Text) /\ Len(fixes) = 3 /\ fixes[1] = advised[1]
  BY <1>4, <1>5
<1>7. Analyse(category, matches, groq, anthropic) = Answer(SummaryTemplate[kind], fixes, category)
  BY DEF Analyse, FallbackSummary, FallbackFixes, kind, advised
<1> HIDE DEF fixes
<1>8. fixes # <<>>
  BY <1>6
<1> DEFINE answer == Analyse(category, matches, groq, anthropic)
<1>9. /\ answer.summary_text = SummaryTemplate[kind] /\ answer.fix_suggestions = fixes
      /\ answer.severity = Severity(category)
  BY <1>7 DEF Answer
<1>10. SummaryTemplate[kind] # NoText
  BY <1>2
<1> HIDE DEF answer
<1>11. Len(fixes) <= 3
  BY <1>6
<1>12. fixes \in Seq(Text \cup {NoText})
  BY <1>6, SeqMonotonic
<1> QED
  BY <1>2, <1>4, <1>6, <1>8, <1>9, <1>10, <1>11, <1>12 DEF AnswerSound, answer

(***************************************************************************)
(* Whatever the two models reply, if they are asked at all: the answer has *)
(* a summary, at most three suggestions, all of them strings, and the      *)
(* severity of the kind of error; without a usable reply it is that of the *)
(* templates.                                                              *)
(***************************************************************************)
THEOREM AnyReplyIsAnswered ==
    ASSUME NEW category, NEW matches, matches # <<>> => matches[1] \in Text \cup {NoText},
           NEW groq, groq # NotAsked => groq \in Reply,
           NEW anthropic, anthropic # NotAsked => anthropic \in Reply
    PROVE  AnswerSound(category, matches, groq, anthropic)
<1>1. CASE GroqSays(groq)
  <2>1. groq \in Reply
    BY <1>1 DEF GroqSays
  <2>2. Analyse(category, matches, groq, anthropic) = Adopt(groq, category)
    BY <1>1 DEF Analyse
  <2> QED
    BY <1>1, <2>1, <2>2, AdoptedSound DEF AnswerSound
<1>2. CASE ~GroqSays(groq) /\ AnthropicSays(anthropic)
  <2>1. anthropic \in Reply
    BY <1>2 DEF AnthropicSays
  <2>2. Analyse(category, matches, groq, anthropic) = Adopt(anthropic, category)
    BY <1>2 DEF Analyse
  <2> QED
    BY <1>2, <2>1, <2>2, AdoptedSound DEF AnswerSound
<1>3. CASE ~GroqSays(groq) /\ ~AnthropicSays(anthropic)
  BY <1>3, TemplatesAnswerForTheModels
<1> QED
  BY <1>1, <1>2, <1>3

-----------------------------------------------------------------------------
(* What every analysis has worked out *)

(***************************************************************************)
(* An analysis works on the end of what Jenkins sent and finds every error *)
(* of it, for any logs and any answers (fetch_console_log, parse).         *)
(***************************************************************************)
THEOREM EveryErrorIsFound == Spec => []EveryErrorFound
<1>1. ASSUME NEW replies \in [1..Attempts -> Served]
      PROVE  EndIsAnalysed(replies)
  <2>1. \A k \in 1..Attempts : replies[k] # NoLog => replies[k] \in Seq(Line)
    BY DiagnosisAssumption DEF DiagnosisAssumption
  <2> QED
    BY <2>1, TheEndIsAnalysed
<1>2. ASSUME NEW log \in Logs
      PROVE  ErrorsFoundOnce(log)
  BY DiagnosisAssumption, ErrorsAreFoundOnce DEF DiagnosisAssumption
<1>3. EveryErrorFound
  BY <1>1, <1>2 DEF EveryErrorFound, EndsAreAnalysed, ErrorsAreFound
<1> QED
  BY <1>3, PTL

(***************************************************************************)
(* No analysis reports a build as unknown whose counted error a rule knows *)
(* (the excerpt of _process_async, classify).                              *)
(***************************************************************************)
THEOREM EveryErrorIsClassified == Spec => []EveryErrorClassified
<1>1. ASSUME NEW log \in Logs
      PROVE  CountedErrorIsClassified(log)
  BY DiagnosisAssumption, CountedErrorsAreClassified DEF DiagnosisAssumption
<1>2. EveryErrorClassified
  BY <1>1 DEF EveryErrorClassified, ErrorsAreClassified
<1> QED
  BY <1>2, PTL

(***************************************************************************)
(* Every analysis has an answer, and offers the resolution of the most     *)
(* similar failure, for any history and any replies (find_similar,         *)
(* analyse).                                                               *)
(***************************************************************************)
THEOREM EveryAnswerIsSound == Spec => []EveryAnswerSound
<1> DEFINE Record == [similarity : Nat, resolution : Text \cup {NoText}]
<1>1. ASSUME NEW records \in Records
      PROVE  /\ BestMatchFirst(records)
             /\ FindSimilar(records) \in Seq(Record)
  <2>1. records \in Seq(Record)
    BY DiagnosisAssumption DEF DiagnosisAssumption
  <2>2. \A k \in 1..Len(records) : records[k].similarity \in Nat
    <3> SUFFICES ASSUME NEW k \in 1..Len(records)
                 PROVE  records[k].similarity \in Nat
      OBVIOUS
    <3>1. records[k] \in Record
      BY <2>1, ElementOfSeq
    <3> QED
      BY <3>1
  <2> HIDE DEF Record
  <2> QED
    BY <2>1, <2>2, FindSimilarProperties
<1>2. ASSUME NEW records \in Records, Resolutions(FindSimilar(records)) # <<>>
      PROVE  Resolutions(FindSimilar(records))[1] \in Text \cup {NoText}
  <2> DEFINE found == FindSimilar(records)
  <2>1. found \in Seq(Record)
    BY <1>1
  <2> HIDE DEF found
  <2>2. found # <<>>
    <3>1. SUFFICES ASSUME found = <<>>
                   PROVE  Resolutions(found) = <<>>
      BY <1>2 DEF found
    <3>2. DOMAIN found = {}
      BY <3>1
    <3> QED
      BY <3>2 DEF Resolutions
  <2>3. 1 \in 1..Len(found) /\ DOMAIN found = 1..Len(found)
    BY <2>1, <2>2, EmptySeq
  <2>4. found[1] \in Record
    BY <2>1, <2>3, ElementOfSeq
  <2>5. found[1].resolution \in Text \cup {NoText}
    BY <2>4
  <2>6. Resolutions(found)[1] = found[1].resolution
    BY <2>3 DEF Resolutions
  <2> QED
    BY <2>5, <2>6 DEF found
<1>3. ASSUME NEW category \in Kinds, NEW groq \in Replies, NEW anthropic \in Replies,
             NEW records \in Records
      PROVE  AnswerSound(category, Resolutions(FindSimilar(records)), groq, anthropic)
  <2>1. (groq # NotAsked => groq \in Reply) /\ (anthropic # NotAsked => anthropic \in Reply)
    BY DiagnosisAssumption DEF DiagnosisAssumption
  <2> QED
    BY <1>2, <2>1, AnyReplyIsAnswered
<1>4. EveryAnswerSound
  BY <1>1, <1>3 DEF EveryAnswerSound, BestMatchesAreFirst, AnswersAreSound
<1> QED
  BY <1>4, PTL
====
