--------------------------- MODULE MetricsHistory ---------------------------
(***************************************************************************)
(* The table system_metrics and the two that write it: the Celery task     *)
(* collect_system_metrics (scheduler.py), which adds a row and removes     *)
(* what is over the limit, and GET /ui/metrics/live (routers/ui.py), which *)
(* every open dashboard polls and which adds a row when it thinks the last *)
(* one is thirty seconds old.  Rows are known by their place in time.      *)
(***************************************************************************)
EXTENDS Naturals, FiniteSets

CONSTANTS Poll,        \* requests to /ui/metrics/live that are served at the same time
          Collector,   \* Celery workers
          Keep,        \* rows to keep
          MaxRows      \* bound: rows ever written

ASSUME MetricsAssumption ==
    /\ IsFiniteSet(Poll)
    /\ Keep \in Nat \ {0}
    /\ MaxRows \in Nat

VARIABLES rows,      \* committed rows
          written,   \* rows ever inserted
          fresh,     \* _metrics_last_persisted is less than thirty seconds old
          poll,      \* requests: "idle", or past the check of fresh
          task,      \* collectors: where they are, their own row, what they read
          burst,     \* rows of live requests since fresh last expired
          unseen     \* rows of live requests that the last collector's count missed

histVars == <<rows, written, fresh, poll, task, burst, unseen>>

NoTask == [pc |-> "idle", own |-> 0, count |-> 0, old |-> {}, late |-> 0]

Row == 1..MaxRows

HistTypeOK ==
    /\ rows \subseteq Row
    /\ written \in 0..MaxRows
    /\ fresh \in BOOLEAN
    /\ poll \in [Poll -> {"idle", "persist"}]
    /\ task \in [Collector -> [pc : {"idle", "select", "commit"}, own : 0..MaxRows,
                               count : 0..MaxRows, old : SUBSET Row, late : 0..MaxRows]]
    /\ burst \in 0..MaxRows
    /\ unseen \in 0..MaxRows

HistInit ==
    /\ rows = {}
    /\ written = 0
    /\ fresh = FALSE
    /\ poll = [p \in Poll |-> "idle"]
    /\ task = [k \in Collector |-> NoTask]
    /\ burst = 0
    /\ unseen = 0

\* The n oldest of a set of rows.
Oldest(n, set) == {r \in set : Cardinality({s \in set : s < r}) < n}

-----------------------------------------------------------------------------
(* GET /ui/metrics/live *)

(***************************************************************************)
(* The global is read after the queries of the snapshot and before those   *)
(* of the insert.  The rows over the limit are read, but session.delete is *)
(* a coroutine that nobody awaits: none is removed.                        *)
(***************************************************************************)
CheckThrottle(p) ==
    /\ poll[p] = "idle" /\ ~fresh
    /\ poll' = [poll EXCEPT ![p] = "persist"]
    /\ UNCHANGED <<rows, written, fresh, task, burst, unseen>>

\* Mutant of Persist: the time of the row is not remembered.
Persist_Forgets(p) ==
    /\ poll[p] = "persist" /\ written < MaxRows
    /\ rows' = rows \cup {written + 1}
    /\ written' = written + 1
    /\ poll' = [poll EXCEPT ![p] = "idle"]
    /\ task' = [k \in Collector |-> IF task[k].pc = "idle" THEN task[k]
                                   ELSE [task[k] EXCEPT !.late = @ + 1]]
    /\ burst' = burst + 1
    /\ unseen' = unseen + 1
    /\ UNCHANGED fresh

Persist(p) ==
    /\ poll[p] = "persist" /\ written < MaxRows
    /\ rows' = rows \cup {written + 1}
    /\ written' = written + 1
    /\ fresh' = TRUE
    /\ poll' = [poll EXCEPT ![p] = "idle"]
    /\ task' = [k \in Collector |-> IF task[k].pc = "idle" THEN task[k]
                                   ELSE [task[k] EXCEPT !.late = @ + 1]]
    /\ burst' = burst + 1
    /\ unseen' = unseen + 1

\* A database error is swallowed.
PersistFails(p) ==
    /\ poll[p] = "persist"
    /\ poll' = [poll EXCEPT ![p] = "idle"]
    /\ UNCHANGED <<rows, written, fresh, task, burst, unseen>>

ThrottleExpires ==
    /\ fresh
    /\ fresh' = FALSE
    /\ burst' = 0
    /\ UNCHANGED <<rows, written, poll, task, unseen>>

-----------------------------------------------------------------------------
(* collect_system_metrics *)

(***************************************************************************)
(* The new row is flushed and counted with the others ...                  *)
(***************************************************************************)
InsertAndCount(k) ==
    /\ task[k].pc = "idle" /\ written < MaxRows
    /\ written' = written + 1
    /\ task' = [task EXCEPT ![k] =
         [NoTask EXCEPT !.pc = IF Cardinality(rows) + 1 > Keep THEN "select" ELSE "commit",
                        !.own = written + 1, !.count = Cardinality(rows) + 1]]
    /\ UNCHANGED <<rows, fresh, poll, burst, unseen>>

\* Mutant of SelectOld: the rows are read in the wrong order.
SelectOld_Newest(k) ==
    LET all == rows \cup {task[k].own}
    IN  /\ task[k].pc = "select"
        /\ task' = [task EXCEPT ![k].pc = "commit", ![k].old = all \ Oldest(Keep, all)]
        /\ UNCHANGED <<rows, written, fresh, poll, burst, unseen>>

\* Mutant of SelectOld: it misses the row the task itself has added.
SelectOld_OffByOne(k) ==
    /\ task[k].pc = "select"
    /\ task' = [task EXCEPT ![k].pc = "commit",
                            ![k].old = Oldest(task[k].count - Keep - 1, rows \cup {task[k].own})]
    /\ UNCHANGED <<rows, written, fresh, poll, burst, unseen>>

(***************************************************************************)
(* ... so many of the oldest as that count was over the limit are read     *)
(* again ...                                                               *)
(***************************************************************************)
SelectOld(k) ==
    /\ task[k].pc = "select"
    /\ task' = [task EXCEPT ![k].pc = "commit",
                            ![k].old = Oldest(task[k].count - Keep, rows \cup {task[k].own})]
    /\ UNCHANGED <<rows, written, fresh, poll, burst, unseen>>

(***************************************************************************)
(* ... and deleted by id, in the transaction of the insert.                *)
(***************************************************************************)
DeleteAndCommit(k) ==
    /\ task[k].pc = "commit"
    /\ rows' = (rows \cup {task[k].own}) \ task[k].old
    /\ unseen' = task[k].late
    /\ task' = [task EXCEPT ![k] = NoTask]
    /\ UNCHANGED <<written, fresh, poll, burst>>

\* An error or the end of the process rolls everything back.
CollectorDies(k) ==
    /\ task[k].pc # "idle"
    /\ task' = [task EXCEPT ![k] = NoTask]
    /\ UNCHANGED <<rows, written, fresh, poll, burst, unseen>>

HistNext ==
    \/ \E p \in Poll : CheckThrottle(p) \/ Persist(p) \/ PersistFails(p)
    \/ ThrottleExpires
    \/ \E k \in Collector : InsertAndCount(k) \/ SelectOld(k) \/ DeleteAndCommit(k) \/ CollectorDies(k)

-----------------------------------------------------------------------------
(* Properties *)

(***************************************************************************)
(* The limit of scheduler.py, "keep only last 1000": with one collector at *)
(* work the history holds the rows to keep and what live requests have     *)
(* added since the collector counted.                                      *)
(***************************************************************************)
HistoryBounded == Cardinality(rows) <= Keep + unseen

(***************************************************************************)
(* A row that is removed leaves at least as many newer ones as are to be   *)
(* kept, although the rows are counted, read and deleted one after the     *)
(* other while live requests add more.                                     *)
(***************************************************************************)
NewestKept ==
    [][\A r \in rows \ rows' : Cardinality({s \in rows' : s > r}) >= Keep]_histVars

(***************************************************************************)
(* The throttle of the live endpoint, which is checked before the queries  *)
(* and set after them, lets through one row per request served at a time   *)
(* until it expires, however often the dashboards poll.                    *)
(***************************************************************************)
ThrottleHolds == burst <= Cardinality(Poll)
=============================================================================
