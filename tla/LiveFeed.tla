------------------------------ MODULE LiveFeed ------------------------------
(***************************************************************************)
(* The event stream of the dashboard: /ui/stream in routers/ui.py and the  *)
(* registry of clients in scheduler.py, fed by _scheduler_loop of main.py  *)
(* after every scheduler tick.                                             *)
(*                                                                         *)
(* All of it runs on one event loop: what lies between two awaits is one   *)
(* step.  Nothing is awaited inside _sse_lock or between the snapshot of   *)
(* the clients and the puts, so registering, unregistering and             *)
(* broadcasting are one step each.                                         *)
(***************************************************************************)
EXTENDS Naturals, FiniteSets, Sequences

CONSTANTS Stream,       \* connections; a browser that reconnects opens another one
          QueueLimit,   \* maxsize of a client's queue
          MaxTicks      \* bound: scheduler ticks

ASSUME LiveFeedAssumption ==
    /\ QueueLimit \in Nat \ {0}
    /\ MaxTicks \in Nat

VARIABLES ticks,     \* scheduler ticks so far; a message is the number of its tick
          clients,   \* _sse_clients
          queue,     \* the queue of every connection
          gen,       \* where its event_generator is
          message,   \* msg, 0 for a ping or nothing
          peer,      \* the browser's side
          shown,     \* the last tick the browser has seen
          lost       \* connections for which a tick was dropped

feedVars == <<ticks, clients, queue, gen, message, peer, shown, lost>>

-----------------------------------------------------------------------------
FeedTypeOK ==
    /\ ticks \in 0..MaxTicks
    /\ clients \subseteq Stream
    /\ queue \in [Stream -> Seq(1..MaxTicks)]
    /\ \A c \in Stream : Len(queue[c]) <= QueueLimit
    /\ gen \in [Stream -> {"none", "created", "check", "wait", "send", "over", "dropped"}]
    /\ message \in [Stream -> 0..MaxTicks]
    /\ peer \in [Stream -> {"away", "here", "gone"}]
    /\ shown \in [Stream -> 0..MaxTicks]
    /\ lost \subseteq Stream

FeedInit ==
    /\ ticks = 0
    /\ clients = {}
    /\ queue = [c \in Stream |-> <<>>]
    /\ gen = [c \in Stream |-> "none"]
    /\ message = [c \in Stream |-> 0]
    /\ peer = [c \in Stream |-> "away"]
    /\ shown = [c \in Stream |-> 0]
    /\ lost = {}

Goes(c, from, to) == gen[c] = from /\ gen' = [gen EXCEPT ![c] = to]

-----------------------------------------------------------------------------
(* The scheduler loop *)

Room(c) == Len(queue[c]) < QueueLimit

\* Mutant of Tick: the loop waits for room in every queue.
Tick_Blocking ==
    /\ ticks < MaxTicks
    /\ \A c \in clients : Room(c)
    /\ ticks' = ticks + 1
    /\ queue' = [c \in Stream |-> IF c \in clients THEN Append(queue[c], ticks + 1) ELSE queue[c]]
    /\ UNCHANGED <<clients, gen, message, peer, shown, lost>>

\* Mutant of Tick: a queue without a limit.
Tick_Unbounded ==
    /\ ticks < MaxTicks
    /\ ticks' = ticks + 1
    /\ queue' = [c \in Stream |-> IF c \in clients THEN Append(queue[c], ticks + 1) ELSE queue[c]]
    /\ UNCHANGED <<clients, gen, message, peer, shown, lost>>

\* Mutant of Tick: the new message goes to the front.
Tick_Unordered ==
    /\ ticks < MaxTicks
    /\ ticks' = ticks + 1
    /\ queue' = [c \in Stream |-> IF c \in clients /\ Room(c) THEN <<ticks + 1>> \o queue[c]
                                  ELSE queue[c]]
    /\ lost' = lost \cup {c \in clients : ~Room(c)}
    /\ UNCHANGED <<clients, gen, message, peer, shown>>

(***************************************************************************)
(* A tick that ends without an exception is broadcast.  A full queue drops *)
(* the new message.                                                        *)
(***************************************************************************)
Tick ==
    /\ ticks < MaxTicks
    /\ ticks' = ticks + 1
    /\ queue' = [c \in Stream |-> IF c \in clients /\ Room(c) THEN Append(queue[c], ticks + 1)
                                  ELSE queue[c]]
    /\ lost' = lost \cup {c \in clients : ~Room(c)}
    /\ UNCHANGED <<clients, gen, message, peer, shown>>

-----------------------------------------------------------------------------
(* A connection *)

\* sse_stream: the queue is registered before the generator has started.
Connect(c) ==
    /\ Goes(c, "none", "created")
    /\ peer' = [peer EXCEPT ![c] = "here"]
    /\ clients' = clients \cup {c}
    /\ UNCHANGED <<ticks, queue, message, shown, lost>>

\* The response asks for its first event, "connected".
Begin(c) ==
    /\ Goes(c, "created", "send")
    /\ UNCHANGED <<ticks, clients, queue, message, peer, shown, lost>>

\* The response is cancelled before that: the generator has not entered its
\* try, and its finally never runs.
NeverBegins(c) ==
    /\ peer[c] = "gone"
    /\ Goes(c, "created", "dropped")
    /\ UNCHANGED <<ticks, clients, queue, message, peer, shown, lost>>

Unregister(c) ==
    /\ clients' = clients \ {c}
    /\ message' = [message EXCEPT ![c] = 0]
    /\ UNCHANGED <<ticks, queue, peer, shown, lost>>

\* Mutant of CheckPeer: leaving the loop does not unregister the queue.
CheckPeer_Leaks(c) ==
    /\ IF peer[c] = "gone" THEN Goes(c, "check", "over") ELSE Goes(c, "check", "wait")
    /\ UNCHANGED <<ticks, clients, queue, message, peer, shown, lost>>

\* request.is_disconnected()
CheckPeer(c) ==
    \/ /\ peer[c] = "gone"
       /\ Goes(c, "check", "over")
       /\ Unregister(c)
    \/ /\ peer[c] # "gone"
       /\ Goes(c, "check", "wait")
       /\ UNCHANGED <<ticks, clients, queue, message, peer, shown, lost>>

\* queue.get(), or a ping after fifteen seconds without a message.
NextMessage(c) ==
    /\ Goes(c, "wait", "send")
    /\ message' = [message EXCEPT ![c] = IF queue[c] = <<>> THEN 0 ELSE Head(queue[c])]
    /\ queue' = [queue EXCEPT ![c] = IF @ = <<>> THEN @ ELSE Tail(@)]
    /\ UNCHANGED <<ticks, clients, peer, shown, lost>>

\* The browser takes what was yielded; one that does not read keeps the
\* generator waiting.
Reads(c) ==
    /\ peer[c] = "here"
    /\ Goes(c, "send", "check")
    /\ shown' = [shown EXCEPT ![c] = IF message[c] = 0 THEN @ ELSE message[c]]
    /\ message' = [message EXCEPT ![c] = 0]
    /\ UNCHANGED <<ticks, clients, queue, peer, lost>>

\* What is sent to a connection that is gone goes nowhere.
SendsToNobody(c) ==
    /\ peer[c] = "gone"
    /\ Goes(c, "send", "check")
    /\ message' = [message EXCEPT ![c] = 0]
    /\ UNCHANGED <<ticks, clients, queue, peer, shown, lost>>

Leaves(c) ==
    /\ peer[c] = "here"
    /\ peer' = [peer EXCEPT ![c] = "gone"]
    /\ UNCHANGED <<ticks, clients, queue, gen, message, shown, lost>>

\* The server may notice first and cancel the generator where it stands.
Cancelled(c) ==
    /\ peer[c] = "gone"
    /\ \E pc \in {"check", "wait", "send"} : Goes(c, pc, "over")
    /\ Unregister(c)

EventGenerator(c) == Begin(c) \/ CheckPeer(c) \/ NextMessage(c) \/ SendsToNobody(c)

FeedNext ==
    \/ Tick
    \/ \E c \in Stream : \/ Connect(c) \/ NeverBegins(c) \/ EventGenerator(c)
                         \/ Reads(c) \/ Leaves(c) \/ Cancelled(c)

(***************************************************************************)
(* The event loop runs what can run.  Nobody promises that a browser reads *)
(* or stays.                                                               *)
(***************************************************************************)
FeedFairness ==
    /\ WF_feedVars(Tick)
    /\ \A c \in Stream : WF_feedVars(EventGenerator(c))

-----------------------------------------------------------------------------
(* Properties *)

OnTheWay(c) == (IF shown[c] = 0 THEN <<>> ELSE <<shown[c]>>)
               \o (IF message[c] = 0 THEN <<>> ELSE <<message[c]>>) \o queue[c]

(***************************************************************************)
(* What a browser shows, what is being sent to it and what waits for it    *)
(* are ticks in their order, each once; only a full queue loses one, and   *)
(* without that there is no gap and the present tick is there.             *)
(***************************************************************************)
FeedInOrder ==
    \A c \in clients : peer[c] = "here" =>
      LET s == OnTheWay(c)
      IN  /\ \A i \in 1..(Len(s) - 1) : s[i] < s[i + 1]
          /\ s # <<>> /\ c \notin lost =>
               /\ s[Len(s)] = ticks
               /\ \A i \in 1..(Len(s) - 1) : s[i + 1] = s[i] + 1

(***************************************************************************)
(* A browser that stops reading holds up nobody: the scheduler's ticks go  *)
(* on whatever the connections do.                                         *)
(***************************************************************************)
TicksGoOn == <>(ticks = MaxTicks)

(***************************************************************************)
(* The queue of a browser that is gone is taken out of the registry, even  *)
(* if nothing is ever sent again and the server never notices: at the      *)
(* latest the next ping does.  (The exception is a connection given up     *)
(* before its first event.)                                                *)
(***************************************************************************)
GoneIsForgotten ==
    \A c \in Stream : peer[c] = "gone" ~> c \notin clients \/ gen[c] = "dropped"
=============================================================================
