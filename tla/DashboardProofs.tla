--------------------------- MODULE DashboardProofs --------------------------
(***************************************************************************)
(* For any number of connections and requests, any limit and any history:  *)
(* a browser sees the ticks in order, no queue stays registered behind a   *)
(* generator that has ended, the throttle of the live endpoint             *)
(* lets through one row per request served at a time, and one collector    *)
(* keeps the history within its limit and never removes a row to be kept.  *)
(***************************************************************************)
EXTENDS Dashboard, FiniteSetTheorems, WellFoundedInduction, TLAPS

LEMMA FeedStep == [Next]_vars => [FeedNext]_feedVars
  BY DEF Next, vars

LEMMA HistoryStep == [Next]_vars => [HistNext]_histVars
  BY DEF Next, vars

-----------------------------------------------------------------------------
(* The event stream *)

(***************************************************************************)
(* What the browser will see after the message being sent: the first that  *)
(* waits, or else the next tick.  What it will see after what it shows.    *)
(***************************************************************************)
Front(c) == IF queue[c] = <<>> THEN ticks + 1 ELSE queue[c][1]
Ahead(c) == IF message[c] = 0 THEN Front(c) ELSE message[c]

(***************************************************************************)
(* Each of the three places is behind the next one, by one tick if none    *)
(* was dropped.                                                            *)
(***************************************************************************)
Behind(c, x, y) == x < y /\ (c \notin lost => y = x + 1)

InOrder(c) ==
    /\ \A i \in 1..(Len(queue[c]) - 1) : Behind(c, queue[c][i], queue[c][i + 1])
    /\ queue[c] # <<>> => Behind(c, queue[c][Len(queue[c])], ticks + 1)
    /\ message[c] # 0 => Behind(c, message[c], Front(c))
    /\ shown[c] # 0 => Behind(c, shown[c], Ahead(c))

StreamInv(c) ==
    /\ gen[c] = "none" => c \notin clients /\ queue[c] = <<>> /\ shown[c] = 0
    /\ gen[c] # "send" => message[c] = 0
    /\ c \in clients /\ peer[c] = "here" => InOrder(c)

FeedInv == FeedTypeOK /\ \A c \in Stream : StreamInv(c)

LEMMA FeedInvInit == FeedInit => FeedInv
<1> SUFFICES ASSUME FeedInit PROVE FeedInv
  OBVIOUS
<1>1. FeedTypeOK
  BY LiveFeedAssumption DEF LiveFeedAssumption, FeedInit, FeedTypeOK
<1>2. \A c \in Stream : StreamInv(c)
  BY DEF FeedInit, StreamInv
<1> QED
  BY <1>1, <1>2 DEF FeedInv

\* Only the empty sequence has no member.
LEMMA EmptyIsShort ==
    ASSUME NEW n \in Nat, NEW s \in Seq(1..n)
    PROVE  s = <<>> <=> Len(s) = 0
<1>1. Len(s) = 0 => s = <<>>
  OBVIOUS
<1>2. s = <<>> => Len(s) = 0
  OBVIOUS
<1> QED
  BY <1>1, <1>2

\* What a step of one connection leaves alone.
LEMMA OtherStream ==
    ASSUME NEW c \in Stream, StreamInv(c), ticks' = ticks,
           c \in clients' <=> c \in clients, c \in lost' <=> c \in lost,
           queue'[c] = queue[c], gen'[c] = gen[c], message'[c] = message[c],
           peer'[c] = peer[c], shown'[c] = shown[c]
    PROVE  StreamInv(c)'
BY DEF StreamInv, InOrder, Behind, Front, Ahead

LEMMA TickFeed ==
    ASSUME FeedInv, Tick
    PROVE  FeedInv'
<1>1. /\ ticks \in Nat /\ ticks' = ticks + 1 /\ ticks' \in 1..MaxTicks
      /\ QueueLimit \in Nat \ {0} /\ MaxTicks \in Nat
      /\ UNCHANGED <<clients, gen, message, peer, shown>>
  BY LiveFeedAssumption DEF LiveFeedAssumption, Tick, FeedInv, FeedTypeOK
<1>2. ASSUME NEW c \in Stream
      PROVE  /\ queue'[c] = IF c \in clients /\ Room(c) THEN Append(queue[c], ticks + 1)
                            ELSE queue[c]
             /\ c \in lost' <=> c \in lost \/ (c \in clients /\ ~Room(c))
             /\ queue[c] \in Seq(1..MaxTicks) /\ Len(queue[c]) \in Nat
             /\ queue'[c] \in Seq(1..MaxTicks) /\ Len(queue'[c]) <= QueueLimit
  <2>1. queue[c] \in Seq(1..MaxTicks) /\ Len(queue[c]) \in Nat /\ Len(queue[c]) <= QueueLimit
    BY DEF FeedInv, FeedTypeOK
  <2>2. queue'[c] = IF c \in clients /\ Room(c) THEN Append(queue[c], ticks + 1) ELSE queue[c]
    BY DEF Tick
  <2>3. c \in lost' <=> c \in lost \/ (c \in clients /\ ~Room(c))
    BY DEF Tick, FeedInv, FeedTypeOK
  <2>4. CASE c \in clients /\ Room(c)
    <3> DEFINE q == queue[c]
               x == ticks + 1
    <3>a. x \in 1..MaxTicks /\ MaxTicks \in Nat /\ q \in Seq(1..MaxTicks)
      BY <1>1, <2>1
    <3>b. /\ Append(q, x) \in Seq(1..MaxTicks)
          /\ Len(Append(q, x)) = Len(q) + 1
      <4> HIDE DEF q, x
      <4> QED
        BY <3>a
    <3>1. /\ Append(queue[c], ticks + 1) \in Seq(1..MaxTicks)
          /\ Len(Append(queue[c], ticks + 1)) = Len(queue[c]) + 1
      BY <3>b
    <3> QED
      BY <1>1, <2>1, <2>2, <2>3, <2>4, <3>1 DEF Room
  <2> QED
    BY <2>1, <2>2, <2>3, <2>4
<1>3. FeedTypeOK'
  <2>1. queue' \in [Stream -> Seq(1..MaxTicks)]
    <3>1. DOMAIN queue' = Stream /\ \A c \in Stream : queue'[c] \in Seq(1..MaxTicks)
      BY <1>2 DEF Tick
    <3> QED
      BY <3>1 DEF Tick
  <2> QED
    BY <1>1, <1>2, <2>1 DEF FeedInv, FeedTypeOK, Tick
<1>4. ASSUME NEW c \in Stream
      PROVE  StreamInv(c)'
  <2>1. StreamInv(c)
    BY DEF FeedInv
  <2>2. CASE c \notin clients
    BY <1>1, <1>2, <2>1, <2>2 DEF StreamInv
  <2>3. CASE c \in clients /\ peer[c] # "here"
    BY <1>1, <1>2, <2>1, <2>3 DEF StreamInv
  <2>4. CASE c \in clients /\ peer[c] = "here" /\ Room(c)
    <3> DEFINE q == queue[c]
    <3>1. /\ q \in Seq(1..MaxTicks) /\ Len(q) \in Nat
          /\ queue'[c] = Append(q, ticks + 1)
          /\ c \in lost' <=> c \in lost
      BY <1>2, <2>4
    <3>2. /\ Len(queue'[c]) = Len(q) + 1 /\ Len(q) \in Nat
          /\ queue'[c][Len(q) + 1] = ticks + 1
          /\ \A i \in 1..Len(q) : queue'[c][i] = q[i] /\ q[i] \in 1..MaxTicks
          /\ queue'[c] # <<>>
      <4> DEFINE x == ticks + 1
      <4>1. x \in 1..MaxTicks /\ MaxTicks \in Nat /\ queue'[c] = Append(q, x)
        BY <1>1, <3>1
      <4> HIDE DEF q, x
      <4>2. /\ Len(Append(q, x)) = Len(q) + 1
            /\ Append(q, x)[Len(q) + 1] = x
            /\ Append(q, x) # <<>>
        BY <3>1, <4>1
      <4>3. \A i \in 1..Len(q) : Append(q, x)[i] = q[i] /\ q[i] \in 1..MaxTicks
        BY <3>1, <4>1
      <4> QED
        BY <3>1, <4>1, <4>2, <4>3 DEF x
    <3>3. InOrder(c) /\ gen[c] # "none"
      BY <2>1, <2>4 DEF StreamInv
    <3>4. q = <<>> <=> Len(q) = 0
      BY <3>1
    <3>5. Front(c)' = Front(c) /\ Ahead(c)' = Ahead(c)
      <4>1. CASE q = <<>>
        BY <1>1, <3>2, <3>4, <4>1 DEF Front, Ahead
      <4>2. CASE q # <<>>
        <5>1. 1 \in 1..Len(q)
          BY <3>1, <3>4, <4>2
        <5> QED
          BY <1>1, <3>2, <4>2, <5>1 DEF Front, Ahead
      <4> QED
        BY <4>1, <4>2
    <3>6. \A i \in 1..(Len(queue'[c]) - 1) : Behind(c, queue'[c][i], queue'[c][i + 1])
      <4> TAKE i \in 1..(Len(queue'[c]) - 1)
      <4>1. CASE i < Len(q)
        <5>1. i \in 1..(Len(q) - 1) /\ i + 1 \in 1..Len(q) /\ i \in 1..Len(q)
          BY <3>1, <3>2, <4>1
        <5> QED
          BY <3>2, <3>3, <5>1 DEF InOrder
      <4>2. CASE i = Len(q)
        BY <3>2, <3>3, <3>4, <4>2 DEF InOrder
      <4> QED
        BY <3>2, <4>1, <4>2
    <3>7. Behind(c, queue'[c][Len(queue'[c])], ticks' + 1)
      BY <1>1, <3>2 DEF Behind
    <3>8. InOrder(c)'
      BY <1>1, <3>1, <3>3, <3>5, <3>6, <3>7 DEF InOrder, Behind
    <3> QED
      BY <1>1, <2>1, <3>3, <3>8 DEF StreamInv
  <2>5. CASE c \in clients /\ peer[c] = "here" /\ ~Room(c)
    <3>1. queue'[c] = queue[c] /\ c \in lost' /\ queue[c] # <<>>
      BY <1>1, <1>2, <2>5 DEF Room
    <3>2. InOrder(c) /\ gen[c] # "none"
      BY <2>1, <2>5 DEF StreamInv
    <3>3. queue[c][Len(queue[c])] \in Nat /\ queue[c][1] \in Nat
      <4>1. Len(queue[c]) \in 1..Len(queue[c]) /\ 1 \in 1..Len(queue[c])
        BY <1>2, <3>1
      <4>2. \A i \in 1..Len(queue[c]) : queue[c][i] \in 1..MaxTicks
        BY <1>1, <1>2
      <4> QED
        BY <4>1, <4>2
    <3>4. InOrder(c)'
      BY <1>1, <3>1, <3>2, <3>3 DEF InOrder, Behind, Front, Ahead
    <3> QED
      BY <1>1, <2>1, <3>2, <3>4 DEF StreamInv
  <2> QED
    BY <2>2, <2>3, <2>4, <2>5
<1> QED
  BY <1>3, <1>4 DEF FeedInv

(***************************************************************************)
(* The generator takes the first message that waits.                       *)
(***************************************************************************)
LEMMA NextMessageFeed ==
    ASSUME FeedInv, NEW c \in Stream, NextMessage(c)
    PROVE  FeedInv'
<1> DEFINE q == queue[c]
<1>1. /\ ticks \in Nat /\ MaxTicks \in Nat
      /\ q \in Seq(1..MaxTicks) /\ Len(q) \in Nat /\ Len(q) <= QueueLimit
      /\ QueueLimit \in Nat
      /\ message[c] = 0 /\ gen[c] = "wait" /\ gen'[c] = "send"
      /\ UNCHANGED <<ticks, clients, peer, shown, lost>>
  BY LiveFeedAssumption
     DEF LiveFeedAssumption, NextMessage, Goes, FeedInv, FeedTypeOK, StreamInv
<1>2. \A d \in Stream \ {c} : /\ queue'[d] = queue[d] /\ gen'[d] = gen[d]
                              /\ message'[d] = message[d]
  BY DEF NextMessage, Goes, FeedInv, FeedTypeOK
<1>3. CASE q = <<>>
  <2>1. queue' = queue /\ message' = message
    BY <1>1, <1>3 DEF NextMessage, FeedInv, FeedTypeOK
  <2>2. FeedTypeOK'
    BY <1>1, <2>1 DEF FeedInv, FeedTypeOK, NextMessage, Goes
  <2>3. StreamInv(c)'
    BY <1>1, <2>1 DEF FeedInv, StreamInv, InOrder, Behind, Front, Ahead
  <2>4. \A d \in Stream \ {c} : StreamInv(d)'
    BY <1>1, <1>2, OtherStream DEF FeedInv
  <2> QED
    BY <2>2, <2>3, <2>4 DEF FeedInv
<1>4. CASE q # <<>>
  <2>1. /\ queue'[c] = Tail(q) /\ message'[c] = Head(q)
        /\ DOMAIN queue' = Stream /\ DOMAIN message' = Stream
    BY <1>4 DEF NextMessage, FeedInv, FeedTypeOK
  <2>2. /\ Head(q) = q[1] /\ Len(Tail(q)) = Len(q) - 1 /\ Len(q) >= 1
        /\ Tail(q) \in Seq(1..MaxTicks)
        /\ \A i \in 1..(Len(q) - 1) : Tail(q)[i] = q[i + 1]
        /\ \A i \in 1..Len(q) : q[i] \in 1..MaxTicks
        /\ Tail(q) = <<>> <=> Len(q) = 1
    <3> HIDE DEF q
    <3>1. Len(q) >= 1 /\ Head(q) = q[1] /\ Len(Tail(q)) = Len(q) - 1
      BY <1>1, <1>4
    <3>2. Tail(q) \in Seq(1..MaxTicks)
      BY <1>1, <1>4
    <3>3. \A i \in 1..(Len(q) - 1) : Tail(q)[i] = q[i + 1]
      BY <1>1, <1>4
    <3>4. \A i \in 1..Len(q) : q[i] \in 1..MaxTicks
      BY <1>1
    <3>5. Tail(q) = <<>> <=> Len(q) = 1
      <4> DEFINE t == Tail(q)
      <4>1. MaxTicks \in Nat /\ t \in Seq(1..MaxTicks) /\ Len(t) = Len(q) - 1
        BY <1>1, <3>1, <3>2
      <4> HIDE DEF t
      <4>2. t = <<>> <=> Len(t) = 0
        BY <4>1, EmptyIsShort
      <4>3. Len(t) = 0 <=> Len(q) = 1
        BY <1>1, <4>1
      <4> QED
        BY <4>2, <4>3 DEF t
    <3> QED
      BY <3>1, <3>2, <3>3, <3>4, <3>5
  <2>3. FeedTypeOK'
    <3>1. queue' \in [Stream -> Seq(1..MaxTicks)]
      <4>1. queue' = [queue EXCEPT ![c] = Tail(q)]
        BY <1>4 DEF NextMessage
      <4> QED
        BY <2>2, <4>1 DEF FeedInv, FeedTypeOK
    <3>2. message' \in [Stream -> 0..MaxTicks]
      <4>1. message' = [message EXCEPT ![c] = q[1]] /\ q[1] \in 0..MaxTicks
        BY <1>1, <1>4, <2>2 DEF NextMessage
      <4> QED
        BY <4>1 DEF FeedInv, FeedTypeOK
    <3>3. ASSUME NEW d \in Stream PROVE Len(queue'[d]) <= QueueLimit
      <4>1. CASE d = c
        BY <1>1, <2>1, <2>2, <4>1
      <4>2. CASE d # c
        BY <1>2, <4>2 DEF FeedInv, FeedTypeOK
      <4> QED
        BY <4>1, <4>2
    <3>4. gen' \in [Stream -> {"none", "created", "check", "wait", "send", "over", "dropped"}]
      BY DEF NextMessage, Goes, FeedInv, FeedTypeOK
    <3> QED
      BY <1>1, <3>1, <3>2, <3>3, <3>4 DEF FeedInv, FeedTypeOK
  <2>4. ASSUME InOrder(c) PROVE InOrder(c)'
    <3>1. message'[c] = q[1] /\ q[1] \in 1..MaxTicks /\ Ahead(c)' = Ahead(c)
      BY <1>1, <1>4, <2>1, <2>2 DEF Ahead, Front
    <3>2. \A i \in 1..(Len(queue'[c]) - 1) : Behind(c, queue'[c][i], queue'[c][i + 1])
      <4> TAKE i \in 1..(Len(queue'[c]) - 1)
      <4>1. i + 1 \in 1..(Len(q) - 1) /\ i \in 1..(Len(q) - 1)
        BY <1>1, <2>1, <2>2
      <4> QED
        BY <2>1, <2>2, <2>4, <4>1 DEF InOrder
    <3>3. queue'[c] # <<>> =>
            Behind(c, queue'[c][Len(queue'[c])], ticks + 1) /\ Front(c)' = q[2] /\ Behind(c, q[1], q[2])
      <4> SUFFICES ASSUME Len(q) # 1
                   PROVE  Behind(c, queue'[c][Len(queue'[c])], ticks + 1) /\ Front(c)' = q[2]
                          /\ Behind(c, q[1], q[2])
        BY <2>1, <2>2
      <4>1. Len(q) - 1 \in 1..(Len(q) - 1) /\ 1 \in 1..(Len(q) - 1)
        BY <1>1, <2>2
      <4>2. queue'[c][Len(q) - 1] = q[Len(q)] /\ queue'[c][1] = q[2]
        BY <1>1, <2>1, <2>2, <4>1
      <4> QED
        BY <1>4, <2>1, <2>2, <2>4, <4>1, <4>2 DEF InOrder, Front
    <3>4. queue'[c] = <<>> => Front(c)' = ticks + 1 /\ Behind(c, q[1], ticks + 1)
      BY <1>1, <1>4, <2>1, <2>2, <2>4 DEF InOrder, Front
    <3> QED
      BY <1>1, <2>4, <3>1, <3>2, <3>3, <3>4 DEF InOrder, Behind
  <2>5. StreamInv(c)'
    BY <1>1, <2>4 DEF FeedInv, StreamInv
  <2>6. \A d \in Stream \ {c} : StreamInv(d)'
    BY <1>1, <1>2, OtherStream DEF FeedInv
  <2> QED
    BY <2>3, <2>5, <2>6 DEF FeedInv
<1> QED
  BY <1>3, <1>4

(***************************************************************************)
(* The browser shows what was sent.                                        *)
(***************************************************************************)
LEMMA ReadsFeed ==
    ASSUME FeedInv, NEW c \in Stream, Reads(c)
    PROVE  FeedInv'
<1>1. /\ message'[c] = 0 /\ gen[c] = "send" /\ gen'[c] = "check"
      /\ shown'[c] = IF message[c] = 0 THEN shown[c] ELSE message[c]
      /\ message[c] \in 0..MaxTicks /\ shown[c] \in 0..MaxTicks
      /\ UNCHANGED <<ticks, clients, queue, peer, lost>>
  BY DEF Reads, Goes, FeedInv, FeedTypeOK
<1>2. \A d \in Stream \ {c} : /\ shown'[d] = shown[d] /\ gen'[d] = gen[d]
                              /\ message'[d] = message[d]
  BY DEF Reads, Goes, FeedInv, FeedTypeOK
<1>3. FeedTypeOK'
  <2>1. 0 \in 0..MaxTicks
    BY LiveFeedAssumption DEF LiveFeedAssumption
  <2> QED
    BY <1>1, <2>1 DEF Reads, Goes, FeedInv, FeedTypeOK
<1>4. ASSUME InOrder(c) PROVE InOrder(c)'
  BY <1>1, <1>4 DEF InOrder, Behind, Front, Ahead
<1>5. StreamInv(c)'
  BY <1>1, <1>4 DEF FeedInv, StreamInv
<1>6. \A d \in Stream \ {c} : StreamInv(d)'
  BY <1>1, <1>2, OtherStream DEF FeedInv
<1> QED
  BY <1>3, <1>5, <1>6 DEF FeedInv

(***************************************************************************)
(* A connection opens in order, and the other steps of its life change     *)
(* nothing of what its browser is to see, or come after it has gone.       *)
(***************************************************************************)
LEMMA ConnectionFeed ==
    ASSUME FeedInv, NEW c \in Stream,
           \/ Connect(c) \/ Begin(c) \/ NeverBegins(c) \/ CheckPeer(c)
           \/ SendsToNobody(c) \/ Leaves(c) \/ Cancelled(c)
    PROVE  FeedInv'
<1>1. /\ ticks \in Nat
      /\ UNCHANGED <<ticks, queue, shown, lost>>
      /\ gen[c] # "none" => gen'[c] # "none"
      /\ \A d \in Stream \ {c} : /\ gen'[d] = gen[d] /\ message'[d] = message[d]
                                 /\ peer'[d] = peer[d] /\ (d \in clients' <=> d \in clients)
  BY LiveFeedAssumption DEF LiveFeedAssumption, Connect, Begin, NeverBegins, CheckPeer, SendsToNobody,
         Leaves, Cancelled, Unregister, Goes, FeedInv, FeedTypeOK
<1>2. FeedTypeOK'
  <2>1. 0 \in 0..MaxTicks
    BY LiveFeedAssumption DEF LiveFeedAssumption
  <2>2. gen' \in [Stream -> {"none", "created", "check", "wait", "send", "over", "dropped"}]
    BY DEF Connect, Begin, NeverBegins, CheckPeer, SendsToNobody, Leaves, Cancelled, Goes,
           FeedInv, FeedTypeOK
  <2>3. /\ message' \in [Stream -> 0..MaxTicks] /\ peer' \in [Stream -> {"away", "here", "gone"}]
        /\ clients' \subseteq Stream
    BY <2>1 DEF Connect, Begin, NeverBegins, CheckPeer, SendsToNobody, Leaves, Cancelled,
                Unregister, FeedInv, FeedTypeOK
  <2> QED
    BY <1>1, <2>2, <2>3 DEF FeedInv, FeedTypeOK
<1>3. \A d \in Stream \ {c} : StreamInv(d)'
  BY <1>1, OtherStream DEF FeedInv
<1>4. StreamInv(c)
  BY DEF FeedInv
<1>5. CASE Connect(c)
  <2>1. gen[c] = "none" /\ gen'[c] = "created" /\ UNCHANGED message
    BY <1>5 DEF Connect, Goes, FeedInv, FeedTypeOK
  <2>2. queue'[c] = <<>> /\ shown'[c] = 0 /\ message'[c] = 0
    BY <1>1, <1>4, <2>1 DEF StreamInv
  <2>3. StreamInv(c)'
    BY <2>1, <2>2 DEF StreamInv, InOrder
  <2> QED
    BY <1>2, <1>3, <2>3 DEF FeedInv
<1>6. CASE Begin(c) \/ (CheckPeer(c) /\ peer[c] # "gone")
  <2>1. /\ gen[c] \in {"created", "check"} /\ gen'[c] \in {"send", "wait"}
        /\ UNCHANGED <<message, peer, clients>>
    BY <1>6 DEF Begin, CheckPeer, Goes, FeedInv, FeedTypeOK
  <2>2. StreamInv(c)'
    BY <1>1, <1>4, <2>1 DEF StreamInv, InOrder, Behind, Front, Ahead
  <2> QED
    BY <1>2, <1>3, <2>2 DEF FeedInv
<1>7. ASSUME peer'[c] # "here", message'[c] = 0, gen[c] # "none"
      PROVE  FeedInv'
  <2>1. StreamInv(c)'
    BY <1>1, <1>4, <1>7 DEF StreamInv
  <2> QED
    BY <1>2, <1>3, <2>1 DEF FeedInv
<1>8. CASE NeverBegins(c) \/ (CheckPeer(c) /\ peer[c] = "gone") \/ SendsToNobody(c) \/ Cancelled(c)
  <2>1. peer'[c] = "gone" /\ message'[c] = 0 /\ gen[c] # "none"
    BY <1>4, <1>8 DEF NeverBegins, CheckPeer, SendsToNobody, Cancelled, Unregister, Goes,
                      FeedInv, FeedTypeOK, StreamInv
  <2> QED
    BY <1>7, <2>1
<1>9. CASE Leaves(c)
  <2>1. /\ peer'[c] = "gone" /\ gen'[c] = gen[c] /\ message'[c] = message[c]
        /\ UNCHANGED <<clients>>
    BY <1>9 DEF Leaves, FeedInv, FeedTypeOK
  <2>2. StreamInv(c)'
    BY <1>1, <1>4, <2>1 DEF StreamInv
  <2> QED
    BY <1>2, <1>3, <2>2 DEF FeedInv
<1> QED
  BY <1>5, <1>6, <1>8, <1>9

LEMMA FeedInvNext == FeedInv /\ [FeedNext]_feedVars => FeedInv'
<1> SUFFICES ASSUME FeedInv, [FeedNext]_feedVars PROVE FeedInv'
  OBVIOUS
<1>1. CASE Tick
  BY <1>1, TickFeed
<1>2. ASSUME NEW c \in Stream, NextMessage(c) PROVE FeedInv'
  BY <1>2, NextMessageFeed
<1>3. ASSUME NEW c \in Stream, Reads(c) PROVE FeedInv'
  BY <1>3, ReadsFeed
<1>4. ASSUME NEW c \in Stream,
             \/ Connect(c) \/ Begin(c) \/ NeverBegins(c) \/ CheckPeer(c)
             \/ SendsToNobody(c) \/ Leaves(c) \/ Cancelled(c)
      PROVE  FeedInv'
  BY <1>4, ConnectionFeed
<1>5. CASE UNCHANGED feedVars
  BY <1>5 DEF feedVars, FeedInv, FeedTypeOK, StreamInv, InOrder, Behind, Front, Ahead
<1> QED
  BY <1>1, <1>2, <1>3, <1>4, <1>5 DEF FeedNext, EventGenerator

\* A sequence of ticks in which each is behind the next, and the last behind
\* the next tick to come.
Chain(c, s) ==
    /\ \A i \in 1..(Len(s) - 1) : Behind(c, s[i], s[i + 1])
    /\ s # <<>> => Behind(c, s[Len(s)], ticks + 1)

First(s) == IF s = <<>> THEN ticks + 1 ELSE s[1]

LEMMA Chained ==
    ASSUME NEW c \in Stream, NEW n \in Nat, NEW s \in Seq(1..n), NEW x \in 1..n,
           Chain(c, s), Behind(c, x, First(s))
    PROVE  /\ <<x>> \o s \in Seq(1..n)
           /\ Chain(c, <<x>> \o s)
           /\ First(<<x>> \o s) = x
<1> DEFINE t == <<x>> \o s
<1>1. t \in Seq(1..n)
  OBVIOUS
<1>2. Len(t) = Len(s) + 1 /\ t[1] = x /\ Len(s) \in Nat
  OBVIOUS
<1>3. \A i \in 1..Len(s) : t[i + 1] = s[i]
  OBVIOUS
<1>4. t # <<>>
  <2> HIDE DEF t
  <2> QED
    BY <1>1, <1>2, EmptyIsShort
<1>5. s = <<>> <=> Len(s) = 0
  BY EmptyIsShort
<1> HIDE DEF t
<1>6. \A i \in 1..(Len(t) - 1) : Behind(c, t[i], t[i + 1])
  <2> TAKE i \in 1..(Len(t) - 1)
  <2>1. CASE i = 1
    <3>1. s # <<>> /\ 1 \in 1..Len(s)
      BY <1>2, <1>5, <2>1
    <3>2. t[2] = s[1]
      BY <1>3, <3>1
    <3> QED
      BY <1>2, <2>1, <3>1, <3>2 DEF First
  <2>2. CASE i # 1
    <3>1. i - 1 \in 1..(Len(s) - 1) /\ i - 1 \in 1..Len(s) /\ i \in 1..Len(s)
      BY <1>2, <2>2
    <3>2. t[i] = s[i - 1] /\ t[i + 1] = s[i]
      <4>1. t[(i - 1) + 1] = s[i - 1]
        BY <1>3, <3>1
      <4> QED
        BY <1>3, <3>1, <4>1
    <3>3. Behind(c, s[i - 1], s[(i - 1) + 1])
      BY <3>1 DEF Chain
    <3> QED
      BY <3>1, <3>2, <3>3
  <2> QED
    BY <2>1, <2>2
<1>7. Behind(c, t[Len(t)], ticks + 1)
  <2>1. CASE s = <<>>
    BY <1>2, <1>5, <2>1 DEF First
  <2>2. CASE s # <<>>
    <3>1. Len(s) \in 1..Len(s)
      BY <1>2, <1>5, <2>2
    <3> QED
      BY <1>2, <1>3, <2>2, <3>1 DEF Chain
  <2> QED
    BY <2>1, <2>2
<1>8. Chain(c, t) /\ First(t) = x
  BY <1>2, <1>4, <1>6, <1>7 DEF Chain, First
<1> QED
  BY <1>1, <1>8 DEF t

\* What the browser shows, what is sent and what waits make one such sequence.
LEMMA OrderFollows == FeedInv => FeedInOrder
<1> SUFFICES ASSUME FeedInv, NEW c \in clients, peer[c] = "here"
             PROVE  LET s == OnTheWay(c)
                    IN  /\ \A i \in 1..(Len(s) - 1) : s[i] < s[i + 1]
                        /\ s # <<>> /\ c \notin lost =>
                             /\ s[Len(s)] = ticks
                             /\ \A i \in 1..(Len(s) - 1) : s[i + 1] = s[i] + 1
  BY DEF FeedInOrder
<1> DEFINE q == queue[c]
           x == shown[c]
           y == message[c]
           rest == IF y = 0 THEN q ELSE <<y>> \o q
           all == IF x = 0 THEN rest ELSE <<x>> \o rest
<1>1. /\ c \in Stream /\ ticks \in Nat /\ MaxTicks \in Nat /\ q \in Seq(1..MaxTicks)
      /\ x \in 0..MaxTicks /\ y \in 0..MaxTicks /\ InOrder(c)
  BY LiveFeedAssumption DEF LiveFeedAssumption, FeedInv, FeedTypeOK, StreamInv
<1>2. Chain(c, q) /\ First(q) = Front(c)
  BY <1>1 DEF Chain, First, Front, InOrder
<1>3. /\ y # 0 => Behind(c, y, Front(c))
      /\ x # 0 => Behind(c, x, Ahead(c))
      /\ Ahead(c) = IF y = 0 THEN Front(c) ELSE y
  BY <1>1 DEF InOrder, Ahead
<1> HIDE DEF q, x, y
<1>4. rest \in Seq(1..MaxTicks) /\ Chain(c, rest) /\ First(rest) = Ahead(c)
  <2>1. CASE y = 0
    BY <1>1, <1>2, <1>3, <2>1
  <2>2. CASE y # 0
    <3>1. y \in 1..MaxTicks
      BY <1>1, <2>2
    <3>2. Behind(c, y, First(q))
      BY <1>2, <1>3, <2>2
    <3> QED
      BY <1>1, <1>2, <1>3, <2>2, <3>1, <3>2, Chained
  <2> QED
    BY <2>1, <2>2
<1>5. all \in Seq(1..MaxTicks) /\ Chain(c, all)
  <2> HIDE DEF rest
  <2>1. CASE x = 0
    BY <1>4, <2>1
  <2>2. CASE x # 0
    <3>1. x \in 1..MaxTicks
      BY <1>1, <2>2
    <3>2. Behind(c, x, First(rest))
      BY <1>3, <1>4, <2>2
    <3> QED
      BY <1>1, <1>4, <2>2, <3>1, <3>2, Chained
  <2> QED
    BY <2>1, <2>2
<1>6. OnTheWay(c) = all
  <2>0. OnTheWay(c) = ((IF x = 0 THEN <<>> ELSE <<x>>) \o (IF y = 0 THEN <<>> ELSE <<y>>)) \o q
    BY DEF OnTheWay, q, x, y
  <2>1. CASE x = 0 /\ y = 0
    BY <1>1, <2>0, <2>1
  <2>2. CASE x # 0 /\ y = 0
    <3>1. x \in 1..MaxTicks
      BY <1>1, <2>2
    <3>2. (<<x>> \o <<>>) \o q = <<x>> \o q
      BY <1>1, <3>1
    <3> QED
      BY <2>0, <2>2, <3>2
  <2>3. CASE x = 0 /\ y # 0
    <3>1. y \in 1..MaxTicks
      BY <1>1, <2>3
    <3>2. (<<>> \o <<y>>) \o q = <<y>> \o q
      BY <1>1, <3>1
    <3> QED
      BY <2>0, <2>3, <3>2
  <2>4. CASE x # 0 /\ y # 0
    <3>1. x \in 1..MaxTicks /\ y \in 1..MaxTicks
      BY <1>1, <2>4
    <3>2. (<<x>> \o <<y>>) \o q = <<x>> \o (<<y>> \o q)
      BY <1>1, <3>1
    <3> QED
      BY <2>0, <2>4, <3>2
  <2> QED
    BY <2>1, <2>2, <2>3, <2>4
<1> HIDE DEF all
<1>7. \A i \in 1..(Len(all) - 1) : all[i] < all[i + 1] /\ (c \notin lost => all[i + 1] = all[i] + 1)
  BY <1>5 DEF Chain, Behind
<1>8. all # <<>> /\ c \notin lost => all[Len(all)] = ticks
  <2> SUFFICES ASSUME all # <<>>, c \notin lost PROVE all[Len(all)] = ticks
    OBVIOUS
  <2>1. Len(all) \in Nat /\ Len(all) # 0
    <3>1. all = <<>> <=> Len(all) = 0
      BY <1>1, <1>5, EmptyIsShort
    <3> QED
      BY <1>5, <3>1
  <2>2. Len(all) \in 1..Len(all)
    BY <2>1
  <2>3. all[Len(all)] \in 1..MaxTicks
    BY <1>1, <1>5, <2>2
  <2>4. all[Len(all)] \in Nat
    BY <1>1, <2>3
  <2>5. ticks + 1 = all[Len(all)] + 1
    BY <1>5 DEF Chain, Behind
  <2> QED
    BY <1>1, <2>4, <2>5
<1> QED
  BY <1>6, <1>7, <1>8

(***************************************************************************)
(* With any number of connections that come, read and go as they like,     *)
(* what each shows and is to show are ticks in their order, and without a  *)
(* gap unless its own queue was full (broadcast_sse, event_generator).     *)
(***************************************************************************)
THEOREM BrowsersSeeTheTicksInOrder == Spec => []FeedInOrder
<1>1. Init => FeedInv
  BY FeedInvInit DEF Init
<1>2. FeedInv /\ [Next]_vars => FeedInv'
  BY FeedStep, FeedInvNext
<1> QED
  BY <1>1, <1>2, OrderFollows, PTL DEF Spec

(***************************************************************************)
(* A registered queue has a generator that takes it out when it ends, or   *)
(* one that was dropped before it began.                                   *)
(***************************************************************************)
Owned == \A c \in clients : gen[c] \in {"created", "check", "wait", "send", "dropped"}

LEMMA NextOwned == FeedTypeOK /\ Owned /\ [FeedNext]_feedVars => Owned'
<1> SUFFICES ASSUME FeedTypeOK, Owned, [FeedNext]_feedVars
             PROVE  Owned'
  OBVIOUS
<1>1. CASE Tick \/ UNCHANGED feedVars
  BY <1>1 DEF Tick, feedVars, Owned
<1>2. ASSUME NEW c \in Stream, NEW to, gen' = [gen EXCEPT ![c] = to],
             clients' \subseteq clients \cup {c},
             c \in clients' => to \in {"created", "check", "wait", "send", "dropped"}
      PROVE  Owned'
  BY <1>2 DEF FeedTypeOK, Owned
<1>3. ASSUME NEW c \in Stream, Connect(c) \/ Begin(c) \/ NeverBegins(c) \/ NextMessage(c)
                               \/ Reads(c) \/ SendsToNobody(c)
      PROVE  Owned'
  BY <1>2, <1>3 DEF Connect, Begin, NeverBegins, NextMessage, Reads, SendsToNobody, Goes
<1>4. ASSUME NEW c \in Stream, CheckPeer(c) \/ Cancelled(c)
      PROVE  Owned'
  BY <1>2, <1>4 DEF CheckPeer, Cancelled, Goes, Unregister
<1>5. ASSUME NEW c \in Stream, Leaves(c)
      PROVE  Owned'
  BY <1>5 DEF Leaves, Owned
<1> QED
  BY <1>1, <1>3, <1>4, <1>5 DEF FeedNext, EventGenerator

(***************************************************************************)
(* No queue stays registered behind a generator that has ended, wherever   *)
(* the browser leaves and whoever notices first: only one that was given   *)
(* up before its first event has nobody to take it out (event_generator).  *)
(***************************************************************************)
THEOREM NoQueueIsLeftBehind == Spec => []Owned
<1>1. Init => Owned
  BY DEF Init, FeedInit, Owned
<1>2. Init => FeedInv
  BY FeedInvInit DEF Init
<1>3. FeedInv /\ [Next]_vars => FeedInv'
  BY FeedStep, FeedInvNext
<1>4. FeedInv /\ Owned /\ [Next]_vars => Owned'
  BY FeedStep, NextOwned DEF FeedInv
<1> QED
  BY <1>1, <1>2, <1>3, <1>4, PTL DEF Spec

-----------------------------------------------------------------------------
(* The throttle *)

Persisting == {p \in Poll : poll[p] = "persist"}

(***************************************************************************)
(* Requests past the check count as rows to come, once the throttle is     *)
(* set; before that there is no row.                                       *)
(***************************************************************************)
ThrottleInv ==
    /\ poll \in [Poll -> {"idle", "persist"}]
    /\ fresh \in BOOLEAN
    /\ burst \in Nat
    /\ fresh => burst + Cardinality(Persisting) <= Cardinality(Poll)
    /\ ~fresh => burst = 0

LEMMA PersistingFinite ==
    /\ IsFiniteSet(Persisting) /\ Cardinality(Persisting) \in Nat
    /\ Cardinality(Poll) \in Nat /\ Cardinality(Persisting) <= Cardinality(Poll)
  BY MetricsAssumption, FS_Subset, FS_CardinalityType DEF Persisting

\* A request that is done is one less to come.
LEMMA PersistingShrinks ==
    ASSUME poll \in [Poll -> {"idle", "persist"}], NEW p \in Poll, poll[p] = "persist",
           poll' = [poll EXCEPT ![p] = "idle"]
    PROVE  Cardinality(Persisting') = Cardinality(Persisting) - 1
<1>1. Persisting' = Persisting \ {p}
  BY DEF Persisting
<1>2. p \in Persisting
  BY DEF Persisting
<1> QED
  BY <1>1, <1>2, PersistingFinite, FS_RemoveElement

LEMMA ThrottleInvInit == Init => ThrottleInv
<1> SUFFICES ASSUME HistInit PROVE ThrottleInv
  BY DEF Init
<1>1. poll \in [Poll -> {"idle", "persist"}]
  BY DEF HistInit
<1> QED
  BY <1>1 DEF HistInit, ThrottleInv

LEMMA ThrottleInvNext == ThrottleInv /\ [HistNext]_histVars => ThrottleInv'
<1> SUFFICES ASSUME ThrottleInv, [HistNext]_histVars PROVE ThrottleInv'
  OBVIOUS
<1> USE DEF ThrottleInv
<1>1. ASSUME NEW p \in Poll, CheckThrottle(p) PROVE ThrottleInv'
  BY <1>1 DEF CheckThrottle
<1>2. ASSUME NEW p \in Poll, Persist(p) PROVE ThrottleInv'
  <2>1. poll[p] = "persist" /\ poll' = [poll EXCEPT ![p] = "idle"]
    BY <1>2 DEF Persist
  <2>2. Cardinality(Persisting') = Cardinality(Persisting) - 1
    BY <2>1, PersistingShrinks
  <2>3. burst + Cardinality(Persisting) <= Cardinality(Poll)
    BY PersistingFinite
  <2>4. fresh' /\ burst' = burst + 1
    BY <1>2 DEF Persist
  <2>5. burst' + Cardinality(Persisting') <= Cardinality(Poll)
    BY <2>2, <2>3, <2>4, PersistingFinite
  <2> QED
    BY <2>1, <2>4, <2>5
<1>3. ASSUME NEW p \in Poll, PersistFails(p) PROVE ThrottleInv'
  <2>1. poll[p] = "persist" /\ poll' = [poll EXCEPT ![p] = "idle"]
    BY <1>3 DEF PersistFails
  <2>2. Cardinality(Persisting') = Cardinality(Persisting) - 1
    BY <2>1, PersistingShrinks
  <2> QED
    BY <1>3, <2>1, <2>2, PersistingFinite DEF PersistFails
<1>4. CASE ThrottleExpires
  BY <1>4 DEF ThrottleExpires
<1>5. ASSUME UNCHANGED <<poll, fresh, burst>> PROVE ThrottleInv'
  <2>1. Persisting' = Persisting
    BY <1>5 DEF Persisting
  <2> QED
    BY <1>5, <2>1
<1>6. ASSUME NEW k \in Collector, InsertAndCount(k) \/ SelectOld(k) \/ DeleteAndCommit(k) \/ CollectorDies(k)
      PROVE  ThrottleInv'
  BY <1>5, <1>6 DEF InsertAndCount, SelectOld, DeleteAndCommit, CollectorDies
<1> QED
  BY <1>1, <1>2, <1>3, <1>4, <1>5, <1>6 DEF HistNext, histVars

(***************************************************************************)
(* However often the dashboards poll, at most as many rows are written     *)
(* until the throttle expires as requests are served at a time             *)
(* (get_live_metrics).                                                     *)
(***************************************************************************)
THEOREM ThrottleBoundsTheRows == Spec => []ThrottleHolds
<1>1. ThrottleInv => ThrottleHolds
  BY PersistingFinite DEF ThrottleInv, ThrottleHolds
<1> QED
  BY <1>1, ThrottleInvInit, ThrottleInvNext, HistoryStep, PTL DEF Spec

-----------------------------------------------------------------------------
(* The oldest of a set *)

\* A finite set of numbers has a greatest element.
LEMMA Greatest ==
    ASSUME NEW S \in SUBSET Nat, S # {}, NEW bound \in Nat, \A s \in S : s <= bound
    PROVE  \E g \in S : \A s \in S : s <= g
<1> DEFINE Above == {u \in Nat : \A s \in S : s <= u}
<1>1. bound \in Above
  OBVIOUS
<1>2. \E u \in Above : \A v \in Above : ~(<<v, u>> \in OpToRel(<, Nat))
  BY <1>1, NatLessThanWellFounded, WFMin
<1>3. PICK u \in Above : \A v \in Above : ~(v < u)
  BY <1>2 DEF OpToRel
<1>4. u \in Nat /\ \A s \in S : s \in Nat /\ s <= u
  BY <1>3
<1>5. u \in S
  <2> SUFFICES ASSUME u \notin S PROVE FALSE
    OBVIOUS
  <2>1. \A s \in S : s < u
    BY <1>4
  <2>2. PICK t \in S : TRUE
    OBVIOUS
  <2>3. u - 1 \in Nat /\ \A s \in S : s <= u - 1
    BY <1>4, <2>1, <2>2
  <2>4. u - 1 \in Above
    BY <2>3
  <2> QED
    BY <1>3, <1>4, <2>4
<1> QED
  BY <1>4, <1>5

\* A set of numbers has a least element.
LEMMA Least ==
    ASSUME NEW S \in SUBSET Nat, S # {}
    PROVE  \E g \in S : \A s \in S : g <= s
<1>1. \E g \in S : \A s \in S : ~(<<s, g>> \in OpToRel(<, Nat))
  BY NatLessThanWellFounded, WFMin
<1>2. PICK g \in S : \A s \in S : ~(s < g)
  BY <1>1 DEF OpToRel
<1> QED
  BY <1>2

\* There are no more than n among the n oldest.
LEMMA OldestBound ==
    ASSUME NEW m \in Nat, NEW S \in SUBSET (1..m), NEW n \in Nat
    PROVE  /\ IsFiniteSet(S) /\ IsFiniteSet(Oldest(n, S))
           /\ Cardinality(Oldest(n, S)) \in Nat
           /\ Cardinality(Oldest(n, S)) <= n
<1> DEFINE O == Oldest(n, S)
<1>1. IsFiniteSet(1..m)
  BY FS_Interval
<1>2. IsFiniteSet(S)
  BY <1>1, FS_Subset
<1>3. O \in SUBSET S
  BY DEF Oldest
<1>4. IsFiniteSet(O) /\ Cardinality(O) \in Nat
  BY <1>2, <1>3, FS_Subset, FS_CardinalityType
<1>a. \A x \in O : Cardinality({s \in S : s < x}) < n
  BY DEF Oldest
<1>b. \A s \in S : s \in Nat /\ s <= m
  OBVIOUS
<1> HIDE DEF O
<1>5. CASE O = {}
  BY <1>2, <1>4, <1>5, FS_EmptySet DEF O
<1>6. CASE O # {}
  <2>1. PICK g \in O : \A s \in O : s <= g
    <3>1. O \in SUBSET Nat /\ \A s \in O : s <= m
      BY <1>3, <1>b
    <3> QED
      BY <1>6, <3>1, Greatest
  <2> DEFINE Less == {s \in S : s < g}
  <2>2. Cardinality(Less) < n
    BY <2>1, <1>a
  <2>3. IsFiniteSet(Less) /\ Cardinality(Less) \in Nat
    BY <1>2, FS_Subset, FS_CardinalityType
  <2>4. O \ {g} \in SUBSET Less
    BY <1>3, <1>b, <2>1
  <2>5. Cardinality(O \ {g}) <= Cardinality(Less)
    BY <2>3, <2>4, FS_Subset
  <2>6. Cardinality(O \ {g}) = Cardinality(O) - 1
    BY <1>4, FS_RemoveElement
  <2> QED
    BY <1>2, <1>4, <2>2, <2>3, <2>5, <2>6 DEF O
<1> QED
  BY <1>5, <1>6 DEF O

\* There are n among the n oldest, when there are so many.
LEMMA OldestReaches ==
    ASSUME NEW m \in Nat, NEW S \in SUBSET (1..m), NEW n \in Nat, n <= Cardinality(S)
    PROVE  Cardinality(Oldest(n, S)) >= n
<1> DEFINE O == Oldest(n, S)
           Rest == S \ O
<1>1. IsFiniteSet(S) /\ IsFiniteSet(O) /\ Cardinality(O) \in Nat
  BY OldestBound
<1>2. O \in SUBSET S /\ \A s \in S \ O : ~(Cardinality({t \in S : t < s}) < n)
  BY DEF Oldest
<1>3. S \in SUBSET Nat
  OBVIOUS
<1> HIDE DEF O
<1>4. CASE Rest = {}
  <2>1. O = S
    BY <1>2, <1>4
  <2> QED
    BY <2>1 DEF O
<1>5. CASE Rest # {}
  <2>1. Rest \in SUBSET Nat
    BY <1>3
  <2>2. PICK g \in Rest : \A s \in Rest : g <= s
    BY <1>5, <2>1, Least
  <2> DEFINE Less == {t \in S : t < g}
  <2>3. Less \in SUBSET O
    <3> SUFFICES ASSUME NEW t \in S, t < g, t \notin O PROVE FALSE
      OBVIOUS
    <3>1. t \in Nat /\ g \in Nat /\ g <= t
      BY <1>3, <2>1, <2>2
    <3> QED
      BY <3>1
  <2>4. Cardinality(Less) <= Cardinality(O) /\ IsFiniteSet(Less)
    BY <1>1, <2>3, FS_Subset
  <2>5. Cardinality(Less) \in Nat
    BY <2>4, FS_CardinalityType
  <2>6. Cardinality(Less) >= n
    BY <1>2, <2>2, <2>5
  <2> QED
    BY <1>1, <2>4, <2>5, <2>6 DEF O
<1> QED
  BY <1>4, <1>5

\* Whatever is not among the n oldest is newer than all of them.
LEMMA OthersAreNewer ==
    ASSUME NEW m \in Nat, NEW S \in SUBSET (1..m), NEW n \in Nat,
           NEW r \in Oldest(n, S), NEW s \in S \ Oldest(n, S)
    PROVE  s > r
<1>0. s \in S /\ r \in S /\ \A t \in S : t \in Nat
  BY DEF Oldest
<1> SUFFICES ASSUME s <= r PROVE FALSE
  BY <1>0
<1> DEFINE Below(x) == {t \in S : t < x}
<1>1. IsFiniteSet(S)
  BY OldestBound
<1>2. IsFiniteSet(Below(r)) /\ IsFiniteSet(Below(s))
  BY <1>1, FS_Subset
<1>3. Below(s) \in SUBSET Below(r)
  <2>1. ASSUME NEW t \in S, t < s PROVE t < r
    <3>1. t \in Nat /\ s \in Nat /\ r \in Nat
      BY <1>0
    <3> QED
      BY <2>1, <3>1
  <2> QED
    BY <2>1
<1>4. Cardinality(Below(s)) <= Cardinality(Below(r))
  BY <1>2, <1>3, FS_Subset
<1>5. Cardinality(Below(s)) \in Nat /\ Cardinality(Below(r)) \in Nat
  BY <1>2, FS_CardinalityType
<1>6. Cardinality(Below(r)) < n
  BY DEF Oldest
<1>7. ~(Cardinality(Below(s)) < n)
  BY DEF Oldest
<1> QED
  BY <1>4, <1>5, <1>6, <1>7

\* So many of the oldest as are over the limit leave the rows to keep, all
\* newer.
LEMMA RestIsKept ==
    ASSUME NEW m \in Nat, NEW S \in SUBSET (1..m),
           NEW count \in Nat, count > Keep, count <= Cardinality(S),
           NEW r \in Oldest(count - Keep, S)
    PROVE  Cardinality({s \in S \ Oldest(count - Keep, S) : s > r}) >= Keep
<1> DEFINE n == count - Keep
           O == Oldest(n, S)
<1>0. Keep \in Nat
  BY MetricsAssumption
<1>1. n \in Nat
  BY <1>0
<1>2. IsFiniteSet(S) /\ IsFiniteSet(O) /\ Cardinality(O) \in Nat /\ Cardinality(O) <= n
  BY <1>1, OldestBound
<1>3. O \in SUBSET S
  BY DEF Oldest
<1>4. {s \in S \ O : s > r} = S \ O
  BY <1>1, OthersAreNewer
<1>5. Cardinality(S \ O) = Cardinality(S) - Cardinality(O)
  <2>1. S \cap O = O
    BY <1>3
  <2> QED
    BY <1>2, <2>1, FS_Difference
<1>6. Cardinality(S) \in Nat
  BY <1>2, FS_CardinalityType
<1>7. Cardinality(S \ O) >= Keep
  BY <1>0, <1>2, <1>5, <1>6
<1> QED
  BY <1>4, <1>7

\* A set of the first m numbers has at most m members.
LEMMA AtMost ==
    ASSUME NEW m \in Nat, NEW S \in SUBSET (1..m)
    PROVE  IsFiniteSet(S) /\ Cardinality(S) \in 0..m
<1>1. IsFiniteSet(1..m) /\ Cardinality(1..m) = m
  BY FS_Interval
<1>2. IsFiniteSet(S) /\ Cardinality(S) <= m
  BY <1>1, FS_Subset
<1> QED
  BY <1>2, FS_CardinalityType

-----------------------------------------------------------------------------
(* Types of the history *)

(***************************************************************************)
(* Every number of the history is bounded by the rows ever written.        *)
(***************************************************************************)
Task == [pc : {"idle", "select", "commit"}, own : Nat, count : Nat, old : SUBSET Nat, late : Nat]

TaskOK(k) ==
    /\ task[k].pc \in {"idle", "select", "commit"}
    /\ task[k].own \in 0..written
    /\ task[k].pc # "idle" => task[k].own # 0
    /\ task[k].count \in 0..written
    /\ task[k].old \in SUBSET (1..written)
    /\ task[k].late \in 0..written

HistTypeInv ==
    /\ written \in 0..MaxRows
    /\ rows \in SUBSET (1..written)
    /\ fresh \in BOOLEAN
    /\ poll \in [Poll -> {"idle", "persist"}]
    /\ burst \in 0..written
    /\ unseen \in 0..written
    /\ task \in [Collector -> Task]
    /\ \A k \in Collector : TaskOK(k)

LEMMA HistTypeInit == HistInit => HistTypeInv
<1> SUFFICES ASSUME HistInit PROVE HistTypeInv
  OBVIOUS
<1>1. NoTask \in Task
  BY DEF NoTask, Task
<1>2. \A k \in Collector : TaskOK(k)
  BY DEF HistInit, TaskOK, NoTask
<1>3. task \in [Collector -> Task] /\ poll \in [Poll -> {"idle", "persist"}]
  BY <1>1 DEF HistInit
<1>4. rows = {} /\ fresh \in BOOLEAN
  BY DEF HistInit
<1>5. written = 0 /\ burst = 0 /\ unseen = 0
  BY DEF HistInit
<1>6. 0 \in 0..MaxRows
  BY MetricsAssumption
<1>7. written \in 0..MaxRows /\ burst \in 0..written /\ unseen \in 0..written
  BY <1>5, <1>6
<1> QED
  BY <1>2, <1>3, <1>4, <1>7 DEF HistTypeInv

LEMMA HistTypeNext == HistTypeInv /\ [HistNext]_histVars => HistTypeInv'
<1> SUFFICES ASSUME HistTypeInv, [HistNext]_histVars PROVE HistTypeInv'
  OBVIOUS
<1>1. /\ written \in Nat /\ written <= MaxRows /\ MaxRows \in Nat /\ Keep \in Nat
      /\ rows \in SUBSET (1..written)
      /\ burst \in 0..written /\ unseen \in 0..written
      /\ task \in [Collector -> Task]
      /\ \A k \in Collector : TaskOK(k)
  BY MetricsAssumption DEF HistTypeInv
<1>2. NoTask \in Task
  BY DEF NoTask, Task
<1>3. ASSUME NEW p \in Poll, CheckThrottle(p) \/ PersistFails(p) PROVE HistTypeInv'
  BY <1>3 DEF CheckThrottle, PersistFails, HistTypeInv, TaskOK
<1>4. CASE ThrottleExpires
  <2>1. 0 \in 0..written
    BY <1>1
  <2> QED
    BY <1>4, <2>1 DEF ThrottleExpires, HistTypeInv, TaskOK
<1>5. ASSUME NEW p \in Poll, Persist(p) PROVE HistTypeInv'
  <2>1. written' = written + 1 /\ written' \in 0..MaxRows /\ burst' = burst + 1
        /\ unseen' = unseen + 1 /\ fresh' = TRUE /\ rows' = rows \cup {written + 1}
        /\ poll' = [poll EXCEPT ![p] = "idle"]
    BY <1>1, <1>5 DEF Persist
  <2>2. ASSUME NEW k \in Collector
        PROVE  task'[k] \in Task /\ TaskOK(k)'
    <3>1. task[k] \in Task /\ TaskOK(k)
      BY <1>1
    <3>2. task'[k] = IF task[k].pc = "idle" THEN task[k]
                     ELSE [task[k] EXCEPT !.late = task[k].late + 1]
      BY <1>5 DEF Persist
    <3>3. /\ task'[k].pc = task[k].pc /\ task'[k].own = task[k].own
          /\ task'[k].count = task[k].count /\ task'[k].old = task[k].old
          /\ task'[k].late \in {task[k].late, task[k].late + 1}
          /\ task'[k] \in Task
      BY <3>1, <3>2 DEF Task
    <3> QED
      BY <1>1, <2>1, <3>1, <3>3 DEF TaskOK
  <2>3. task' \in [Collector -> Task]
    BY <1>5, <2>2 DEF Persist
  <2>4. rows' \in SUBSET (1..written')
    BY <1>1, <2>1
  <2>5. burst' \in 0..written' /\ unseen' \in 0..written'
    BY <1>1, <2>1
  <2>6. poll' \in [Poll -> {"idle", "persist"}]
    BY <2>1 DEF HistTypeInv
  <2> QED
    BY <2>1, <2>2, <2>3, <2>4, <2>5, <2>6 DEF HistTypeInv
<1>6. ASSUME NEW k \in Collector, NEW t \in Task, task' = [task EXCEPT ![k] = t],
             written' \in 0..MaxRows, written <= written', rows' \in SUBSET (1..written'),
             unseen' \in 0..written', UNCHANGED <<fresh, poll, burst>>, TaskOK(k)'
      PROVE  HistTypeInv'
  <2>1. task' \in [Collector -> Task]
    BY <1>1, <1>6
  <2>2. \A j \in Collector : TaskOK(j)'
    <3> SUFFICES ASSUME NEW j \in Collector, j # k PROVE TaskOK(j)'
      BY <1>6
    <3>1. task'[j] = task[j] /\ TaskOK(j)
      BY <1>1, <1>6
    <3> QED
      BY <1>1, <1>6, <3>1 DEF TaskOK
  <2>3. burst' \in 0..written'
    BY <1>1, <1>6
  <2> QED
    BY <1>6, <2>1, <2>2, <2>3 DEF HistTypeInv
<1>7. ASSUME NEW k \in Collector, InsertAndCount(k) PROVE HistTypeInv'
  <2> DEFINE n   == Cardinality(rows) + 1
             st  == IF n > Keep THEN "select" ELSE "commit"
             new == [NoTask EXCEPT !.pc = st, !.own = written + 1, !.count = n]
  <2>1. n \in 1..(written + 1) /\ st \in {"select", "commit"}
    <3>1. Cardinality(rows) \in 0..written
      BY <1>1, AtMost
    <3> QED
      BY <1>1, <3>1
  <2>2. /\ written' = written + 1 /\ written' \in 0..MaxRows
        /\ task' = [task EXCEPT ![k] = new]
        /\ UNCHANGED <<rows, fresh, poll, burst, unseen>>
    BY <1>1, <1>7 DEF InsertAndCount
  <2> HIDE DEF n, st
  <2>3. /\ new \in Task
        /\ new.pc = st /\ new.own = written + 1 /\ new.count = n /\ new.old = {} /\ new.late = 0
    <3>1. st \in {"idle", "select", "commit"} /\ n \in Nat /\ written + 1 \in Nat
      BY <1>1, <2>1
    <3>2. new \in Task
      BY <1>2, <3>1 DEF Task
    <3>3. new.pc = st /\ new.own = written + 1 /\ new.count = n
      BY <1>2 DEF Task
    <3>4. new.old = NoTask.old /\ new.late = NoTask.late
      BY <1>2 DEF Task
    <3>5. NoTask.old = {} /\ NoTask.late = 0
      BY DEF NoTask
    <3> QED
      BY <3>2, <3>3, <3>4, <3>5
  <2> HIDE DEF new
  <2>4. task'[k] = new
    BY <1>1, <2>2
  <2>5. TaskOK(k)'
    BY <1>1, <2>1, <2>2, <2>3, <2>4 DEF TaskOK
  <2>6. rows' \in SUBSET (1..written') /\ unseen' \in 0..written' /\ written <= written'
    BY <1>1, <2>2
  <2> QED
    BY <1>6, <2>2, <2>3, <2>5, <2>6
<1>8. ASSUME NEW k \in Collector, SelectOld(k) PROVE HistTypeInv'
  <2> DEFINE old == Oldest(task[k].count - Keep, rows \cup {task[k].own})
             new == [task[k] EXCEPT !.pc = "commit", !.old = old]
  <2>1. task[k] \in Task /\ TaskOK(k) /\ task[k].pc = "select"
    BY <1>1, <1>8 DEF SelectOld
  <2>2. old \in SUBSET (1..written)
    <3>1. task[k].own \in 1..written
      BY <1>1, <2>1 DEF TaskOK
    <3> QED
      BY <1>1, <3>1 DEF Oldest
  <2>3. old \in SUBSET Nat
    <3> HIDE DEF old
    <3> QED
      BY <1>1, <2>2
  <2>4. task' = [task EXCEPT ![k] = new] /\ UNCHANGED <<rows, written, fresh, poll, burst, unseen>>
    BY <1>1, <1>8 DEF SelectOld
  <2> HIDE DEF old
  <2>5. /\ new \in Task
        /\ new.pc = "commit" /\ new.own = task[k].own /\ new.count = task[k].count
        /\ new.old = old /\ new.late = task[k].late
    BY <2>1, <2>3 DEF Task
  <2> HIDE DEF new
  <2>6. task'[k] = new
    BY <1>1, <2>4
  <2>7. TaskOK(k)'
    BY <2>1, <2>2, <2>4, <2>5, <2>6 DEF TaskOK
  <2>8. /\ written' \in 0..MaxRows /\ written <= written' /\ rows' \in SUBSET (1..written')
        /\ unseen' \in 0..written' /\ UNCHANGED <<fresh, poll, burst>>
    BY <1>1, <2>4
  <2> QED
    BY <1>6, <2>4, <2>5, <2>7, <2>8
<1>9. ASSUME NEW k \in Collector, DeleteAndCommit(k) \/ CollectorDies(k) PROVE HistTypeInv'
  <2>1. task' = [task EXCEPT ![k] = NoTask] /\ UNCHANGED <<written, fresh, poll, burst>>
    BY <1>9 DEF DeleteAndCommit, CollectorDies
  <2>2. TaskOK(k)'
    BY <1>1, <2>1 DEF TaskOK, NoTask
  <2>3. rows' \in SUBSET (1..written') /\ unseen' \in 0..written'
    <3>1. CASE DeleteAndCommit(k)
      <4>1. /\ rows' = (rows \cup {task[k].own}) \ task[k].old /\ unseen' = task[k].late
            /\ task[k].pc = "commit" /\ TaskOK(k)
        BY <1>1, <3>1 DEF DeleteAndCommit
      <4>2. task[k].own \in 1..written /\ task[k].late \in 0..written
        BY <1>1, <4>1 DEF TaskOK
      <4> QED
        BY <1>1, <2>1, <4>1, <4>2
    <3>2. CASE CollectorDies(k)
      BY <1>1, <2>1, <3>2 DEF CollectorDies
    <3> QED
      BY <1>9, <3>1, <3>2
  <2>4. written' \in 0..MaxRows /\ written <= written' /\ UNCHANGED <<fresh, poll, burst>>
    BY <1>1, <2>1
  <2> QED
    BY <1>2, <1>6, <2>1, <2>2, <2>3, <2>4
<1>10. CASE UNCHANGED histVars
  BY <1>10 DEF histVars, HistTypeInv, TaskOK
<1> QED
  BY <1>3, <1>4, <1>5, <1>7, <1>8, <1>9, <1>10 DEF HistNext

LEMMA HistTypeFollows == HistTypeInv => HistTypeOK
<1> SUFFICES ASSUME HistTypeInv PROVE HistTypeOK
  OBVIOUS
<1>1. written \in Nat /\ MaxRows \in Nat /\ written <= MaxRows
  BY MetricsAssumption DEF HistTypeInv
<1>2. 0..written \subseteq 0..MaxRows /\ 1..written \subseteq Row
  BY <1>1 DEF Row
<1>3. ASSUME NEW k \in Collector
      PROVE  task[k] \in [pc : {"idle", "select", "commit"}, own : 0..MaxRows,
                          count : 0..MaxRows, old : SUBSET Row, late : 0..MaxRows]
  <2>1. task[k] \in Task /\ TaskOK(k)
    BY DEF HistTypeInv
  <2>2. /\ task[k].own \in 0..MaxRows /\ task[k].count \in 0..MaxRows
        /\ task[k].late \in 0..MaxRows /\ task[k].old \in SUBSET Row
    BY <1>2, <2>1 DEF TaskOK
  <2>3. task[k].pc \in {"idle", "select", "commit"}
    BY <2>1 DEF TaskOK
  <2>4. task[k] = [pc |-> task[k].pc, own |-> task[k].own, count |-> task[k].count,
                   old |-> task[k].old, late |-> task[k].late]
    BY <2>1 DEF Task
  <2> QED
    BY <2>2, <2>3, <2>4
<1>4. task \in [Collector -> [pc : {"idle", "select", "commit"}, own : 0..MaxRows,
                              count : 0..MaxRows, old : SUBSET Row, late : 0..MaxRows]]
  BY <1>3 DEF HistTypeInv
<1> QED
  BY <1>2, <1>4 DEF HistTypeInv, HistTypeOK

-----------------------------------------------------------------------------
(* One collector *)

(***************************************************************************)
(* What a collector has counted is there when it reads, and what it has    *)
(* read to delete leaves the rows to keep: only it deletes.                *)
(***************************************************************************)
After(k) == (rows \cup {task[k].own}) \ task[k].old

TaskInv(k) ==
    /\ task[k].pc # "idle" =>
         task[k].own \in 1..written /\ task[k].own \notin rows /\ task[k].old \in SUBSET (1..written)
    /\ task[k].pc = "select" =>
         task[k].count \in Nat /\ task[k].count > Keep /\ task[k].count <= Cardinality(rows) + 1
    /\ task[k].pc = "commit" =>
         \A r \in task[k].old : Cardinality({s \in After(k) : s > r}) >= Keep

HistInv ==
    /\ written \in Nat
    /\ rows \in SUBSET (1..written)
    /\ task \in [Collector -> Task]
    /\ \A k \in Collector : TaskInv(k)

LEMMA HistInvInit == Init => HistInv
  BY DEF Init, HistInit, HistInv, TaskInv, NoTask, Task

\* Adding rows takes nothing from what a collector may count on.
LEMMA MoreRows ==
    ASSUME HistInv, NEW k \in Collector, rows' \in SUBSET (1..written'), written' \in Nat,
           rows \subseteq rows', written <= written', task[k].own \notin rows',
           task'[k].pc = task[k].pc, task'[k].own = task[k].own,
           task'[k].count = task[k].count, task'[k].old = task[k].old
    PROVE  TaskInv(k)'
<1> DEFINE top == written'
           all == rows'
<1>0. top \in Int /\ 1 \in Int
  OBVIOUS
<1>1. IsFiniteSet(1..top)
  <2> HIDE DEF top
  <2> QED
    BY <1>0, FS_Interval
<1>2. IsFiniteSet(all)
  BY <1>1, FS_Subset
<1>3. IsFiniteSet(rows) /\ Cardinality(rows) <= Cardinality(rows')
  BY <1>2, FS_Subset
<1>4. Cardinality(rows) \in Nat /\ Cardinality(rows') \in Nat
  BY <1>2, <1>3, FS_CardinalityType
<1>5. Keep \in Nat
  BY MetricsAssumption
<1>6. TaskInv(k)
  BY DEF HistInv
<1>7. task[k].pc # "idle" =>
        task[k].own \in 1..written' /\ task[k].old \in SUBSET (1..written')
  BY <1>6 DEF TaskInv, HistInv
<1>8. ASSUME task[k].pc = "commit", NEW r \in task[k].old
      PROVE  Cardinality({s \in After(k)' : s > r}) >= Keep
  <2> DEFINE Now  == {s \in After(k) : s > r}
             Then == {s \in After(k)' : s > r}
  <2>1. Now \in SUBSET Then
    BY DEF After
  <2>2. IsFiniteSet(After(k)')
    <3>1. IsFiniteSet(rows' \cup {task'[k].own})
      BY <1>2, FS_AddElement
    <3> QED
      BY <3>1, FS_Difference DEF After
  <2>3. IsFiniteSet(Then) /\ IsFiniteSet(Now) /\ Cardinality(Now) <= Cardinality(Then)
    BY <2>1, <2>2, FS_Subset
  <2>4. Cardinality(Now) \in Nat /\ Cardinality(Then) \in Nat
    BY <2>3, FS_CardinalityType
  <2>5. Cardinality(Now) >= Keep
    BY <1>6, <1>8 DEF TaskInv
  <2> QED
    BY <1>5, <2>3, <2>4, <2>5
<1>9. task[k].pc = "select" =>
        task[k].count \in Nat /\ task[k].count > Keep /\ task[k].count <= Cardinality(rows') + 1
  BY <1>3, <1>4, <1>6 DEF TaskInv
<1>10. \A r \in task'[k].old : task'[k].pc = "commit" => Cardinality({s \in After(k)' : s > r}) >= Keep
  BY <1>8
<1> QED
  BY <1>7, <1>9, <1>10 DEF TaskInv

\* A collector that reads the oldest rows leaves those to keep.
LEMMA SelectKeeps ==
    ASSUME HistInv, NEW k \in Collector, SelectOld(k)
    PROVE  TaskInv(k)'
<1> DEFINE S == rows \cup {task[k].own}
<1>1. task[k].pc = "select" /\ TaskInv(k) /\ written \in Nat /\ rows \in SUBSET (1..written)
  BY DEF SelectOld, HistInv
<1>2. task[k].own \in 1..written /\ task[k].own \notin rows /\ task[k].count \in Nat
      /\ task[k].count > Keep /\ task[k].count <= Cardinality(rows) + 1
  BY <1>1 DEF TaskInv
<1>3. S \in SUBSET (1..written)
  BY <1>1, <1>2
<1>4. IsFiniteSet(rows)
  <2>1. IsFiniteSet(1..written)
    BY <1>1, FS_Interval
  <2> QED
    BY <1>1, <2>1, FS_Subset
<1>5. Cardinality(S) = Cardinality(rows) + 1
  BY <1>2, <1>4, FS_AddElement
<1>6. task'[k].pc = "commit" /\ task'[k].own = task[k].own /\ rows' = rows /\ written' = written
      /\ task'[k].old = Oldest(task[k].count - Keep, S)
  BY DEF SelectOld, HistInv
<1>7. After(k)' = S \ Oldest(task[k].count - Keep, S)
  BY <1>6 DEF After
<1>8. \A r \in Oldest(task[k].count - Keep, S) :
        Cardinality({s \in S \ Oldest(task[k].count - Keep, S) : s > r}) >= Keep
  BY <1>1, <1>2, <1>3, <1>5, RestIsKept
<1>9. Oldest(task[k].count - Keep, S) \in SUBSET (1..written)
  BY <1>3 DEF Oldest
<1> QED
  BY <1>2, <1>6, <1>7, <1>8, <1>9 DEF TaskInv

LEMMA HistInvNext ==
    ASSUME NEW c, Collector = {c}, HistInv, [HistNext]_histVars
    PROVE  HistInv'
<1> USE DEF Task
<1>1. written \in Nat /\ rows \in SUBSET (1..written) /\ task \in [Collector -> Task]
      /\ \A k \in Collector : TaskInv(k)
  BY DEF HistInv
<1>2. NoTask \in Task /\ NoTask.pc = "idle"
  BY DEF NoTask
<1>3. IsFiniteSet(rows) /\ Cardinality(rows) \in Nat
  <2>1. IsFiniteSet(1..written)
    BY <1>1, FS_Interval
  <2> QED
    BY <1>1, <2>1, FS_Subset, FS_CardinalityType
<1>4. ASSUME NEW p \in Poll, Persist(p) PROVE HistInv'
  <2>1. written' \in Nat /\ written' = written + 1 /\ rows' = rows \cup {written + 1}
    BY <1>1, <1>4 DEF Persist
  <2>2. rows' \in SUBSET (1..written')
    BY <1>1, <2>1
  <2>3. \A k \in Collector : task'[k] = IF task[k].pc = "idle" THEN task[k]
                                       ELSE [task[k] EXCEPT !.late = task[k].late + 1]
    BY <1>4 DEF Persist
  <2>4. ASSUME NEW k \in Collector
        PROVE  /\ task'[k] \in Task
               /\ task'[k].pc = task[k].pc /\ task'[k].own = task[k].own
               /\ task'[k].count = task[k].count /\ task'[k].old = task[k].old
    <3>1. task[k] \in Task
      BY <1>1
    <3> QED
      BY <2>3, <3>1
  <2>5. task' \in [Collector -> Task]
    BY <1>4, <2>4 DEF Persist
  <2>6. ASSUME NEW k \in Collector PROVE TaskInv(k)'
    <3>1. CASE task[k].pc = "idle"
      BY <2>4, <3>1 DEF TaskInv
    <3>2. CASE task[k].pc # "idle"
      <4>1. task[k].own \notin rows' /\ rows \subseteq rows' /\ written <= written'
        BY <1>1, <2>1, <3>2 DEF TaskInv
      <4> QED
        BY <2>1, <2>2, <2>4, <4>1, MoreRows
    <3> QED
      BY <3>1, <3>2
  <2> QED
    BY <2>1, <2>2, <2>5, <2>6 DEF HistInv
<1>5. ASSUME NEW k \in Collector, InsertAndCount(k) PROVE HistInv'
  <2>1. /\ written' = written + 1 /\ rows' = rows
        /\ task[k].pc = "idle" /\ task' \in [Collector -> Task]
        /\ task'[k].own = written + 1 /\ task'[k].old = {} /\ task'[k].count = Cardinality(rows) + 1
        /\ task'[k].pc = IF Cardinality(rows) + 1 > Keep THEN "select" ELSE "commit"
    <3> DEFINE st  == IF Cardinality(rows) + 1 > Keep THEN "select" ELSE "commit"
               cnt == Cardinality(rows) + 1
               New == [NoTask EXCEPT !.pc = st, !.own = written + 1, !.count = cnt]
    <3>1. task[k].pc = "idle" /\ written' = written + 1 /\ rows' = rows
          /\ task' = [task EXCEPT ![k] = New]
      BY <1>5 DEF InsertAndCount
    <3>a. st \in {"idle", "select", "commit"} /\ cnt \in Nat /\ written + 1 \in Nat
      BY <1>1, <1>3
    <3>b. /\ st = (IF Cardinality(rows) + 1 > Keep THEN "select" ELSE "commit")
          /\ cnt = Cardinality(rows) + 1
      OBVIOUS
    <3> HIDE DEF st, cnt
    <3>2. New \in Task /\ New.own = written + 1 /\ New.old = {} /\ New.count = cnt /\ New.pc = st
      <4>1. New \in Task
        BY <1>2, <3>a
      <4>2. New.own = written + 1 /\ New.count = cnt /\ New.pc = st
        BY <1>2
      <4>3. New.old = NoTask.old
        BY <1>2
      <4>4. NoTask.old = {}
        BY DEF NoTask
      <4> QED
        BY <4>1, <4>2, <4>3, <4>4
    <3> HIDE DEF New
    <3>3. task' \in [Collector -> Task] /\ task'[k] = New
      BY <1>1, <3>1, <3>2
    <3> QED
      BY <3>1, <3>2, <3>3, <3>b
  <2>2. written + 1 \in 1..written' /\ written + 1 \notin rows /\ rows' \in SUBSET (1..written')
        /\ written' \in Nat
    BY <1>1, <2>1
  <2>3. TaskInv(k)'
    BY <1>3, <2>1, <2>2 DEF TaskInv
  <2> QED
    BY <2>1, <2>2, <2>3 DEF HistInv
<1>6. ASSUME NEW k \in Collector, SelectOld(k) PROVE HistInv'
  <2>1. TaskInv(k)'
    BY <1>6, SelectKeeps
  <2>2. task'[k].old \in SUBSET (1..written)
    BY <1>6, <2>1 DEF TaskInv, SelectOld, HistInv
  <2>3. task'[k].old = Oldest(task[k].count - Keep, rows \cup {task[k].own})
    BY <1>1, <1>6 DEF SelectOld
  <2>4. Oldest(task[k].count - Keep, rows \cup {task[k].own}) \in SUBSET Nat
    <3>1. task[k].own \in Nat
      BY <1>1
    <3>2. Oldest(task[k].count - Keep, rows \cup {task[k].own}) \subseteq rows \cup {task[k].own}
      BY DEF Oldest
    <3>3. rows \in SUBSET (1..written)
      BY <1>1
    <3>4. rows \cup {task[k].own} \subseteq Nat
      BY <3>1, <3>3
    <3> QED
      BY <3>2, <3>4
  <2>5. task' \in [Collector -> Task]
    BY <1>1, <1>6, <2>4 DEF SelectOld
  <2> QED
    BY <1>1, <1>6, <2>1, <2>5 DEF HistInv, SelectOld
<1>7. ASSUME NEW k \in Collector, task' = [task EXCEPT ![k] = NoTask],
             written' = written, rows' \in SUBSET (1..written)
      PROVE  HistInv'
  <2>1. task' \in [Collector -> Task] /\ task'[k].pc = "idle"
    BY <1>1, <1>2, <1>7
  <2>2. TaskInv(k)'
    BY <2>1 DEF TaskInv
  <2> QED
    BY <1>1, <1>7, <2>1, <2>2 DEF HistInv
<1>8. ASSUME NEW k \in Collector, DeleteAndCommit(k) PROVE HistInv'
  <2>1. task[k].own \in 1..written
    BY <1>1, <1>8 DEF DeleteAndCommit, TaskInv
  <2> QED
    BY <1>1, <1>7, <1>8, <2>1 DEF DeleteAndCommit
<1>9. ASSUME NEW k \in Collector, CollectorDies(k) PROVE HistInv'
  BY <1>1, <1>7, <1>9 DEF CollectorDies
<1>10. CASE UNCHANGED <<rows, written, task>>
  BY <1>10 DEF HistInv, TaskInv, After
<1> QED
  BY <1>4, <1>5, <1>6, <1>8, <1>9, <1>10
  DEF HistNext, histVars, CheckThrottle, PersistFails, ThrottleExpires

(***************************************************************************)
(* With one collector a row that is removed leaves at least as many newer  *)
(* ones as are to be kept, whatever the live endpoint adds between its     *)
(* count, its read and its delete (_collect_metrics_async).                *)
(***************************************************************************)
THEOREM OneCollectorKeepsTheNewest ==
    ASSUME NEW c, Collector = {c}
    PROVE  Spec => NewestKept
<1> DEFINE Kept == \A r \in rows \ rows' : Cardinality({s \in rows' : s > r}) >= Keep
<1>1. HistInv /\ [HistNext]_histVars => [Kept]_histVars
  <2> SUFFICES ASSUME HistInv, HistNext PROVE Kept
    OBVIOUS
  <2>1. CASE rows \subseteq rows'
    BY <2>1
  <2>2. ASSUME NEW k \in Collector, DeleteAndCommit(k) PROVE Kept
    <3>1. rows' = After(k) /\ task[k].pc = "commit" /\ TaskInv(k)
      BY <2>2 DEF DeleteAndCommit, After, HistInv
    <3>2. \A r \in rows \ rows' : r \in task[k].old
      BY <3>1 DEF After
    <3>3. \A r \in task[k].old : Cardinality({s \in After(k) : s > r}) >= Keep
      BY <3>1 DEF TaskInv
    <3> QED
      BY <3>1, <3>2, <3>3
  <2> QED
    BY <2>1, <2>2 DEF HistNext, CheckThrottle, Persist, PersistFails, ThrottleExpires,
                      InsertAndCount, SelectOld, CollectorDies
<1>2. HistInv /\ [HistNext]_histVars => HistInv'
  BY HistInvNext
<1>3. NewestKept <=> [][Kept]_histVars
  BY DEF NewestKept
<1> HIDE DEF Kept
<1> QED
  BY <1>1, <1>2, <1>3, HistInvInit, HistoryStep, PTL DEF Spec

-----------------------------------------------------------------------------
(* The limit *)

(***************************************************************************)
(* What a collector has counted falls short of what is there by the rows   *)
(* of live requests since, and so does what it is about to leave.          *)
(***************************************************************************)
BoundInv ==
    /\ HistInv
    /\ unseen \in Nat
    /\ Cardinality(rows) <= Keep + unseen
    /\ \A k \in Collector :
         /\ task[k].pc = "select" => Cardinality(rows) + 1 = task[k].count + task[k].late
         /\ task[k].pc = "commit" => Cardinality(After(k)) <= Keep + task[k].late

LEMMA BoundInvInit == Init => BoundInv
<1> SUFFICES ASSUME Init PROVE BoundInv
  OBVIOUS
<1>1. Cardinality(rows) = 0
  BY FS_EmptySet DEF Init, HistInit
<1> QED
  BY <1>1, HistInvInit, MetricsAssumption DEF Init, HistInit, BoundInv, NoTask

LEMMA BoundInvNext ==
    ASSUME NEW c, Collector = {c}, BoundInv, [HistNext]_histVars
    PROVE  BoundInv'
<1>0. HistInv'
  BY HistInvNext DEF BoundInv
<1>1. /\ written \in Nat /\ rows \in SUBSET (1..written) /\ unseen \in Nat /\ Keep \in Nat
      /\ task \in [Collector -> Task]
      /\ c \in Collector /\ TaskInv(c)
      /\ Cardinality(rows) <= Keep + unseen
      /\ task[c].pc = "select" => Cardinality(rows) + 1 = task[c].count + task[c].late
      /\ task[c].pc = "commit" => Cardinality(After(c)) <= Keep + task[c].late
  BY MetricsAssumption DEF BoundInv, HistInv, Task
<1>2. IsFiniteSet(rows) /\ Cardinality(rows) \in Nat
  BY <1>1, AtMost
<1>3. SUFFICES /\ unseen' \in Nat
               /\ Cardinality(rows') <= Keep + unseen'
               /\ task'[c].pc = "select" => Cardinality(rows') + 1 = task'[c].count + task'[c].late
               /\ task'[c].pc = "commit" => Cardinality(After(c)') <= Keep + task'[c].late
  BY <1>0 DEF BoundInv
<1>4. task[c] \in Task
  BY <1>1
<1>5. ASSUME NEW p \in Poll, Persist(p) PROVE <1>3!1
  <2>1. /\ unseen' = unseen + 1 /\ rows' = rows \cup {written + 1} /\ written + 1 \notin rows
        /\ task'[c] = IF task[c].pc = "idle" THEN task[c]
                      ELSE [task[c] EXCEPT !.late = task[c].late + 1]
    BY <1>1, <1>5 DEF Persist
  <2>2. Cardinality(rows') = Cardinality(rows) + 1
    BY <1>2, <2>1, FS_AddElement
  <2>3. CASE task[c].pc = "idle"
    BY <1>1, <1>2, <2>1, <2>2, <2>3
  <2>4. CASE task[c].pc # "idle"
    <3>1. /\ task'[c].pc = task[c].pc /\ task'[c].own = task[c].own /\ task'[c].old = task[c].old
          /\ task'[c].count = task[c].count /\ task'[c].late = task[c].late + 1
          /\ task[c].late \in Nat /\ task[c].count \in Nat
      BY <1>4, <2>1, <2>4 DEF Task
    <3>2. After(c)' \in SUBSET (After(c) \cup {written + 1})
      BY <2>1, <3>1 DEF After
    <3>3. IsFiniteSet(After(c)) /\ Cardinality(After(c)) \in Nat
      <4>1. IsFiniteSet(rows \cup {task[c].own})
        BY <1>2, FS_AddElement
      <4>2. After(c) \in SUBSET (rows \cup {task[c].own})
        BY DEF After
      <4> QED
        BY <4>1, <4>2, FS_Subset, FS_CardinalityType
    <3>4. /\ IsFiniteSet(After(c) \cup {written + 1})
          /\ Cardinality(After(c) \cup {written + 1}) <= Cardinality(After(c)) + 1
          /\ Cardinality(After(c) \cup {written + 1}) \in Nat
      <4>1. /\ IsFiniteSet(After(c) \cup {written + 1})
            /\ Cardinality(After(c) \cup {written + 1}) =
                 IF written + 1 \in After(c) THEN Cardinality(After(c)) ELSE Cardinality(After(c)) + 1
        BY <3>3, FS_AddElement
      <4> QED
        BY <3>3, <4>1
    <3>5. Cardinality(After(c)') <= Cardinality(After(c)) + 1 /\ Cardinality(After(c)') \in Nat
      <4>1. /\ IsFiniteSet(After(c)')
            /\ Cardinality(After(c)') <= Cardinality(After(c) \cup {written + 1})
        BY <3>2, <3>4, FS_Subset
      <4>2. Cardinality(After(c)') \in Nat
        BY <4>1, FS_CardinalityType
      <4> QED
        BY <3>3, <3>4, <4>1, <4>2
    <3>6. task'[c].pc = "commit" => Cardinality(After(c)') <= Keep + task'[c].late
      BY <1>1, <3>1, <3>3, <3>5
    <3> QED
      BY <1>1, <1>2, <2>1, <2>2, <3>1, <3>6
  <2> QED
    BY <2>3, <2>4
<1>6. CASE InsertAndCount(c)
  <2> DEFINE n  == Cardinality(rows) + 1
             st == IF n > Keep THEN "select" ELSE "commit"
  <2>1. rows' = rows /\ unseen' = unseen
        /\ task'[c] = [NoTask EXCEPT !.pc = st, !.own = written + 1, !.count = n]
    BY <1>1, <1>6 DEF InsertAndCount
  <2>2. n \in Nat /\ (st = "commit" => n <= Keep) /\ n = Cardinality(rows) + 1
    BY <1>1, <1>2
  <2> HIDE DEF n, st
  <2>3. /\ task'[c].pc = st /\ task'[c].own = written + 1 /\ task'[c].count = n
        /\ task'[c].old = {} /\ task'[c].late = 0
    BY <2>1 DEF NoTask
  <2>4. Cardinality(After(c)') = n
    <3>1. After(c)' = rows \cup {written + 1} /\ written + 1 \notin rows
      BY <1>1, <2>1, <2>3 DEF After
    <3> QED
      BY <1>2, <2>2, <3>1, FS_AddElement
  <2> QED
    BY <1>1, <1>2, <2>1, <2>2, <2>3, <2>4
<1>7. CASE SelectOld(c)
  <2> DEFINE all == rows \cup {task[c].own}
             n   == task[c].count - Keep
             old == Oldest(n, all)
  <2>1. /\ rows' = rows /\ unseen' = unseen /\ task[c].pc = "select"
        /\ task'[c] = [task[c] EXCEPT !.pc = "commit", !.old = old]
    BY <1>1, <1>7 DEF SelectOld
  <2>2. /\ task[c].own \in 1..written /\ task[c].own \notin rows
        /\ task[c].count \in Nat /\ task[c].count > Keep /\ task[c].late \in Nat
    BY <1>1, <1>4, <2>1 DEF TaskInv, Task
  <2>3. /\ all \in SUBSET (1..written) /\ n \in Nat
        /\ Cardinality(all) = Cardinality(rows) + 1 /\ IsFiniteSet(all)
    BY <1>1, <1>2, <2>2, FS_AddElement
  <2>4. Cardinality(all) = task[c].count + task[c].late
    BY <1>1, <2>1, <2>3
  <2>5. n <= Cardinality(all)
    BY <1>1, <2>2, <2>4
  <2> HIDE DEF all
  <2>6. Cardinality(old) >= n /\ Cardinality(old) \in Nat /\ IsFiniteSet(old)
    BY <1>1, <2>3, <2>5, OldestReaches, OldestBound
  <2>7. old \in SUBSET all
    BY DEF Oldest
  <2>8. Cardinality(all \ old) = Cardinality(all) - Cardinality(old)
    <3> HIDE DEF old
    <3>1. all \cap old = old
      BY <2>7
    <3>2. IsFiniteSet(all)
      BY <2>3
    <3>3. Cardinality(all \ old) = Cardinality(all) - Cardinality(all \cap old)
      BY <3>2, FS_Difference
    <3> QED
      BY <3>1, <3>3
  <2> HIDE DEF old
  <2>9. /\ task'[c].pc = "commit" /\ task'[c].own = task[c].own /\ task'[c].old = old
        /\ task'[c].late = task[c].late
    BY <1>4, <2>1 DEF Task
  <2>10. After(c)' = all \ old
    BY <2>1, <2>9 DEF After, all
  <2>11. Cardinality(After(c)') <= Keep + task'[c].late
    BY <1>1, <2>2, <2>4, <2>6, <2>8, <2>9, <2>10
  <2> QED
    BY <1>1, <2>1, <2>9, <2>11
<1>8. CASE DeleteAndCommit(c)
  <2>1. task[c].pc = "commit" /\ rows' = After(c) /\ unseen' = task[c].late /\ task'[c] = NoTask
    BY <1>1, <1>8 DEF DeleteAndCommit, After
  <2>2. task[c].late \in Nat
    BY <1>4 DEF Task
  <2> QED
    BY <1>1, <2>1, <2>2 DEF NoTask
<1>9. CASE CollectorDies(c)
  <2>1. rows' = rows /\ unseen' = unseen /\ task'[c] = NoTask
    BY <1>1, <1>9 DEF CollectorDies
  <2> QED
    BY <1>1, <2>1 DEF NoTask
<1>10. CASE UNCHANGED <<rows, unseen, task>>
  BY <1>1, <1>10 DEF After
<1> QED
  BY <1>5, <1>6, <1>7, <1>8, <1>9, <1>10
  DEF HistNext, histVars, CheckThrottle, PersistFails, ThrottleExpires

(***************************************************************************)
(* With one collector the history stays within the rows to keep and those  *)
(* that live requests have added since it counted                          *)
(* (_collect_metrics_async).                                               *)
(***************************************************************************)
THEOREM OneCollectorBoundsTheHistory ==
    ASSUME NEW c, Collector = {c}
    PROVE  Spec => []HistoryBounded
<1>1. BoundInv => HistoryBounded
  BY DEF BoundInv, HistoryBounded
<1>2. BoundInv /\ [HistNext]_histVars => BoundInv'
  BY BoundInvNext
<1> QED
  BY <1>1, <1>2, BoundInvInit, HistoryStep, PTL DEF Spec

-----------------------------------------------------------------------------
(* Types *)

(***************************************************************************)
(* Whatever the number of connections, requests and collectors, a queue    *)
(* never holds more than its limit (asyncio.Queue(maxsize=20)), and what   *)
(* collectors and requests count never passes the rows ever written.       *)
(***************************************************************************)
THEOREM TypeCorrect == Spec => []TypeOK
<1>1. Init => FeedInv /\ HistTypeInv
  BY FeedInvInit, HistTypeInit DEF Init
<1>2. FeedInv /\ HistTypeInv /\ [Next]_vars => (FeedInv /\ HistTypeInv)'
  BY FeedStep, FeedInvNext, HistoryStep, HistTypeNext
<1>3. FeedInv /\ HistTypeInv => TypeOK
  BY HistTypeFollows DEF FeedInv, TypeOK
<1> QED
  BY <1>1, <1>2, <1>3, PTL DEF Spec
=============================================================================
