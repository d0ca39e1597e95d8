---------------------------- MODULE PromptProofs ----------------------------
(***************************************************************************)
(* What TLAPS proves of the whole protocol without delays and deaths, for  *)
(* every number of workers, requests and Worker objects: heartbeats keep   *)
(* each waiting worker alive, and the broker never expires or deletes one  *)
(* by mistake.                                                             *)
(***************************************************************************)
EXTENDS MajordomoProofs

(***************************************************************************)
(* A turn of the broker: n is the broker when its handler is about to      *)
(* dispatch, b when the handler returns.  No worker's time is up, so only  *)
(* the dispatch takes workers out of the queues.                           *)
(***************************************************************************)
AllFresh(b) == NoStale(b) /\ Expired(b) = {}

\* What the handler has not done yet when it dispatches.
Unsent(n) == (\A o \in Obj : n.out.copies[o] = 0) /\ n.out.heartbeat = {}

\* The dispatch takes o out of the queues, or leaves it there.
Leaves(n, b, o) ==
    /\ b.svcWaiting[o] = n.svcWaiting[o] /\ b.waiting[o] = n.waiting[o]
    /\ b.out.copies[o] = n.out.copies[o]
Takes(n, b, o) ==
    /\ n.svcWaiting[o] > 0 /\ b.svcWaiting[o] = 0
    /\ b.waiting[o] = n.waiting[o] - n.svcWaiting[o]
    /\ b.out.copies[o] = n.svcWaiting[o]

Deals(n, b) ==
    /\ b.workers = n.workers /\ b.left = n.left /\ b.heartbeatDue = n.heartbeatDue
    /\ b.out.disconnect = n.out.disconnect /\ b.out.heartbeat = n.out.heartbeat
    /\ \A o \in Obj : Leaves(n, b, o) \/ Takes(n, b, o)

LEMMA DealsNothing == \A n : Deals(n, n)
BY DEF Deals, Leaves

LEMMA PurgeNothing ==
    ASSUME NEW b, BrokerOK(b), Expired(b) = {}
    PROVE  PurgeWorkers(b) = b
<1>1. CASE ~Running(b)
  BY <1>1 DEF PurgeWorkers
<1>2. CASE Running(b)
  <2>1. ~PurgeFails(b) /\ ExpiredOwners(b) = {}
    BY DEF PurgeFails, ExpiredOwners
  <2>2. /\ b.workers = [w \in Worker |-> b.workers[w]]
        /\ b.waiting = [o \in Obj |-> b.waiting[o]]
        /\ b.svcWaiting = [o \in Obj |-> b.svcWaiting[o]]
        /\ b.epBytes = b.epBytes \ {}
    BY DEF BrokerOK, BrokerType
  <2>3. PurgeExpired(b) = [b EXCEPT !.workers = b.workers, !.waiting = b.waiting,
                                    !.svcWaiting = b.svcWaiting, !.epBytes = b.epBytes]
    BY <2>1, <2>2 DEF PurgeExpired
  <2>4. PurgeExpired(b) = b
    BY <2>3 DEF BrokerOK, BrokerType
  <2> QED BY <1>2, <2>1, <2>4 DEF PurgeWorkers
<1> QED BY <1>1, <1>2

LEMMA AssignDeals ==
    ASSUME NEW b, BrokerOK(b), NEW s \in Service, DispatchReady(b, s),
           NEW leader \in Entries(b, s), Unsent(b)
    PROVE  Deals(b, Assign(b, s, leader))
<1> DEFINE st == StripOfBytes(b, s)
           t  == TakeWorkers(st, s)
           d  == Assign(b, s, leader)
<1>1. /\ st.svcWaiting = b.svcWaiting /\ st.waiting = b.waiting /\ st.left = b.left
      /\ st.workers = b.workers /\ st.heartbeatDue = b.heartbeatDue
      /\ st.out = b.out /\ st \in BrokerType
  BY DEF BrokerOK, BrokerType, StripOfBytes
<1>2. Entries(st, s) = Entries(b, s)
  BY <1>1 DEF Entries
<1>3. /\ t.out = b.out /\ t.left = b.left /\ t.workers = b.workers
      /\ t.heartbeatDue = b.heartbeatDue
      /\ \A o \in Obj : t.waiting[o] = IF o \in Entries(b, s)
                                       THEN b.waiting[o] - b.svcWaiting[o]
                                       ELSE b.waiting[o]
      /\ \A o \in Obj : t.svcWaiting[o] = IF o \in Entries(b, s) THEN 0 ELSE b.svcWaiting[o]
  BY <1>1, <1>2 DEF TakeWorkers, BrokerType
<1>4. /\ d.waiting = t.waiting /\ d.svcWaiting = t.svcWaiting /\ d.left = t.left
      /\ d.workers = t.workers /\ d.heartbeatDue = t.heartbeatDue
      /\ d.out.disconnect = t.out.disconnect /\ d.out.heartbeat = t.out.heartbeat
      /\ d.out.copies = Copies(b, s)
  BY <1>1, <1>3, ZenonT(60) DEF Assign, TakeWorkers, BrokerType, OutputType
<1> HIDE DEF t, d
<1>5. ASSUME NEW o \in Obj PROVE Leaves(b, d, o) \/ Takes(b, d, o)
  <2>1. CASE o \in Entries(b, s)
    BY <1>3, <1>4, <2>1 DEF Takes, Copies, Entries
  <2>2. CASE o \notin Entries(b, s)
    BY <1>3, <1>4, <2>2 DEF Leaves, Copies, Unsent
  <2> QED BY <2>1, <2>2
<1> QED BY <1>3, <1>4, <1>5 DEF Deals, d

LEMMA DispatchDeals ==
    ASSUME NEW n, BrokerOK(n), Expired(n) = {}, Running(n), Unsent(n), NEW s \in Service,
           NEW b \in Dispatch(n, s)
    PROVE  b.status # "KeyError" /\ (Running(b) => Deals(n, b))
<1>1. b \in DispatchTo(n, s)
  BY PurgeNothing, DispatchPurges
<1>2. CASE ~DispatchReady(n, s)
  <2>1. b = n
    BY <1>1, <1>2 DEF DispatchTo
  <2> QED BY <2>1, DealsNothing DEF Running
<1>3. CASE DispatchReady(n, s)
  <2>1. ~ \E o \in Entries(n, s) : n.svcWaiting[o] > n.waiting[o]
    BY DEF BrokerOK, BrokerType, Covers, Entries
  <2>2. \/ b \in {Raise(n, e) : e \in StripFailures(n, s)}
        \/ b \in {Assign(n, s, leader) : leader \in Entries(n, s)}
    BY <1>1, <1>3, <2>1 DEF DispatchTo
  <2>3. StripFailures(n, s) \subseteq {"RuntimeError", "TypeError"}
    BY DEF StripFailures
  <2>4. ASSUME NEW e \in StripFailures(n, s), b = Raise(n, e)
        PROVE  b.status # "KeyError" /\ ~Running(b)
    BY <2>3, <2>4 DEF Raise, Running, BrokerOK, BrokerType
  <2>5. ASSUME NEW leader \in Entries(n, s), b = Assign(n, s, leader)
        PROVE  b.status # "KeyError" /\ Deals(n, b)
    BY <1>3, <2>5, AssignDeals, AssignChanges DEF Running
  <2> QED BY <2>2, <2>4, <2>5
<1> QED BY <1>2, <1>3

\* What a dispatch leaves is in order again, and nobody's time is up.
LEMMA DealsKeep ==
    ASSUME NEW n, BrokerOK(n), AllFresh(n), NEW b, BrokerOK(b), Deals(n, b)
    PROVE  AllFresh(b)
<1>1. ASSUME NEW o \in Obj
      PROVE  /\ b.waiting[o] = b.svcWaiting[o] /\ b.waiting[o] <= 1
             /\ b.waiting[o] > 0 => b.workers[OwnerOf[o]] = o /\ b.left[o] # 0
  <2>1. /\ n.waiting[o] = n.svcWaiting[o] /\ n.waiting[o] <= 1 /\ n.svcWaiting[o] \in Nat
        /\ n.waiting[o] > 0 => n.workers[OwnerOf[o]] = o /\ n.left[o] # 0
    BY DEF AllFresh, NoStale, Expired, BrokerOK, BrokerType
  <2>2. b.workers = n.workers /\ b.left = n.left /\ (Leaves(n, b, o) \/ Takes(n, b, o))
    BY DEF Deals
  <2> QED BY <2>1, <2>2 DEF Leaves, Takes
<1>2. NoStale(b)
  BY <1>1 DEF NoStale
<1>3. Expired(b) = {}
  BY <1>1 DEF Expired
<1> QED BY <1>2, <1>3 DEF AllFresh

\* Then nothing is purged at the end of the turn.
LEMMA EndTurnBeats ==
    ASSUME NEW b, BrokerOK(b), AllFresh(b)
    PROVE  LET end == EndTurn(b)
           IN  /\ end.status = b.status /\ end.workers = b.workers /\ end.left = b.left
               /\ end.waiting = b.waiting /\ end.svcWaiting = b.svcWaiting
               /\ end.out.disconnect = b.out.disconnect /\ end.out.copies = b.out.copies
               /\ Running(b) => ~end.heartbeatDue
               /\ Running(b) => end.out.heartbeat =
                     IF b.heartbeatDue THEN {OwnerOf[o] : o \in {x \in Obj : b.waiting[x] > 0}}
                     ELSE b.out.heartbeat
<1>1. EndTurn(b) = SendHeartbeats(b)
  BY PurgeNothing DEF EndTurn, AllFresh
<1> DEFINE beats == {OwnerOf[o] : o \in {x \in Obj : b.waiting[x] > 0}}
<1> HIDE DEF beats
<1>2. SendHeartbeats(b) = IF Running(b) /\ b.heartbeatDue
                          THEN [b EXCEPT !.heartbeatDue = FALSE, !.out.heartbeat = beats]
                          ELSE b
  BY DEF SendHeartbeats, beats
<1>3. b.heartbeatDue \in BOOLEAN
  BY DEF BrokerOK, BrokerType
<1>4. CASE Running(b) /\ b.heartbeatDue
  <2> DEFINE e == [b EXCEPT !.heartbeatDue = FALSE, !.out.heartbeat = beats]
  <2>1. /\ e.status = b.status /\ e.workers = b.workers /\ e.left = b.left
        /\ e.waiting = b.waiting /\ e.svcWaiting = b.svcWaiting
        /\ e.out.disconnect = b.out.disconnect /\ e.out.copies = b.out.copies
        /\ ~e.heartbeatDue /\ e.out.heartbeat = beats
    BY DEF BrokerOK, BrokerType, OutputType
  <2>2. EndTurn(b) = e
    BY <1>1, <1>2, <1>4
  <2> QED BY <1>4, <2>1, <2>2 DEF beats
<1>5. CASE ~(Running(b) /\ b.heartbeatDue)
  BY <1>1, <1>2, <1>3, <1>5
<1> QED BY <1>4, <1>5

\* What a turn sends to a worker of which it sends no request, or one entry.
LEMMA BatchesNone ==
    ASSUME NEW out \in OutputType, LedGroup(out), NEW w \in Worker,
           \A o \in Obj : OwnerOf[o] = w => out.copies[o] = 0, NEW b \in Batches(w, out)
    PROVE  b = <<>>
<1> DEFINE entries == UNION {{o} \X (1..out.copies[o]) : o \in {x \in Obj : OwnerOf[x] = w}}
           request(e) == JobMessage(out.request, w \in out.peers, e = <<out.leader, 1>>)
<1>1. PICK s \in SetToSeqs(entries) : b = [i \in DOMAIN s |-> request(s[i])]
  BY DEF Batches
<1>2. \A o \in {x \in Obj : OwnerOf[x] = w} : {o} \X (1..out.copies[o]) = {}
  OBVIOUS
<1>3. entries = {}
  BY <1>2
<1> HIDE DEF entries, request
<1>4. Cardinality(entries) = 0
  BY <1>3, FS_EmptySet
<1>5. DOMAIN s = 1..0
  BY <1>1, <1>4 DEF SetToSeqs
<1>6. b \in Seq(DownMessage) /\ DOMAIN b = 1..0
  BY <1>1, <1>5, BatchesOK
<1> QED BY <1>6

LEMMA OneElement ==
    ASSUME NEW S, NEW q \in Seq(S), Len(q) = 1
    PROVE  q[1] \in S /\ q = <<q[1]>>
<1>1. q[1] \in S /\ q \in [1..1 -> S]
  OBVIOUS
<1>2. <<q[1]>> \in [1..1 -> S] /\ <<q[1]>>[1] = q[1]
  BY <1>1
<1>3. \A i \in 1..1 : q[i] = <<q[1]>>[i]
  BY <1>2
<1> QED BY <1>1, <1>2, <1>3

LEMMA BatchesOne ==
    ASSUME NEW out \in OutputType, LedGroup(out), NEW w \in Worker, NEW o \in Obj,
           OwnerOf[o] = w, out.copies[o] = 1,
           \A x \in Obj \ {o} : OwnerOf[x] = w => out.copies[x] = 0, NEW b \in Batches(w, out)
    PROVE  \E m \in DownMessage : m.kind = "REQUEST" /\ b = <<m>>
<1> DEFINE entries == UNION {{x} \X (1..out.copies[x]) : x \in {y \in Obj : OwnerOf[y] = w}}
           request(e) == JobMessage(out.request, w \in out.peers, e = <<out.leader, 1>>)
<1>1. PICK s \in SetToSeqs(entries) : b = [i \in DOMAIN s |-> request(s[i])]
  BY DEF Batches
<1>2. \A x \in {y \in Obj : OwnerOf[y] = w} : 1..out.copies[x] = IF x = o THEN {1} ELSE {}
  <2>1. 1..1 = {1} /\ 1..0 = {}
    OBVIOUS
  <2> QED BY <2>1
<1>3. entries = {<<o, 1>>}
  BY <1>2
<1>4. \A e : request(e).kind = "REQUEST"
  BY DEF JobMessage
<1> HIDE DEF entries, request
<1>5. Cardinality(entries) = 1
  BY <1>3, FS_Singleton
<1>6. DOMAIN s = 1..1
  BY <1>1, <1>5 DEF SetToSeqs
<1>7. DOMAIN b = 1..1 /\ b[1] = request(s[1])
  <2>1. 1 \in DOMAIN s
    BY <1>6
  <2> QED BY <1>1, <1>6, <2>1
<1>8. b \in Seq(DownMessage)
  BY BatchesOK
<1> HIDE DEF Batches
<1>9. Len(b) = 1
  BY <1>7, <1>8
<1>10. b[1] \in DownMessage /\ b = <<b[1]>>
  BY <1>8, <1>9, OneElement
<1> QED BY <1>4, <1>7, <1>10

\* The broker in the middle of a turn, before the dispatch.
Starts(n) == BrokerOK(n) /\ Running(n) /\ AllFresh(n) /\ Unsent(n)

\* In the queue are the registered objects of the workers that wait.
LEMMA WaitsIsQueued ==
    ASSUME NEW b, BrokerOK(b), NoStale(b), NEW v \in Worker
    PROVE  /\ Waits(v, b) => /\ b.workers[v] \in Obj /\ OwnerOf[b.workers[v]] = v
                             /\ b.svcWaiting[b.workers[v]] = 1 /\ b.waiting[b.workers[v]] = 1
           /\ \A o \in Obj : OwnerOf[o] = v /\ (~Waits(v, b) \/ o # b.workers[v]) =>
                 b.svcWaiting[o] = 0 /\ b.waiting[o] = 0
<1>1. \A o \in Obj : b.waiting[o] \in Nat /\ b.svcWaiting[o] \in Nat
  BY DEF BrokerOK, BrokerType
<1>2. b.workers[v] \in Obj \cup {NoObj}
  BY DEF BrokerOK, BrokerType
<1> QED BY <1>1, <1>2, BrokerAssumption DEF NoStale, Waits, BrokerOK, RegisteredUnderOwner

\* What a turn sends to a worker that waits: the heartbeat that is due, or, if it
\* is taken out of the queue, one REQUEST; and what to one that does not.
LEMMA TurnSends ==
    ASSUME NEW n, Starts(n), NEW b, BrokerOK(b), Running(b), Deals(n, b),
           NEW from, NEW sent, TurnOf(from, b, sent), NEW v \in Worker, proc[v] # "dead",
           v \in n.out.disconnect => ~Waits(v, n)
    PROVE  \/ /\ Waits(v, n) /\ Waits(v, b)
              /\ sent[v] = IF n.heartbeatDue THEN <<Message("HEARTBEAT", NoReq)>> ELSE <<>>
           \/ /\ Waits(v, n) /\ ~Waits(v, b)
              /\ \E m \in DownMessage : m.kind = "REQUEST" /\ sent[v] = <<m>>
           \/ /\ ~Waits(v, n) /\ ~Waits(v, b)
              /\ sent[v] = IF v \in n.out.disconnect THEN <<Message("DISCONNECT", NoReq)>>
                           ELSE <<>>
<1> DEFINE out   == EndTurn(b).out
           first == IF v \in out.disconnect THEN <<Message("DISCONNECT", NoReq)>> ELSE <<>>
           last  == IF v \in out.heartbeat THEN <<Message("HEARTBEAT", NoReq)>> ELSE <<>>
<1>1. AllFresh(b) /\ NoStale(b) /\ NoStale(n)
  BY DealsKeep DEF Starts, AllFresh
<1>2. /\ out \in OutputType /\ LedGroup(out)
  BY EndTurnOK DEF BrokerOK, BrokerType
<1>3. /\ out.disconnect = n.out.disconnect /\ out.copies = b.out.copies
      /\ out.heartbeat = IF n.heartbeatDue
                         THEN {OwnerOf[o] : o \in {x \in Obj : b.waiting[x] > 0}} ELSE {}
  BY <1>1, EndTurnBeats DEF Deals, Starts, Unsent
<1>4. v \in out.heartbeat <=> n.heartbeatDue /\ Waits(v, b)
  BY <1>1, <1>3, WaitsIsQueued
<1>5. PICK s \in Batches(v, out) : sent[v] = first \o s \o last
  BY DEF TurnOf, Sendings
<1>6. \A o \in Obj : /\ Leaves(n, b, o) \/ Takes(n, b, o)
                     /\ n.out.copies[o] = 0
  BY DEF Deals, Starts, Unsent
<1>7. BrokerOK(n) /\ b.workers = n.workers
  BY DEF Starts, Deals
<1> HIDE DEF out
<1>8. CASE ~Waits(v, n)
  <2>1. \A o \in Obj : OwnerOf[o] = v => b.svcWaiting[o] = 0 /\ out.copies[o] = 0
    BY <1>1, <1>3, <1>6, <1>7, <1>8, WaitsIsQueued DEF Leaves, Takes
  <2>2. ~Waits(v, b)
    BY <1>1, <2>1, WaitsIsQueued
  <2>3. s = <<>>
    BY <1>2, <2>1, BatchesNone
  <2>4. last = <<>> /\ sent[v] = first \o <<>> \o <<>>
    BY <1>4, <1>5, <2>2, <2>3
  <2>5. sent[v] = first
    BY <2>4
  <2> QED BY <1>3, <1>8, <2>2, <2>5
<1>9. CASE Waits(v, n)
  <2> DEFINE o == n.workers[v]
  <2>1. o \in Obj /\ OwnerOf[o] = v /\ n.svcWaiting[o] = 1
    BY <1>1, <1>7, <1>9, WaitsIsQueued
  <2>2. \A x \in Obj \ {o} : OwnerOf[x] = v => out.copies[x] = 0
    BY <1>1, <1>3, <1>6, <1>7, WaitsIsQueued DEF Leaves, Takes
  <2>3. first = <<>>
    BY <1>3, <1>9
  <2>4. CASE Leaves(n, b, o)
    <3>1. Waits(v, b) /\ out.copies[o] = 0
      BY <1>3, <1>6, <1>7, <1>9, <2>1, <2>4 DEF Leaves, Waits
    <3>2. s = <<>>
      BY <1>2, <2>2, <3>1, BatchesNone
    <3>3. sent[v] = <<>> \o <<>> \o last
      BY <1>5, <2>3, <3>2
    <3>4. sent[v] = last
      BY <3>3
    <3> QED BY <1>4, <1>9, <3>1, <3>4
  <2>5. CASE Takes(n, b, o)
    <3>1. b.svcWaiting[o] = 0 /\ out.copies[o] = 1
      BY <1>3, <2>1, <2>5 DEF Takes
    <3>2. ~Waits(v, b)
      BY <1>7, <3>1 DEF Waits
    <3>3. PICK m \in DownMessage : m.kind = "REQUEST" /\ s = <<m>>
      BY <1>2, <2>1, <2>2, <3>1, BatchesOne
    <3>4. last = <<>>
      BY <1>4, <3>2
    <3>5. sent[v] = <<>> \o <<m>> \o <<>>
      BY <1>5, <2>3, <3>3, <3>4
    <3>6. sent[v] = <<m>>
      BY <3>5
    <3> QED BY <1>9, <3>2, <3>3, <3>6
  <2> QED BY <1>6, <2>1, <2>4, <2>5
<1> QED BY <1>8, <1>9

-----------------------------------------------------------------------------
\* Channels with heartbeats and perhaps one more message.
LEMMA BeatsAppend ==
    ASSUME NEW S, NEW q \in Seq(S), Beats(q), NEW m \in S
    PROVE  /\ q \o <<m>> = Append(q, m) /\ Append(q, m) # <<>>
           /\ m.kind = "HEARTBEAT" => Beats(Append(q, m))
           /\ BeatsAnd(Append(q, m), m.kind)
<1> DEFINE p == Append(q, m)
<1>1. /\ q \o <<m>> = p /\ DOMAIN p = 1..(Len(q) + 1) /\ DOMAIN q = 1..Len(q)
      /\ Len(q) \in Nat /\ p[Len(q) + 1] = m /\ Len(p) = Len(q) + 1 /\ p # <<>>
      /\ \A i \in 1..Len(q) : p[i] = q[i]
  OBVIOUS
<1> HIDE DEF p
<1>2. \A i \in DOMAIN p : i \in DOMAIN q \/ i = Len(q) + 1
  BY <1>1
<1>3. m.kind = "HEARTBEAT" => Beats(p)
  BY <1>1, <1>2 DEF Beats
<1>4. BeatsAnd(p, m.kind)
  BY <1>1, <1>2 DEF Beats, BeatsAnd
<1> QED BY <1>1, <1>3, <1>4 DEF p

LEMMA BeatsTail ==
    ASSUME NEW S, NEW q \in Seq(S), q # <<>>
    PROVE  /\ Tail(q) \in Seq(S)
           /\ Beats(q) => Head(q).kind = "HEARTBEAT" /\ Beats(Tail(q))
           /\ \A kind : BeatsAnd(q, kind) =>
                 \/ Head(q).kind = kind /\ Tail(q) = <<>>
                 \/ Head(q).kind = "HEARTBEAT" /\ BeatsAnd(Tail(q), kind)
<1> DEFINE t == Tail(q)
<1>1. /\ t \in Seq(S) /\ Head(q) = q[1] /\ 1 \in DOMAIN q
      /\ Len(q) \in Nat /\ Len(t) = Len(q) - 1 /\ Len(q) > 0
      /\ DOMAIN t = 1..Len(t) /\ DOMAIN q = 1..Len(q)
      /\ \A i \in DOMAIN t : i + 1 \in DOMAIN q /\ t[i] = q[i + 1]
  OBVIOUS
<1> HIDE DEF t
<1>2. Len(t) = 0 => t = <<>>
  BY <1>1
<1>3. t = <<>> => Len(t) = 0
  OBVIOUS
<1>4. Beats(q) => Head(q).kind = "HEARTBEAT" /\ Beats(t)
  BY <1>1 DEF Beats
<1>5. ASSUME NEW kind, BeatsAnd(q, kind)
      PROVE  \/ Head(q).kind = kind /\ t = <<>>
             \/ Head(q).kind = "HEARTBEAT" /\ BeatsAnd(t, kind)
  <2>1. CASE Len(q) = 1
    BY <1>1, <1>2, <1>5, <2>1 DEF BeatsAnd
  <2>2. CASE Len(q) # 1
    <3>1. Head(q).kind = "HEARTBEAT" /\ t # <<>>
      BY <1>1, <1>3, <1>5, <2>2 DEF BeatsAnd
    <3>2. Len(t) \in DOMAIN t /\ t[Len(t)] = q[Len(q)]
      BY <1>1, <2>2
    <3>3. \A i \in DOMAIN t : i # Len(t) => i + 1 \in DOMAIN q /\ i + 1 # Len(q) /\ t[i] = q[i + 1]
      BY <1>1
    <3> QED BY <1>5, <3>1, <3>2, <3>3 DEF BeatsAnd
  <2> QED BY <2>1, <2>2
<1> QED BY <1>1, <1>4, <1>5 DEF t

LEMMA BeatsEmpty == Beats(<<>>)
BY DEF Beats

LEMMA BeatsPrefix ==
    ASSUME NEW w, up[w] \in Seq(UpMessage), Beats(up[w]), NEW kept \in Kept(w)
    PROVE  Beats(kept)
<1>1. PICK n \in 0..Len(up[w]) : kept = SubSeq(up[w], 1, n)
  BY DEF Kept
<1> DEFINE p == SubSeq(up[w], 1, n)
<1>2. /\ DOMAIN p = 1..n /\ DOMAIN up[w] = 1..Len(up[w]) /\ Len(up[w]) \in Nat
      /\ \A i \in 1..n : p[i] = up[w][i]
  OBVIOUS
<1> HIDE DEF p
<1> QED BY <1>1, <1>2 DEF Beats, p

LEMMA KeptOfNothing == ASSUME NEW w, up[w] = <<>>, NEW kept \in Kept(w) PROVE kept = <<>>
BY DEF Kept
-----------------------------------------------------------------------------
\* What the turn leaves in the broker.
LEMMA TurnLeaves ==
    ASSUME NEW n, Starts(n), NEW b, BrokerOK(b), Running(b), Deals(n, b),
           NEW from, NEW sent, TurnOf(from, b, sent)
    PROVE  /\ Running(broker') /\ NoStale(broker') /\ ~broker'.heartbeatDue
           /\ broker'.workers = n.workers /\ broker'.left = n.left
           /\ \A v : Waits(v, broker') <=> Waits(v, b)
<1> DEFINE e == EndTurn(b)
<1>1. BrokerOK(e) /\ AllFresh(b)
  BY EndTurnOK, DealsKeep DEF Starts
<1>2. /\ e.status = b.status /\ e.workers = b.workers /\ e.left = b.left
      /\ e.waiting = b.waiting /\ e.svcWaiting = b.svcWaiting /\ ~e.heartbeatDue
  BY <1>1, EndTurnBeats
<1>3. broker' = [e EXCEPT !.out = NoOutput]
  BY DEF TurnOf
<1> HIDE DEF e
<1>4. /\ broker'.status = e.status /\ broker'.workers = e.workers /\ broker'.left = e.left
      /\ broker'.waiting = e.waiting /\ broker'.svcWaiting = e.svcWaiting
      /\ broker'.heartbeatDue = e.heartbeatDue
  BY <1>1, <1>3 DEF BrokerOK, BrokerType
<1> QED BY <1>1, <1>2, <1>4 DEF AllFresh, NoStale, Waits, Running, Deals

\* A worker that is in place when the turn dispatches is so when it ends.
LEMMA TurnPlaces ==
    ASSUME SystemInv, Timely, NEW n, Starts(n), NEW b, BrokerOK(b), Running(b), Deals(n, b),
           NEW from, NEW sent, TurnOf(from, b, sent), NEW v \in Worker, v \notin n.out.disconnect,
           NEW u, Placed(v, n, u, down[v])
    PROVE  Placed(v, broker', u, down'[v])
<1>1. /\ broker'.workers = n.workers /\ broker'.left = n.left
      /\ Waits(v, broker') <=> Waits(v, b)
  BY TurnLeaves
<1>2. down[v] \in Seq(DownMessage) /\ down'[v] = down[v] \o sent[v]
  BY Channels DEF TurnOf
<1>3. sent[v] = <<>> => down'[v] = down[v]
  BY <1>2
<1>4. CASE proc[v] = "dead"
  <2>1. Gone(v, u, down[v]) /\ n.workers[v] # NoObj /\ ~Waits(v, n)
    BY <1>4 DEF Placed, Joining, Rejected, Waiting, Polling, Called, Working, Replying,
                Spare, Leaving
  <2>2. sent[v] = <<>>
    BY <1>4 DEF TurnOf, Sendings
  <2>3. ~Waits(v, b)
    <3>1. NoStale(n) /\ NoStale(b) /\ BrokerOK(n)
      BY DealsKeep DEF Starts, AllFresh
    <3>2. \A o \in Obj : OwnerOf[o] = v => b.svcWaiting[o] = 0
      BY <2>1, <3>1, WaitsIsQueued DEF Deals, Leaves, Takes
    <3> QED BY <3>1, <3>2, WaitsIsQueued
  <2> QED BY <1>1, <1>3, <2>1, <2>2, <2>3 DEF Placed
<1>5. CASE proc[v] # "dead" /\ ~Waits(v, n)
  <2>1. ~Waits(v, b) /\ sent[v] = <<>>
    BY <1>5, TurnSends
  <2> QED BY <1>1, <1>3, <1>5, <2>1 DEF Placed
<1>6. CASE proc[v] # "dead" /\ Waits(v, n)
  <2>1. Waiting(v, n, u, down[v]) /\ n.workers[v] # NoObj
    BY <1>6 DEF Placed, Waits
  <2>2. CASE /\ Waits(v, b)
             /\ sent[v] = IF n.heartbeatDue THEN <<Message("HEARTBEAT", NoReq)>> ELSE <<>>
    <3> DEFINE m == Message("HEARTBEAT", NoReq)
    <3>1. m \in DownMessage /\ m.kind = "HEARTBEAT"
      BY DownMessages, MessagesDiffer
    <3>2. Beats(down[v])
      BY <2>1 DEF Waiting
    <3> HIDE DEF m
    <3>3. /\ Beats(down'[v])
          /\ n.heartbeatDue \/ down[v] # <<>> => down'[v] # <<>>
      <4>1. CASE n.heartbeatDue
        <5>1. down'[v] = Append(down[v], m) /\ Append(down[v], m) # <<>> /\ Beats(Append(down[v], m))
          BY <1>2, <2>2, <3>1, <3>2, <4>1, BeatsAppend DEF m
        <5> QED BY <5>1
      <4>2. CASE ~n.heartbeatDue
        BY <1>3, <2>2, <3>2, <4>2
      <4> QED BY <4>1, <4>2
    <3>4. Waiting(v, broker', u, down'[v])
      BY <1>1, <2>1, <3>3 DEF Waiting
    <3> QED BY <1>1, <2>1, <2>2, <3>4 DEF Placed
  <2>3. CASE ~Waits(v, b) /\ \E m \in DownMessage : m.kind = "REQUEST" /\ sent[v] = <<m>>
    <3>1. PICK m \in DownMessage : m.kind = "REQUEST" /\ sent[v] = <<m>>
      BY <2>3
    <3>2. BeatsAnd(down'[v], "REQUEST")
      <4>1. Beats(down[v]) /\ down'[v] = down[v] \o <<m>>
        BY <1>2, <2>1, <3>1 DEF Waiting
      <4> QED BY <1>2, <3>1, <4>1, BeatsAppend
    <3>3. Called(v, u, down'[v])
      BY <2>1, <3>2, MajordomoAssumption DEF Waiting, Called, Timely
    <3> QED BY <1>1, <2>1, <2>3, <3>3 DEF Placed
  <2> QED BY <1>6, <2>2, <2>3, TurnSends
<1> QED BY <1>4, <1>5, <1>6

Outcome(n, b) ==
    BrokerOK(b) /\ b.status # "KeyError" /\ (Running(b) => Deals(n, b))

LEMMA DispatchOutcome ==
    ASSUME NEW n, Starts(n), NEW s \in Service, NEW b \in Dispatch(n, s)
    PROVE  Outcome(n, b)
BY DispatchOK, DispatchDeals DEF Outcome, Starts, AllFresh

LEMMA NoDispatchOutcome == ASSUME NEW n, Starts(n) PROVE Outcome(n, n)
BY DealsNothing DEF Outcome, Starts, Running

\* A turn keeps the invariant if what its handler did before the dispatch does.
LEMMA TurnKeepsPrompt ==
    ASSUME SystemInv, PromptInv, Timely, NEW n, Starts(n), NEW b, Outcome(n, b),
           NEW from, NEW sent, TurnOf(from, b, sent),
           \A v \in Worker : v \notin n.out.disconnect => Placed(v, n, up'[v], down[v]),
           \A v \in n.out.disconnect : /\ n.workers[v] = NoObj /\ proc[v] = "done"
                                       /\ liveness[v] = Liveness
                                       /\ up'[v] = <<>> /\ down[v] = <<>>,
           \A v \in Worker : up'[v] # up[v] => up[v] # <<>>
    PROVE  PromptInv'
<1>1. CASE ~Running(b)
  <2>1. EndTurn(b) = b
    BY <1>1 DEF EndTurn, PurgeWorkers, SendHeartbeats
  <2>2. broker'.status = b.status
    BY <2>1, Cleared DEF TurnOf, Outcome
  <2> QED BY <1>1, <2>2 DEF PromptInv, Outcome, Running
<1>2. CASE Running(b)
  <2>1. /\ BrokerOK(b) /\ Deals(n, b) /\ BrokerOK(n) /\ n.out.disconnect \subseteq Worker
    BY <1>2 DEF Outcome, Starts, BrokerOK, BrokerType, OutputType
  <2>2. /\ Running(broker') /\ NoStale(broker')
        /\ broker'.workers = n.workers
    BY <1>2, <2>1, TurnLeaves
  <2>3. UNCHANGED <<proc, liveness, beatDue, quiet>> /\ Running(broker)
    BY DEF TurnOf, workerVars
  <2>4. ASSUME NEW v \in Worker PROVE Placed(v, broker', up'[v], down'[v])
    <3>1. CASE v \notin n.out.disconnect
      BY <1>2, <2>1, <3>1, TurnPlaces
    <3>2. CASE v \in n.out.disconnect
      <4>1. /\ n.workers[v] = NoObj /\ proc[v] = "done" /\ liveness[v] = Liveness
            /\ up'[v] = <<>> /\ down[v] = <<>> /\ ~Waits(v, n)
        BY <3>2 DEF Waits
      <4>2. sent[v] = <<Message("DISCONNECT", NoReq)>>
        BY <1>2, <2>1, <3>2, <4>1, TurnSends
      <4>3. down'[v] = <<>> \o <<Message("DISCONNECT", NoReq)>>
        BY <4>1, <4>2 DEF TurnOf
      <4>4. down'[v] = <<Message("DISCONNECT", NoReq)>>
        BY <4>3
      <4> QED BY <2>2, <4>1, <4>4 DEF Placed, Rejected
    <3> QED BY <3>1, <3>2
  <2>5. \A v \in Worker : Placed(v, broker, up[v], down[v])'
    BY <2>3, <2>4 DEF Placed, Joining, Rejected, Waits, Waiting, Called, Working, Replying,
                      Spare, Leaving, Gone, Polling
  <2>6. \A v \in Worker : (quiet[v] => Polling(v) /\ beatDue[v] /\ up[v] = <<>>)'
    BY <2>3 DEF PromptInv, Polling
  <2>7. broker'.status # "KeyError"
    BY <2>2 DEF Running
  <2> QED BY <2>2, <2>5, <2>6, <2>7 DEF PromptInv
<1> QED BY <1>1, <1>2
-----------------------------------------------------------------------------
(***************************************************************************)
(* What each handler does before the dispatch.                             *)
(***************************************************************************)
\* For v the broker n is still the broker.
SameFor(v, n) ==
    /\ n.workers[v] = broker.workers[v] /\ n.heartbeatDue = broker.heartbeatDue
    /\ broker.workers[v] # NoObj =>
          /\ n.left[broker.workers[v]] = broker.left[broker.workers[v]]
          /\ n.svcWaiting[broker.workers[v]] = broker.svcWaiting[broker.workers[v]]

LEMMA SamePlaced ==
    ASSUME NEW v \in Worker, NEW n, SameFor(v, n), NEW u, NEW d, Placed(v, broker, u, d)
    PROVE  Placed(v, n, u, d)
BY DEF SameFor, Placed, Waits, Waiting

LEMMA BeginStarts ==
    ASSUME SystemInv, PromptInv, Timely, Running(broker)
    PROVE  /\ Starts(Begin) /\ Begin.workers = broker.workers /\ Begin.out = NoOutput
           /\ Begin.svcWaiting = broker.svcWaiting /\ Begin.waiting = broker.waiting
           /\ Begin.heartbeatDue = broker.heartbeatDue
           /\ \A v \in Worker : SameFor(v, Begin)
<1>1. BrokerOK(broker) /\ BrokerOK(Begin) /\ NoStale(broker)
  BY BeginOK DEF SystemInv, PromptInv
<1>2. /\ Begin.workers = broker.workers /\ Begin.out = NoOutput
      /\ Begin.svcWaiting = broker.svcWaiting /\ Begin.waiting = broker.waiting
      /\ Begin.heartbeatDue = broker.heartbeatDue /\ Begin.status = broker.status
      /\ \A o \in Obj : Begin.left[o] = IF Referenced(broker, o) THEN broker.left[o] ELSE 0
  BY <1>1 DEF Begin, BrokerOK, BrokerType
<1>3. ASSUME NEW v \in Worker PROVE SameFor(v, Begin)
  <2>1. broker.workers[v] # NoObj => broker.workers[v] \in Obj /\ Referenced(broker, broker.workers[v])
    BY <1>1 DEF BrokerOK, BrokerType, RegisteredUnderOwner, Referenced
  <2> QED BY <1>2, <2>1 DEF SameFor
<1>4. ASSUME NEW o \in Obj, Begin.waiting[o] > 0 PROVE Begin.left[o] # 0
  <2> DEFINE v == OwnerOf[o]
  <2>1. v \in Worker /\ broker.workers[v] = o /\ Waits(v, broker) /\ o # NoObj
    BY <1>1, <1>2, <1>4, BrokerAssumption DEF NoStale, Waits
  <2>2. Waiting(v, broker, up[v], down[v])
    BY <2>1 DEF PromptInv, Placed
  <2>3. broker.left[o] # 0
    BY <2>1, <2>2, BrokerAssumption DEF Waiting, Timely
  <2>4. Referenced(broker, o)
    BY <1>2, <1>4 DEF Referenced
  <2> QED BY <1>2, <2>3, <2>4
<1>5. AllFresh(Begin)
  BY <1>1, <1>2, <1>4 DEF AllFresh, NoStale, Expired
<1>6. Unsent(Begin)
  BY <1>2 DEF Unsent, NoOutput
<1> QED BY <1>1, <1>2, <1>3, <1>5, <1>6 DEF Starts, Running

LEMMA PlacedAtBegin ==
    ASSUME SystemInv, PromptInv, Timely, Running(broker), NEW v \in Worker
    PROVE  Placed(v, Begin, up[v], down[v])
BY BeginStarts, SamePlaced DEF PromptInv

\* worker_waiting: one more object in the queues.
LEMMA QueuedStarts ==
    ASSUME NEW b, Starts(b), NEW o \in Obj, b.workers[OwnerOf[o]] = o, b.svcWaiting[o] = 0
    PROVE  LET n == [b EXCEPT !.waiting[o] = @ + 1, !.svcWaiting[o] = @ + 1,
                              !.left[o] = Lifetime]
           IN  /\ Starts(n) /\ n.workers = b.workers /\ n.heartbeatDue = b.heartbeatDue
               /\ n.out = b.out /\ n.svcWaiting[o] = 1 /\ n.left[o] = Lifetime
               /\ \A x \in Obj \ {o} : /\ n.left[x] = b.left[x]
                                       /\ n.svcWaiting[x] = b.svcWaiting[x]
<1> DEFINE n == [b EXCEPT !.waiting[o] = @ + 1, !.svcWaiting[o] = @ + 1, !.left[o] = Lifetime]
<1>1. BrokerOK(b) /\ BrokerOK(n) /\ NoStale(b)
  BY QueuedOK DEF Starts, AllFresh
<1>2. /\ n.workers = b.workers /\ n.heartbeatDue = b.heartbeatDue /\ n.out = b.out
      /\ n.status = b.status
      /\ n.left = [b.left EXCEPT ![o] = Lifetime]
      /\ n.waiting = [b.waiting EXCEPT ![o] = @ + 1]
      /\ n.svcWaiting = [b.svcWaiting EXCEPT ![o] = @ + 1]
  BY <1>1 DEF BrokerOK, BrokerType
<1> HIDE DEF n
<1>3. b.waiting[o] = 0
  BY <1>1 DEF NoStale
<1>4. /\ b.left \in [Obj -> 0..Lifetime] /\ b.waiting \in [Obj -> Nat]
      /\ b.svcWaiting \in [Obj -> Nat]
  BY <1>1 DEF BrokerOK, BrokerType
<1>5. /\ n.svcWaiting[o] = 1 /\ n.waiting[o] = 1 /\ n.left[o] = Lifetime
      /\ \A x \in Obj \ {o} : /\ n.left[x] = b.left[x] /\ n.waiting[x] = b.waiting[x]
                              /\ n.svcWaiting[x] = b.svcWaiting[x]
  BY <1>2, <1>3, <1>4
<1>6. NoStale(n)
  BY <1>1, <1>2, <1>5 DEF NoStale
<1>7. Expired(n) = {}
  BY <1>5, BrokerAssumption DEF Starts, AllFresh, Expired
<1>8. Running(n) /\ Unsent(n)
  BY <1>2 DEF Starts, Running, Unsent
<1> QED BY <1>1, <1>2, <1>5, <1>6, <1>7, <1>8 DEF Starts, AllFresh, n

\* The objects of different workers are different.
LEMMA OtherObjects ==
    ASSUME SystemInv, NEW w \in Worker, NEW v \in Worker \ {w}, NEW o \in Obj, OwnerOf[o] = w
    PROVE  broker.workers[v] # o
<1>1. RegisteredUnderOwner(broker) /\ NoObj \notin Obj
  BY BrokerAssumption DEF SystemInv, BrokerOK
<1> QED BY <1>1 DEF RegisteredUnderOwner

LEMMA TakeNothingPrompt ==
    ASSUME SystemInv, PromptInv, Timely, TakeNothing
    PROVE  PromptInv'
<1>1. PICK sent : TurnOf(NoWorker, Begin, sent)
  BY TurnParts DEF TakeNothing
<1>2. Running(broker) /\ UNCHANGED up
  BY DEF TakeNothing, BrokerTurn
<1>3. Starts(Begin) /\ Begin.out.disconnect = {}
  BY <1>2, BeginStarts DEF NoOutput
<1>4. Outcome(Begin, Begin)
  BY <1>3, NoDispatchOutcome
<1>5. \A v \in Worker : Placed(v, Begin, up'[v], down[v])
  BY <1>2, PlacedAtBegin
<1> QED BY <1>1, <1>2, <1>3, <1>4, <1>5, TurnKeepsPrompt

LEMMA TakeRequestPrompt ==
    ASSUME SystemInv, PromptInv, Timely, NEW r \in Request, TakeRequest(r)
    PROVE  PromptInv'
<1> DEFINE n == [Begin EXCEPT !.services = @ \cup {ReqSvc[r]},
                              !.requests[ReqSvc[r]] = Append(@, r)]
<1>1. PICK b \in HandleClient(r) : \E sent : TurnOf(NoWorker, b, sent)
  BY TurnParts DEF TakeRequest
<1>2. PICK sent : TurnOf(NoWorker, b, sent)
  BY <1>1
<1>3. Running(broker) /\ UNCHANGED up /\ b \in Dispatch(n, ReqSvc[r]) /\ ReqSvc[r] \in Service
  BY BrokerAssumption DEF TakeRequest, BrokerTurn, HandleClient
<1>4. /\ Starts(Begin) /\ Begin.out = NoOutput /\ BrokerOK(n)
      /\ \A v \in Worker : SameFor(v, Begin)
  BY <1>3, BeginStarts, HandleClientStart DEF SystemInv
<1>5. /\ n.workers = Begin.workers /\ n.left = Begin.left /\ n.waiting = Begin.waiting
      /\ n.svcWaiting = Begin.svcWaiting /\ n.heartbeatDue = Begin.heartbeatDue
      /\ n.status = Begin.status /\ n.out = Begin.out
  BY <1>4 DEF Starts, BrokerOK, BrokerType
<1> HIDE DEF n
<1>6. Starts(n)
  BY <1>4, <1>5 DEF Starts, AllFresh, NoStale, Expired, Unsent, Running
<1>7. Outcome(n, b)
  BY <1>3, <1>6, DispatchOutcome
<1>8. \A v \in Worker : Placed(v, n, up'[v], down[v])
  BY <1>3, <1>4, <1>5, SamePlaced DEF SameFor, PromptInv
<1>9. n.out.disconnect = {}
  BY <1>4, <1>5 DEF NoOutput
<1> QED BY <1>2, <1>3, <1>6, <1>7, <1>8, <1>9, TurnKeepsPrompt

\* The broker n that a message of w leads to: up to w, it is the broker of before.
AllButFor(w, n) ==
    /\ \A v \in Worker \ {w} : SameFor(v, n)
    /\ n.out.disconnect \subseteq {w}

\* What the message of w may be, by the place of w; it is not quiet.
LEMMA MessagePlaces ==
    ASSUME SystemInv, PromptInv, Running(broker), NEW w \in Worker, up[w] # <<>>
    PROVE  LET m == Head(up[w])
               u == Tail(up[w])
               d == down[w]
           IN  /\ ~quiet[w] /\ u \in Seq(UpMessage)
               /\ m.kind = "HEARTBEAT" =>
                     \/ Waits(w, broker) /\ Waiting(w, broker, up[w], d) /\ Beats(u)
                     \/ broker.workers[w] # NoObj /\ ~Waits(w, broker)
                        /\ \/ Called(w, u, d) \/ Working(w, u, d) \/ Replying(w, u, d)
                           \/ Spare(w, u, d) \/ Gone(w, u, d)
               /\ m.kind = "REPLY" =>
                     /\ broker.workers[w] # NoObj /\ ~Waits(w, broker)
                     /\ Replying(w, up[w], d) /\ u = <<>>
               /\ m.kind = "READY" =>
                     /\ ~Waits(w, broker) /\ u = <<>>
                     /\ IF broker.workers[w] = NoObj THEN Joining(w, up[w], d)
                        ELSE Leaving(w, up[w], d)
<1> DEFINE m == Head(up[w])
           u == Tail(up[w])
           d == down[w]
<1>1. ~quiet[w] /\ Placed(w, broker, up[w], d)
  BY DEF PromptInv
<1>2. /\ u \in Seq(UpMessage)
      /\ Beats(up[w]) => m.kind = "HEARTBEAT" /\ Beats(u)
      /\ BeatsAnd(up[w], "REPLY") => \/ m.kind = "REPLY" /\ u = <<>>
                                     \/ m.kind = "HEARTBEAT" /\ BeatsAnd(u, "REPLY")
  BY Channels, BeatsTail
<1>3. up[w] = <<Ready>> => m.kind = "READY" /\ u = <<>>
  BY MessagesDiffer
<1> HIDE DEF m, u
<1>4. CASE broker.workers[w] = NoObj
  BY <1>1, <1>2, <1>3, <1>4 DEF Placed, Joining, Rejected, Waits, m, u
<1>5. CASE broker.workers[w] # NoObj /\ Waits(w, broker)
  BY <1>1, <1>2, <1>5 DEF Placed, Waiting, m, u
<1>6. CASE broker.workers[w] # NoObj /\ ~Waits(w, broker)
  <2>1. m.kind = "HEARTBEAT" =>
           \/ Called(w, u, d) \/ Working(w, u, d) \/ Replying(w, u, d)
           \/ Spare(w, u, d) \/ Gone(w, u, d)
    BY <1>1, <1>2, <1>3, <1>6
    DEF Placed, Called, Working, Replying, Spare, Gone, Leaving
  <2>2. m.kind = "REPLY" => Replying(w, up[w], d) /\ u = <<>>
    BY <1>1, <1>2, <1>3, <1>6
    DEF Placed, Called, Working, Replying, Spare, Gone, Leaving
  <2>3. m.kind = "READY" => Leaving(w, up[w], d) /\ u = <<>>
    BY <1>1, <1>2, <1>3, <1>6
    DEF Placed, Called, Working, Replying, Spare, Gone, Leaving
  <2> QED BY <1>1, <1>2, <1>6, <2>1, <2>2, <2>3 DEF m, u
<1> QED BY <1>4, <1>5, <1>6

LEMMA HeartbeatStarts ==
    ASSUME SystemInv, PromptInv, Timely, Running(broker), NEW w \in Worker,
           up[w] # <<>>, Head(up[w]).kind = "HEARTBEAT", NEW b \in HandleHeartbeat(w)
    PROVE  /\ Starts(b) /\ AllButFor(w, b) /\ b.out.disconnect = {}
           /\ Placed(w, b, Tail(up[w]), down[w])
<1> DEFINE o == broker.workers[w]
           u == Tail(up[w])
           d == down[w]
<1>1. /\ ~quiet[w] /\ o # NoObj
      /\ \/ Waits(w, broker) /\ Waiting(w, broker, up[w], d) /\ Beats(u)
         \/ ~Waits(w, broker) /\ \/ Called(w, u, d) \/ Working(w, u, d) \/ Replying(w, u, d)
                                 \/ Spare(w, u, d) \/ Gone(w, u, d)
  BY MessagePlaces DEF Waits
<1>2. /\ Starts(Begin) /\ Begin.workers = broker.workers /\ Begin.out = NoOutput
      /\ Begin.svcWaiting = broker.svcWaiting /\ Begin.heartbeatDue = broker.heartbeatDue
      /\ \A v \in Worker : SameFor(v, Begin)
  BY BeginStarts
<1>3. o \in Obj /\ OwnerOf[o] = w
  BY <1>1 DEF SystemInv, BrokerOK, BrokerType, RegisteredUnderOwner
<1>4. b = [Begin EXCEPT !.left[o] = Lifetime, !.epBytes = @ \cup {w}]
  BY <1>1 DEF HandleHeartbeat, Registered
<1>5. BrokerOK(b)
  BY HandleHeartbeatOK DEF SystemInv
<1> HIDE DEF o
<1>6. /\ b.workers = broker.workers /\ b.waiting = Begin.waiting
      /\ b.svcWaiting = broker.svcWaiting /\ b.heartbeatDue = broker.heartbeatDue
      /\ b.status = Begin.status /\ b.out = NoOutput
      /\ b.left = [Begin.left EXCEPT ![o] = Lifetime]
  BY <1>2, <1>4 DEF Starts, BrokerOK, BrokerType
<1>7. b.left[o] = Lifetime /\ \A x \in Obj \ {o} : b.left[x] = Begin.left[x]
  BY <1>2, <1>3, <1>6 DEF Starts, BrokerOK, BrokerType
<1>8. Starts(b)
  <2>1. NoStale(b)
    BY <1>2, <1>6 DEF Starts, AllFresh, NoStale
  <2>2. Expired(b) = {}
    BY <1>2, <1>6, <1>7, BrokerAssumption DEF Starts, AllFresh, Expired
  <2> QED BY <1>2, <1>5, <1>6, <2>1, <2>2 DEF Starts, AllFresh, Unsent, Running
<1>9. \A v \in Worker \ {w} : SameFor(v, b)
  <2> SUFFICES ASSUME NEW v \in Worker \ {w} PROVE SameFor(v, b)
    OBVIOUS
  <2>1. broker.workers[v] # o /\ broker.workers[v] \in Obj \cup {NoObj}
    BY <1>3, OtherObjects DEF SystemInv, BrokerOK, BrokerType
  <2> QED BY <1>2, <1>6, <1>7, <2>1 DEF SameFor
<1>10. b.out.disconnect = {}
  BY <1>6 DEF NoOutput
<1>11. Placed(w, b, u, d)
  <2>1. CASE Waits(w, broker)
    <3>1. Waiting(w, b, u, d)
      BY <1>1, <1>6, <1>7, <2>1 DEF Waiting, o
    <3> QED BY <1>1, <1>6, <2>1, <3>1 DEF Placed, Waits, o
  <2>2. CASE ~Waits(w, broker)
    BY <1>1, <1>6, <2>2 DEF Placed, Waits, o
  <2> QED BY <2>1, <2>2
<1> QED BY <1>8, <1>9, <1>10, <1>11 DEF AllButFor

\* A worker that the handler has put into the queue waits.
LEMMA NewlyWaits ==
    ASSUME NEW n, NEW w \in Worker, n.workers[w] # NoObj, n.svcWaiting[n.workers[w]] = 1,
           n.left[n.workers[w]] = Lifetime, Polling(w), liveness[w] = Liveness, ~quiet[w]
    PROVE  Placed(w, n, <<>>, <<>>)
BY BeatsEmpty DEF Placed, Waits, Waiting

LEMMA ReplyStarts ==
    ASSUME SystemInv, PromptInv, Timely, Running(broker), NEW w \in Worker, NEW r \in Request,
           up[w] # <<>>, Head(up[w]).kind = "REPLY", NEW b \in HandleReply(w, r)
    PROVE  \E n : /\ Starts(n) /\ AllButFor(w, n) /\ n.out.disconnect = {} /\ Outcome(n, b)
                  /\ Placed(w, n, Tail(up[w]), down[w])
<1> DEFINE o == broker.workers[w]
           p == [Begin EXCEPT !.out.reply = r]
           n == [p EXCEPT !.waiting[o] = @ + 1, !.svcWaiting[o] = @ + 1, !.left[o] = Lifetime]
<1>1. /\ ~quiet[w] /\ o # NoObj /\ ~Waits(w, broker)
      /\ Replying(w, up[w], down[w]) /\ Tail(up[w]) = <<>>
  BY MessagePlaces
<1>2. /\ Starts(Begin) /\ Begin.workers = broker.workers /\ Begin.out = NoOutput
      /\ Begin.svcWaiting = broker.svcWaiting /\ Begin.heartbeatDue = broker.heartbeatDue
      /\ \A v \in Worker : SameFor(v, Begin)
  BY BeginStarts
<1>3. o \in Obj /\ OwnerOf[o] = w /\ broker.svcWaiting[o] = 0
  <2>1. o \in Obj /\ OwnerOf[o] = w
    BY <1>1 DEF SystemInv, BrokerOK, BrokerType, RegisteredUnderOwner
  <2>2. broker.svcWaiting[o] \in Nat
    BY <2>1 DEF SystemInv, BrokerOK, BrokerType
  <2> QED BY <1>1, <2>1, <2>2 DEF Waits
<1>4. b \in Dispatch(n, ObjSvc(o)) /\ ObjSvc(o) \in Service
  BY <1>1, <1>3, BrokerAssumption DEF HandleReply, Registered, WorkerWaiting, ObjSvc
<1>5. /\ p.workers = Begin.workers /\ p.status = Begin.status /\ p.left = Begin.left
      /\ p.waiting = Begin.waiting /\ p.svcWaiting = Begin.svcWaiting
      /\ p.requests = Begin.requests /\ p.heartbeatDue = Begin.heartbeatDue
      /\ p.out.request = Begin.out.request /\ p.out.leader = Begin.out.leader
      /\ p.out.copies = Begin.out.copies /\ p.out.heartbeat = Begin.out.heartbeat
      /\ p.out.disconnect = Begin.out.disconnect /\ p \in BrokerType
  BY <1>2 DEF Starts, BrokerOK, BrokerType, OutputType
<1> HIDE DEF o, p
<1>6. Starts(p)
  <2>1. BrokerOK(p)
    BY <1>2, <1>5
    DEF Starts, BrokerOK, RegisteredUnderOwner, Covers, QueuedByService, LedGroup, Sent
  <2> QED BY <1>2, <1>5, <2>1 DEF Starts, AllFresh, NoStale, Expired, Unsent, Running
<1>7. /\ Starts(n) /\ n.workers = p.workers /\ n.heartbeatDue = p.heartbeatDue
      /\ n.out = p.out /\ n.svcWaiting[o] = 1 /\ n.left[o] = Lifetime
      /\ \A x \in Obj \ {o} : n.left[x] = p.left[x] /\ n.svcWaiting[x] = p.svcWaiting[x]
  <2>1. p.workers[OwnerOf[o]] = o /\ p.svcWaiting[o] = 0
    BY <1>2, <1>3, <1>5 DEF o
  <2> QED BY <1>3, <1>6, <2>1, QueuedStarts
<1> HIDE DEF n
<1>8. \A v \in Worker \ {w} : SameFor(v, n)
  <2> SUFFICES ASSUME NEW v \in Worker \ {w} PROVE SameFor(v, n)
    OBVIOUS
  <2>1. broker.workers[v] # o /\ broker.workers[v] \in Obj \cup {NoObj}
    BY <1>3, OtherObjects DEF SystemInv, BrokerOK, BrokerType
  <2> QED BY <1>2, <1>5, <1>7, <2>1 DEF SameFor
<1>9. n.out.disconnect = {}
  BY <1>2, <1>5, <1>7 DEF NoOutput
<1>10. Placed(w, n, <<>>, <<>>) /\ down[w] = <<>>
  BY <1>1, <1>2, <1>5, <1>7, NewlyWaits DEF Replying, Polling, o
<1>11. Outcome(n, b)
  BY <1>4, <1>7, DispatchOutcome
<1> QED BY <1>1, <1>7, <1>8, <1>9, <1>10, <1>11 DEF AllButFor

LEMMA FirstReadyStarts ==
    ASSUME SystemInv, PromptInv, Timely, Running(broker), NEW w \in Worker, ~Registered(w),
           Unused(w) # {}, up[w] # <<>>, Head(up[w]).kind = "READY", NEW b \in HandleReady(w)
    PROVE  \E n : /\ Starts(n) /\ AllButFor(w, n) /\ n.out.disconnect = {} /\ Outcome(n, b)
                  /\ Placed(w, n, Tail(up[w]), down[w])
<1> DEFINE o == CHOOSE x \in Unused(w) : TRUE
           p == [Begin EXCEPT !.workers[w] = o, !.services = @ \cup {SvcOf[w]}]
           n == [p EXCEPT !.waiting[o] = @ + 1, !.svcWaiting[o] = @ + 1, !.left[o] = Lifetime]
<1>1. /\ ~quiet[w] /\ broker.workers[w] = NoObj /\ ~Waits(w, broker)
      /\ Joining(w, up[w], down[w]) /\ Tail(up[w]) = <<>>
  BY MessagePlaces DEF Registered
<1>2. /\ Starts(Begin) /\ Begin.workers = broker.workers /\ Begin.out = NoOutput
      /\ Begin.svcWaiting = broker.svcWaiting /\ Begin.waiting = broker.waiting
      /\ Begin.heartbeatDue = broker.heartbeatDue
      /\ \A v \in Worker : SameFor(v, Begin)
  BY BeginStarts
<1>3. o \in Unused(w)
  OBVIOUS
<1>4. b \in Dispatch(n, ObjSvc(o))
  BY DEF HandleReady, WorkerWaiting
<1> HIDE DEF o
<1>5. o \in Obj /\ OwnerOf[o] = w /\ o # NoObj /\ ObjSvc(o) \in Service
  BY <1>3, BrokerAssumption DEF Unused, ObjSvc
<1>6. /\ p.workers = [Begin.workers EXCEPT ![w] = o] /\ p.status = Begin.status
      /\ p.left = Begin.left /\ p.waiting = Begin.waiting
      /\ p.svcWaiting = Begin.svcWaiting /\ p.requests = Begin.requests
      /\ p.heartbeatDue = Begin.heartbeatDue /\ p.out = Begin.out
  BY <1>2 DEF Starts, BrokerOK, BrokerType
<1>7. p \in BrokerType
  BY <1>2, <1>5, BrokerAssumption, ZenonT(60) DEF Starts, BrokerOK, BrokerType
<1> HIDE DEF p
<1>8. p.workers[w] = o /\ \A v \in Worker \ {w} : p.workers[v] = broker.workers[v]
  BY <1>2, <1>6 DEF Starts, BrokerOK, BrokerType
<1>9. \A x \in Obj : OwnerOf[x] = w => broker.svcWaiting[x] = 0 /\ broker.waiting[x] = 0
  BY <1>1, WaitsIsQueued DEF SystemInv, PromptInv
<1>10. Starts(p)
  <2>1. BrokerOK(p)
    <3>1. RegisteredUnderOwner(p)
      BY <1>2, <1>5, <1>8 DEF Starts, BrokerOK, RegisteredUnderOwner
    <3> QED BY <1>2, <1>6, <1>7, <3>1 DEF Starts, BrokerOK, Covers, QueuedByService
  <2>2. NoStale(p)
    BY <1>2, <1>6, <1>8, <1>9, BrokerAssumption DEF Starts, AllFresh, NoStale
  <2> QED BY <1>2, <1>6, <2>1, <2>2 DEF Starts, AllFresh, Expired, Unsent, Running
<1>11. /\ Starts(n) /\ n.workers = p.workers /\ n.heartbeatDue = p.heartbeatDue
       /\ n.out = p.out /\ n.svcWaiting[o] = 1 /\ n.left[o] = Lifetime
       /\ \A x \in Obj \ {o} : n.left[x] = p.left[x] /\ n.svcWaiting[x] = p.svcWaiting[x]
  <2>1. p.workers[OwnerOf[o]] = o /\ p.svcWaiting[o] = 0
    BY <1>2, <1>5, <1>6, <1>8, <1>9
  <2> QED BY <1>5, <1>10, <2>1, QueuedStarts
<1> HIDE DEF n
<1>12. \A v \in Worker \ {w} : SameFor(v, n)
  <2> SUFFICES ASSUME NEW v \in Worker \ {w} PROVE SameFor(v, n)
    OBVIOUS
  <2>1. broker.workers[v] # o /\ broker.workers[v] \in Obj \cup {NoObj}
    BY <1>5, OtherObjects DEF SystemInv, BrokerOK, BrokerType
  <2>2. SameFor(v, Begin)
    BY <1>2
  <2> QED BY <1>2, <1>6, <1>8, <1>11, <2>1, <2>2 DEF SameFor
<1>13. n.out.disconnect = {}
  BY <1>2, <1>6, <1>11 DEF NoOutput
<1>14. Placed(w, n, <<>>, <<>>) /\ down[w] = <<>>
  BY <1>1, <1>5, <1>8, <1>11, NewlyWaits DEF Joining
<1>15. Outcome(n, b)
  BY <1>4, <1>5, <1>11, DispatchOutcome
<1> QED BY <1>1, <1>11, <1>12, <1>13, <1>14, <1>15 DEF AllButFor

\* READY of a registered worker: it is deleted, and told so.
LEMMA NextReadyStarts ==
    ASSUME SystemInv, PromptInv, Timely, Running(broker), NEW w \in Worker, Registered(w),
           up[w] # <<>>, Head(up[w]).kind = "READY", NEW b \in HandleReady(w)
    PROVE  /\ Starts(b) /\ AllButFor(w, b) /\ b.out.disconnect = {w} /\ b.workers[w] = NoObj
           /\ proc[w] = "done" /\ liveness[w] = Liveness /\ Tail(up[w]) = <<>> /\ down[w] = <<>>
<1> DEFINE o == broker.workers[w]
           p == DeleteWorker(Begin, w)
<1>1. /\ o # NoObj /\ ~Waits(w, broker)
      /\ Leaving(w, up[w], down[w]) /\ Tail(up[w]) = <<>>
  BY MessagePlaces DEF Registered
<1>2. /\ Starts(Begin) /\ Begin.workers = broker.workers /\ Begin.out = NoOutput
      /\ Begin.svcWaiting = broker.svcWaiting /\ Begin.waiting = broker.waiting
      /\ Begin.heartbeatDue = broker.heartbeatDue
      /\ \A v \in Worker : SameFor(v, Begin)
  BY BeginStarts
<1>3. b = Disconnect(p, w)
  BY DEF HandleReady
<1>4. o \in Obj /\ OwnerOf[o] = w /\ broker.svcWaiting[o] = 0
  <2>1. o \in Obj /\ OwnerOf[o] = w
    BY <1>1 DEF SystemInv, BrokerOK, BrokerType, RegisteredUnderOwner
  <2>2. broker.svcWaiting[o] \in Nat
    BY <2>1 DEF SystemInv, BrokerOK, BrokerType
  <2> QED BY <1>1, <2>1, <2>2 DEF Waits
<1>5. BrokerOK(p) /\ BrokerOK(b)
  <2>1. BrokerOK(p)
    BY <1>1, <1>2, DeleteWorkerOK DEF Starts
  <2> QED BY <1>3, <2>1, DisconnectOK
<1>6. /\ p.workers = [Begin.workers EXCEPT ![w] = NoObj] /\ p.status = Begin.status
      /\ p.left = Begin.left /\ p.waiting = Begin.waiting
      /\ p.svcWaiting = [Begin.svcWaiting EXCEPT ![o] = Pred(@)]
      /\ p.heartbeatDue = Begin.heartbeatDue /\ p.out = Begin.out
  BY <1>2 DEF Starts, BrokerOK, BrokerType, DeleteWorker
<1> HIDE DEF p, o
<1>7. p.svcWaiting = Begin.svcWaiting
  BY <1>2, <1>4, <1>6 DEF Starts, BrokerOK, BrokerType, Pred
<1>8. /\ b.workers = p.workers /\ b.status = p.status /\ b.left = p.left
      /\ b.waiting = p.waiting /\ b.svcWaiting = p.svcWaiting
      /\ b.heartbeatDue = p.heartbeatDue /\ b.out.copies = p.out.copies
      /\ b.out.heartbeat = p.out.heartbeat /\ b.out.disconnect = p.out.disconnect \cup {w}
  BY <1>3, <1>5 DEF Disconnect, BrokerOK, BrokerType, OutputType
<1>9. b.workers[w] = NoObj /\ \A v \in Worker \ {w} : b.workers[v] = broker.workers[v]
  BY <1>2, <1>6, <1>8 DEF Starts, BrokerOK, BrokerType
<1>10. \A x \in Obj : OwnerOf[x] = w => broker.waiting[x] = 0
  BY <1>1, <1>4, WaitsIsQueued DEF SystemInv, PromptInv
<1>11. Starts(b)
  <2>1. NoStale(b)
    BY <1>2, <1>6, <1>7, <1>8, <1>9, <1>10, BrokerAssumption DEF Starts, AllFresh, NoStale
  <2>2. Expired(b) = {}
    BY <1>2, <1>6, <1>8 DEF Starts, AllFresh, Expired
  <2> QED BY <1>2, <1>5, <1>6, <1>8, <2>1, <2>2 DEF Starts, AllFresh, Unsent, Running
<1>12. b.out.disconnect = {w}
  BY <1>2, <1>6, <1>8 DEF NoOutput
<1>13. \A v \in Worker \ {w} : SameFor(v, b)
  BY <1>2, <1>6, <1>7, <1>8, <1>9 DEF SameFor
<1> QED BY <1>1, <1>9, <1>11, <1>12, <1>13 DEF AllButFor, Leaving

LEMMA TakeUpPrompt ==
    ASSUME SystemInv, PromptInv, Timely, NEW w \in Worker, TakeUp(w)
    PROVE  PromptInv'
<1> DEFINE m == Head(up[w])
<1>1. PICK b \in HandleMessage(w, m) : \E sent : TurnOf(w, b, sent)
  BY TurnParts DEF TakeUp
<1>2. PICK sent : TurnOf(w, b, sent)
  BY <1>1
<1>3. /\ up[w] # <<>> /\ ~Stalled(w) /\ up' = [up EXCEPT ![w] = Tail(@)] /\ Running(broker)
  BY DEF TakeUp, BrokerTurn
<1>4. up'[w] = Tail(up[w]) /\ \A v \in Worker \ {w} : up'[v] = up[v]
  BY <1>3, Channels
<1>5. m \in UpMessage
  BY <1>3, Channels
<1>6. ASSUME NEW n, Starts(n), AllButFor(w, n), Outcome(n, b),
             IF n.out.disconnect = {} THEN Placed(w, n, Tail(up[w]), down[w])
             ELSE /\ n.out.disconnect = {w} /\ n.workers[w] = NoObj /\ proc[w] = "done"
                  /\ liveness[w] = Liveness /\ Tail(up[w]) = <<>> /\ down[w] = <<>>
      PROVE  PromptInv'
  <2>1. \A v \in Worker \ {w} : Placed(v, n, up'[v], down[v]) /\ v \notin n.out.disconnect
    BY <1>3, <1>4, <1>6, SamePlaced DEF AllButFor, PromptInv
  <2>2. \A v \in Worker : v \notin n.out.disconnect => Placed(v, n, up'[v], down[v])
    BY <1>4, <1>6, <2>1
  <2>3. \A v \in n.out.disconnect : /\ n.workers[v] = NoObj /\ proc[v] = "done"
                                    /\ liveness[v] = Liveness
                                    /\ up'[v] = <<>> /\ down[v] = <<>>
    BY <1>4, <1>6
  <2>4. \A v \in Worker : up'[v] # up[v] => up[v] # <<>>
    BY <1>3, <1>4
  <2> QED BY <1>2, <1>6, <2>2, <2>3, <2>4, TurnKeepsPrompt
<1>7. CASE m = Ready
  <2>1. b \in HandleReady(w) /\ m.kind = "READY"
    BY <1>1, <1>7, MessagesDiffer DEF HandleMessage
  <2>2. CASE Registered(w)
    <3>1. /\ Starts(b) /\ AllButFor(w, b) /\ b.out.disconnect = {w} /\ b.workers[w] = NoObj
          /\ proc[w] = "done" /\ liveness[w] = Liveness /\ Tail(up[w]) = <<>> /\ down[w] = <<>>
      BY <1>3, <2>1, <2>2, NextReadyStarts
    <3> QED BY <1>6, <3>1, NoDispatchOutcome
  <2>3. CASE ~Registered(w)
    <3>1. Unused(w) # {}
      BY <1>3, <2>1, <2>3 DEF Stalled
    <3>2. PICK n : /\ Starts(n) /\ AllButFor(w, n) /\ n.out.disconnect = {} /\ Outcome(n, b)
                   /\ Placed(w, n, Tail(up[w]), down[w])
      BY <1>3, <2>1, <2>3, <3>1, FirstReadyStarts
    <3> QED BY <1>6, <3>2
  <2> QED BY <2>2, <2>3
<1>8. CASE m = Message("HEARTBEAT", NoReq)
  <2>1. b \in HandleHeartbeat(w) /\ m.kind = "HEARTBEAT"
    BY <1>1, <1>8, MessagesDiffer DEF HandleMessage
  <2>2. /\ Starts(b) /\ AllButFor(w, b) /\ b.out.disconnect = {}
        /\ Placed(w, b, Tail(up[w]), down[w])
    BY <1>3, <2>1, HeartbeatStarts
  <2> QED BY <1>6, <2>2, NoDispatchOutcome
<1>9. ASSUME NEW r \in Request, m = Reply(r) PROVE PromptInv'
  <2>1. b \in HandleReply(w, r) /\ m.kind = "REPLY"
    BY <1>1, <1>9, MessagesDiffer DEF HandleMessage
  <2>2. PICK n : /\ Starts(n) /\ AllButFor(w, n) /\ n.out.disconnect = {} /\ Outcome(n, b)
                 /\ Placed(w, n, Tail(up[w]), down[w])
    BY <1>3, <2>1, ReplyStarts
  <2> QED BY <1>6, <2>2
<1> QED BY <1>5, <1>7, <1>8, <1>9, MessagesDiffer

-----------------------------------------------------------------------------
(***************************************************************************)
(* The worker's own steps move it from one place to the next.              *)
(***************************************************************************)
LEMMA WorkerKeepsPrompt ==
    ASSUME PromptInv, NEW w \in Worker, ownUnchanged,
           \A v \in Worker \ {w} : /\ proc'[v] = proc[v] /\ up'[v] = up[v] /\ down'[v] = down[v]
                                   /\ liveness'[v] = liveness[v] /\ beatDue'[v] = beatDue[v]
                                   /\ quiet'[v] = quiet[v],
           Running(broker) => /\ Placed(w, broker, up[w], down[w])'
                              /\ (quiet[w] => Polling(w) /\ beatDue[w] /\ up[w] = <<>>)'
    PROVE  PromptInv'
<1>1. broker' = broker
  BY DEF ownUnchanged
<1>2. ASSUME Running(broker), NEW v \in Worker \ {w}
      PROVE  /\ Placed(v, broker, up[v], down[v])'
             /\ (quiet[v] => Polling(v) /\ beatDue[v] /\ up[v] = <<>>)'
  BY <1>1, <1>2 DEF PromptInv, Placed, Joining, Rejected, Waits, Waiting, Called, Working,
                    Replying, Spare, Leaving, Gone, Polling
<1> QED BY <1>1, <1>2 DEF PromptInv, Running, NoStale

\* A heartbeat may join those that are on their way.
LEMMA BeatPlaces ==
    ASSUME SystemInv, NEW w \in Worker, Beat(w), Beats(up[w])
    PROVE  /\ Beats(up'[w]) /\ (beatDue[w] \/ up[w] # <<>> => up'[w] # <<>>)
           /\ \A v \in Worker \ {w} : up'[v] = up[v] /\ beatDue'[v] = beatDue[v]
<1>1. up[w] \in Seq(UpMessage) /\ beatDue \in [Worker -> BOOLEAN]
  BY Channels, WorkerTypedNow DEF WorkerTyped
<1>2. CASE beatDue[w]
  <2> DEFINE m == Message("HEARTBEAT", NoReq)
  <2>1. m \in UpMessage /\ m.kind = "HEARTBEAT"
    BY MessagesDiffer
  <2>2. up' = [up EXCEPT ![w] = Append(up[w], m)]
    BY <1>2 DEF Beat
  <2> HIDE DEF m
  <2>3. Append(up[w], m) # <<>> /\ Beats(Append(up[w], m))
    BY <1>1, <2>1, BeatsAppend
  <2> QED BY <1>1, <2>2, <2>3, Channels DEF Beat
<1>3. CASE ~beatDue[w]
  BY <1>1, <1>3 DEF Beat
<1> QED BY <1>2, <1>3

LEMMA ReconnectPlaces ==
    ASSUME SystemInv, NEW w \in Worker, Reconnect(w), up[w] = <<>>
    PROVE  /\ up'[w] = <<Ready>> /\ down'[w] = <<>> /\ liveness'[w] = Liveness
           /\ \A v \in Worker \ {w} : /\ up'[v] = up[v] /\ down'[v] = down[v]
                                      /\ liveness'[v] = liveness[v] /\ beatDue'[v] = beatDue[v]
<1>1. PICK kept \in Kept(w) : up' = [up EXCEPT ![w] = Append(kept, Ready)]
  BY DEF Reconnect
<1>2. kept = <<>>
  BY KeptOfNothing
<1>3. Append(kept, Ready) = <<Ready>>
  BY <1>2
<1>4. up'[w] = <<Ready>> /\ \A v \in Worker \ {w} : up'[v] = up[v]
  BY <1>1, <1>3, Channels
<1> QED BY <1>4, Channels, WorkerTypedNow DEF Reconnect, WorkerTyped

LEMMA TakeHeartbeatPrompt ==
    ASSUME SystemInv, PromptInv, Timely, NEW w \in Worker, TakeHeartbeat(w)
    PROVE  PromptInv'
<1>1. /\ Polling(w) /\ down[w] # <<>> /\ Head(down[w]).kind = "HEARTBEAT" /\ ownUnchanged
      /\ Beat(w) /\ UNCHANGED proc /\ quiet' = [quiet EXCEPT ![w] = FALSE]
      /\ liveness' = [liveness EXCEPT ![w] = Liveness]
      /\ down' = [down EXCEPT ![w] = Tail(@)]
  BY DEF TakeHeartbeat, Receives
<1>2. /\ ~quiet'[w] /\ liveness'[w] = Liveness /\ down'[w] = Tail(down[w])
      /\ \A v \in Worker \ {w} : /\ down'[v] = down[v] /\ liveness'[v] = liveness[v]
                                 /\ quiet'[v] = quiet[v]
  BY <1>1, WorkerTypedNow, Channels DEF WorkerTyped
<1>3. /\ Beats(down[w]) => Beats(down'[w])
      /\ BeatsAnd(down[w], "REQUEST") => BeatsAnd(down'[w], "REQUEST")
  BY <1>1, <1>2, Channels, BeatsTail
<1>4. broker' = broker
  BY <1>1 DEF ownUnchanged
<1>5. down[w] # <<Message("DISCONNECT", NoReq)>>
  BY <1>1 DEF Message
<1>6. CASE Running(broker)
  <2>1. Placed(w, broker, up[w], down[w]) /\ (quiet[w] => beatDue[w])
    BY <1>6 DEF PromptInv
  <2>2. broker.workers[w] # NoObj
    BY <1>1, <1>5, <2>1 DEF Placed, Joining, Rejected
  <2>3. CASE Waits(w, broker)
    <3>1. Waiting(w, broker, up[w], down[w])
      BY <2>1, <2>2, <2>3 DEF Placed
    <3>2. /\ Beats(up'[w]) /\ (beatDue[w] \/ up[w] # <<>> => up'[w] # <<>>)
          /\ \A v \in Worker \ {w} : up'[v] = up[v] /\ beatDue'[v] = beatDue[v]
      BY <1>1, <3>1, BeatPlaces DEF Waiting
    <3>3. Waiting(w, broker, up[w], down[w])'
      BY <1>1, <1>2, <1>3, <1>4, <2>1, <3>1, <3>2 DEF Waiting, Polling
    <3>4. Placed(w, broker, up[w], down[w])'
      BY <1>4, <2>2, <2>3, <3>3 DEF Placed, Waits
    <3> QED BY <1>1, <1>2, <3>2, <3>4, WorkerKeepsPrompt
  <2>4. CASE ~Waits(w, broker)
    <3>1. Called(w, up[w], down[w])
      BY <1>1, <2>1, <2>2, <2>4 DEF Placed, Working, Replying, Spare, Leaving, Gone
    <3>2. /\ Beats(up'[w])
          /\ \A v \in Worker \ {w} : up'[v] = up[v] /\ beatDue'[v] = beatDue[v]
      BY <1>1, <3>1, BeatPlaces DEF Called
    <3>3. Called(w, up[w], down[w])'
      BY <1>1, <1>2, <1>3, <3>1, <3>2, MajordomoAssumption DEF Called, Polling
    <3>4. Placed(w, broker, up[w], down[w])'
      BY <1>4, <2>2, <2>4, <3>3 DEF Placed, Waits
    <3> QED BY <1>1, <1>2, <3>2, <3>4, WorkerKeepsPrompt
  <2> QED BY <2>3, <2>4
<1>7. CASE ~Running(broker)
  BY <1>4, <1>7 DEF PromptInv, Running
<1> QED BY <1>6, <1>7

LEMMA TakeDisconnectPrompt ==
    ASSUME SystemInv, PromptInv, Timely, NEW w \in Worker, TakeDisconnect(w)
    PROVE  PromptInv'
<1>1. /\ Polling(w) /\ down[w] # <<>> /\ Head(down[w]).kind = "DISCONNECT" /\ ownUnchanged
      /\ Reconnect(w) /\ UNCHANGED proc /\ quiet' = [quiet EXCEPT ![w] = FALSE]
  BY DEF TakeDisconnect, Receives
<1>2. ~quiet'[w] /\ \A v \in Worker \ {w} : quiet'[v] = quiet[v]
  BY <1>1, WorkerTypedNow DEF WorkerTyped
<1>3. ~Beats(down[w]) /\ ~BeatsAnd(down[w], "REQUEST")
  BY <1>1, Channels, BeatsTail
<1>4. broker' = broker
  BY <1>1 DEF ownUnchanged
<1>5. CASE Running(broker)
  <2>1. broker.workers[w] = NoObj /\ Rejected(w, up[w], down[w])
    BY <1>1, <1>3, <1>5 DEF PromptInv, Placed, Joining, Waiting, Called, Working, Replying,
                            Spare, Leaving, Gone
  <2>2. /\ up'[w] = <<Ready>> /\ down'[w] = <<>> /\ liveness'[w] = Liveness
        /\ \A v \in Worker \ {w} : /\ up'[v] = up[v] /\ down'[v] = down[v]
                                   /\ liveness'[v] = liveness[v] /\ beatDue'[v] = beatDue[v]
    BY <1>1, <2>1, ReconnectPlaces DEF Rejected
  <2>3. Placed(w, broker, up[w], down[w])'
    BY <1>1, <1>4, <2>1, <2>2 DEF Placed, Joining, Polling
  <2> QED BY <1>1, <1>2, <2>2, <2>3, WorkerKeepsPrompt
<1>6. CASE ~Running(broker)
  BY <1>4, <1>6 DEF PromptInv, Running
<1> QED BY <1>5, <1>6

LEMMA TakeJobPrompt ==
    ASSUME SystemInv, PromptInv, Timely, NEW w \in Worker, TakeJob(w)
    PROVE  PromptInv'
<1> DEFINE m == Head(down[w])
<1>1. /\ Polling(w) /\ down[w] # <<>> /\ m.kind = "REQUEST" /\ ownUnchanged
      /\ quiet' = [quiet EXCEPT ![w] = FALSE] /\ UNCHANGED beatDue
      /\ liveness' = [liveness EXCEPT ![w] = Liveness]
      /\ \/ /\ proc' = [proc EXCEPT ![w] = "busy"]
            /\ down' = [down EXCEPT ![w] = Tail(@)] /\ UNCHANGED up
         \/ End(w)
  BY DEF TakeJob, Receives
<1>2. /\ ~quiet'[w] /\ liveness'[w] = Liveness
      /\ \A v \in Worker \ {w} : liveness'[v] = liveness[v] /\ quiet'[v] = quiet[v]
  BY <1>1, WorkerTypedNow DEF WorkerTyped
<1>3. /\ ~Beats(down[w]) /\ down[w] # <<Message("DISCONNECT", NoReq)>>
      /\ BeatsAnd(down[w], "REQUEST") => Tail(down[w]) = <<>>
  <2>1. down[w] # <<Message("DISCONNECT", NoReq)>>
    BY <1>1 DEF Message
  <2>2. /\ down[w] \in Seq(DownMessage)
        /\ ~BeatsAnd(<<>>, "REQUEST")
    BY Channels DEF BeatsAnd
  <2>3. /\ Beats(down[w]) => m.kind = "HEARTBEAT"
        /\ BeatsAnd(down[w], "REQUEST") => \/ Tail(down[w]) = <<>>
                                           \/ m.kind = "HEARTBEAT"
    BY <1>1, <2>2, BeatsTail
  <2> QED BY <1>1, <2>1, <2>3
<1>4. broker' = broker
  BY <1>1 DEF ownUnchanged
<1> HIDE DEF m
<1>5. CASE Running(broker)
  <2>1. Placed(w, broker, up[w], down[w])
    BY <1>5 DEF PromptInv
  <2>2. broker.workers[w] # NoObj /\ ~Waits(w, broker) /\ Called(w, up[w], down[w])
    BY <1>1, <1>3, <2>1
    DEF Placed, Joining, Rejected, Waiting, Working, Replying, Spare, Leaving, Gone
  <2>3. CASE /\ proc' = [proc EXCEPT ![w] = "busy"]
             /\ down' = [down EXCEPT ![w] = Tail(@)] /\ UNCHANGED up
    <3>1. /\ proc'[w] = "busy" /\ down'[w] = <<>> /\ up'[w] = up[w]
          /\ \A v \in Worker \ {w} : proc'[v] = proc[v] /\ up'[v] = up[v] /\ down'[v] = down[v]
      BY <1>3, <2>2, <2>3, Channels DEF Called
    <3>2. Working(w, up[w], down[w])'
      BY <1>2, <2>2, <3>1 DEF Called, Working
    <3>3. Placed(w, broker, up[w], down[w])'
      BY <1>4, <2>2, <3>2 DEF Placed, Waits
    <3> QED BY <1>1, <1>2, <3>1, <3>3, WorkerKeepsPrompt
  <2>4. CASE End(w)
    <3>1. PICK kept \in Kept(w) : up' = [up EXCEPT ![w] = kept]
      BY <2>4 DEF End
    <3>2. Beats(kept)
      BY <2>2, Channels, BeatsPrefix DEF Called
    <3>3. /\ proc'[w] = "dead" /\ down'[w] = <<>> /\ up'[w] = kept
          /\ \A v \in Worker \ {w} : proc'[v] = proc[v] /\ up'[v] = up[v] /\ down'[v] = down[v]
      BY <2>4, <3>1, Channels DEF End
    <3>4. Gone(w, up[w], down[w])'
      BY <3>2, <3>3 DEF Gone
    <3>5. Placed(w, broker, up[w], down[w])'
      BY <1>4, <2>2, <3>4 DEF Placed, Waits
    <3> QED BY <1>1, <1>2, <3>3, <3>5, WorkerKeepsPrompt
  <2> QED BY <1>1, <2>3, <2>4
<1>6. CASE ~Running(broker)
  BY <1>4, <1>6 DEF PromptInv, Running
<1> QED BY <1>5, <1>6

LEMMA WakePrompt ==
    ASSUME SystemInv, PromptInv, Timely, NEW w \in Worker, Wake(w)
    PROVE  PromptInv'
<1>1. /\ Polling(w) /\ liveness[w] = 0 /\ quiet[w] /\ ownUnchanged /\ UNCHANGED proc
      /\ quiet' = [quiet EXCEPT ![w] = FALSE] /\ Reconnect(w)
  BY DEF Wake, Asleep
<1>2. ~quiet'[w] /\ \A v \in Worker \ {w} : quiet'[v] = quiet[v]
  BY <1>1, WorkerTypedNow DEF WorkerTyped
<1>3. broker' = broker /\ Liveness \in Nat /\ Liveness > 1
  BY <1>1, MajordomoAssumption DEF ownUnchanged, Timely
<1>4. CASE Running(broker)
  <2>1. Placed(w, broker, up[w], down[w]) /\ up[w] = <<>>
    BY <1>1, <1>4 DEF PromptInv
  <2>2. broker.workers[w] # NoObj /\ ~Waits(w, broker) /\ Spare(w, up[w], down[w])
    BY <1>1, <1>3, <2>1
    DEF Placed, Polling, Joining, Rejected, Waiting, Called, Working, Replying, Leaving, Gone
  <2>3. /\ up'[w] = <<Ready>> /\ down'[w] = <<>> /\ liveness'[w] = Liveness
        /\ \A v \in Worker \ {w} : /\ up'[v] = up[v] /\ down'[v] = down[v]
                                   /\ liveness'[v] = liveness[v] /\ beatDue'[v] = beatDue[v]
    BY <1>1, <2>1, ReconnectPlaces
  <2>4. Leaving(w, up[w], down[w])'
    BY <1>1, <2>2, <2>3 DEF Spare, Leaving
  <2>5. Placed(w, broker, up[w], down[w])'
    BY <1>3, <2>2, <2>4 DEF Placed, Waits
  <2> QED BY <1>1, <1>2, <2>3, <2>5, WorkerKeepsPrompt
<1>5. CASE ~Running(broker)
  BY <1>3, <1>5 DEF PromptInv, Running
<1> QED BY <1>4, <1>5

LEMMA PollEndsPrompt ==
    ASSUME SystemInv, PromptInv, Timely, NEW w \in Worker, PollEnds(w)
    PROVE  PromptInv'
<1>1. /\ Polling(w) /\ quiet[w] /\ down[w] = <<>> /\ ownUnchanged /\ UNCHANGED <<proc, down>>
      /\ quiet' = [quiet EXCEPT ![w] = FALSE]
      /\ liveness' = [liveness EXCEPT ![w] = @ - 1]
      /\ IF liveness[w] = 1 THEN UNCHANGED <<up, beatDue>> ELSE Beat(w)
  BY DEF PollEnds
<1>2. /\ ~quiet'[w] /\ liveness'[w] = liveness[w] - 1 /\ down'[w] = <<>>
      /\ \A v \in Worker \ {w} : /\ quiet'[v] = quiet[v] /\ liveness'[v] = liveness[v]
                                 /\ down'[v] = down[v]
  BY <1>1, WorkerTypedNow DEF WorkerTyped
<1>3. broker' = broker /\ Liveness \in Nat
  BY <1>1, MajordomoAssumption DEF ownUnchanged
<1>4. CASE Running(broker)
  <2>1. Placed(w, broker, up[w], down[w]) /\ beatDue[w] /\ up[w] = <<>>
    BY <1>1, <1>4 DEF PromptInv
  <2>2. broker.workers[w] # NoObj
    BY <1>1, <2>1 DEF Placed, Joining, Rejected
  <2>3. /\ Beats(up'[w]) /\ (liveness[w] # 1 => up'[w] # <<>>)
        /\ \A v \in Worker \ {w} : up'[v] = up[v] /\ beatDue'[v] = beatDue[v]
    BY <1>1, <2>1, BeatPlaces, BeatsEmpty
  <2>4. CASE Waits(w, broker)
    <3>1. /\ Waiting(w, broker, up[w], down[w]) /\ liveness[w] = Liveness /\ liveness[w] # 1
          /\ broker.heartbeatDue
      BY <1>1, <1>3, <2>1, <2>2, <2>4 DEF Placed, Waiting, Timely
    <3>2. Waiting(w, broker, up[w], down[w])'
      BY <1>1, <1>2, <1>3, <2>3, <3>1, BeatsEmpty DEF Waiting, Polling
    <3>3. Placed(w, broker, up[w], down[w])'
      BY <1>3, <2>2, <2>4, <3>2 DEF Placed, Waits
    <3> QED BY <1>1, <1>2, <2>3, <3>3, WorkerKeepsPrompt
  <2>5. CASE ~Waits(w, broker)
    <3>1. Spare(w, up[w], down[w])
      BY <1>1, <2>1, <2>2, <2>5
      DEF Placed, Polling, Called, BeatsAnd, Working, Replying, Leaving, Gone
    <3>2. Spare(w, up[w], down[w])'
      BY <1>1, <1>2, <2>3, <3>1 DEF Spare
    <3>3. Placed(w, broker, up[w], down[w])'
      BY <1>3, <2>2, <2>5, <3>2 DEF Placed, Waits
    <3> QED BY <1>1, <1>2, <2>3, <3>3, WorkerKeepsPrompt
  <2> QED BY <2>4, <2>5
<1>5. CASE ~Running(broker)
  BY <1>3, <1>5 DEF PromptInv, Running
<1> QED BY <1>4, <1>5

LEMMA WorkPrompt ==
    ASSUME SystemInv, PromptInv, Timely, NEW w \in Worker, Work(w) \/ FailWork(w)
    PROVE  PromptInv'
<1>1. /\ proc[w] = "busy" /\ ownUnchanged /\ UNCHANGED <<down, workerVars>>
      /\ proc' = [proc EXCEPT ![w] = "done"]
      /\ \/ UNCHANGED up
         \/ up' = [up EXCEPT ![w] = Append(@, Message("REPLY", job[w]))]
  BY DEF Work, FailWork, Returns
<1>2. /\ proc'[w] = "done" /\ UNCHANGED <<liveness, beatDue, quiet>>
      /\ \A v \in Worker \ {w} : proc'[v] = proc[v]
  BY <1>1, Channels DEF workerVars
<1>3. broker' = broker
  BY <1>1 DEF ownUnchanged
<1>4. CASE Running(broker)
  <2>1. Placed(w, broker, up[w], down[w]) /\ ~quiet[w]
    BY <1>1, <1>4 DEF PromptInv, Polling
  <2>2. broker.workers[w] # NoObj /\ ~Waits(w, broker) /\ Working(w, up[w], down[w])
    BY <1>1, <2>1
    DEF Placed, Polling, Joining, Rejected, Waiting, Called, Replying, Spare, Leaving, Gone
  <2>3. CASE UNCHANGED up
    <3>1. Spare(w, up[w], down[w])'
      BY <1>1, <1>2, <2>2, <2>3 DEF Spare, Working
    <3>2. Placed(w, broker, up[w], down[w])'
      BY <1>3, <2>2, <3>1 DEF Placed, Waits
    <3> QED BY <1>1, <1>2, <2>1, <2>3, <3>2, WorkerKeepsPrompt
  <2>4. CASE up' = [up EXCEPT ![w] = Append(@, Message("REPLY", job[w]))]
    <3> DEFINE m == Reply(job[w])
    <3>1. job[w] \in Request /\ m \in UpMessage /\ m.kind = "REPLY"
      BY <1>1, MessagesDiffer DEF SystemInv, BusyHasJob
    <3>2. up'[w] = Append(up[w], m) /\ \A v \in Worker \ {w} : up'[v] = up[v]
      BY <2>4, Channels DEF Reply
    <3> HIDE DEF m
    <3>3. BeatsAnd(Append(up[w], m), "REPLY")
      BY <2>2, <3>1, Channels, BeatsAppend DEF Working
    <3>4. Replying(w, up[w], down[w])'
      BY <1>1, <1>2, <2>2, <3>2, <3>3 DEF Replying, Working
    <3>5. Placed(w, broker, up[w], down[w])'
      BY <1>3, <2>2, <3>4 DEF Placed, Waits
    <3> QED BY <1>1, <1>2, <2>1, <3>2, <3>5, WorkerKeepsPrompt
  <2> QED BY <1>1, <2>3, <2>4
<1>5. CASE ~Running(broker)
  BY <1>3, <1>5 DEF PromptInv, Running
<1> QED BY <1>4, <1>5

LEMMA SamePrompt ==
    ASSUME PromptInv, UNCHANGED <<broker, proc, up, down, liveness, beatDue, quiet>>
    PROVE  PromptInv'
BY DEF PromptInv, NoStale, Running, Placed, Joining, Rejected, Waits, Waiting, Called,
       Working, Replying, Spare, Leaving, Gone, Polling

\* Everything due is done when the next interval begins: no worker is between
\* READY and its place in the queue, and each that waits has sent its heartbeat.
LEMMA SystemTickPrompt ==
    ASSUME SystemInv, PromptInv, Timely, SystemTick
    PROVE  PromptInv'
<1>1. /\ Running(broker) /\ ~broker.heartbeatDue /\ AllDone
      /\ \A w \in Worker : /\ Len(up[w]) <= 0 \/ Stalled(w)
                           /\ Polling(w) /\ ~Asleep(w) => Len(down[w]) <= 0
      /\ broker' = [broker EXCEPT !.left = [o \in Obj |-> Pred(@[o])], !.heartbeatDue = TRUE]
      /\ beatDue' = [w \in Worker |-> proc[w] # "dead"]
      /\ quiet' = [w \in Worker |-> Polling(w)]
      /\ UNCHANGED <<proc, up, down, liveness>>
  BY DEF SystemTick, Timely
<1>2. BrokerOK(broker) /\ NoStale(broker)
  BY <1>1 DEF SystemInv, PromptInv
<1>3. /\ broker'.status = broker.status /\ broker'.workers = broker.workers
      /\ broker'.waiting = broker.waiting /\ broker'.svcWaiting = broker.svcWaiting
      /\ broker'.heartbeatDue = TRUE
      /\ \A o \in Obj : broker'.left[o] = Pred(broker.left[o])
  BY <1>1, <1>2 DEF BrokerOK, BrokerType
<1>4. ASSUME NEW w \in Worker PROVE ~Stalled(w)
  <2> SUFFICES ASSUME ~Registered(w), Unused(w) = {} PROVE FALSE
    BY DEF Stalled
  <2>1. PICK o \in Obj : OwnerOf[o] = w
    BY DEF Timely
  <2>2. broker.workers[w] = NoObj /\ ~Waits(w, broker) /\ o # NoObj
    BY <2>1, BrokerAssumption DEF Registered, Waits
  <2>3. broker.waiting[o] = 0 /\ broker.svcWaiting[o] = 0
    BY <1>2, <2>1, <2>2, WaitsIsQueued
  <2> QED BY <2>1, <2>2, <2>3 DEF Unused, Referenced
<1>5. \A w \in Worker : up[w] = <<>> /\ (Polling(w) => down[w] = <<>>)
  <2> SUFFICES ASSUME NEW w \in Worker PROVE up[w] = <<>> /\ (Polling(w) => down[w] = <<>>)
    OBVIOUS
  <2>1. up[w] \in Seq(UpMessage) /\ down[w] \in Seq(DownMessage)
    BY Channels
  <2>2. Len(up[w]) <= 0 /\ (Polling(w) /\ ~Asleep(w) => Len(down[w]) <= 0)
    BY <1>1, <1>4
  <2>3. up[w] = <<>> /\ (Polling(w) /\ ~Asleep(w) => down[w] = <<>>)
    BY <2>1, <2>2
  <2>4. Asleep(w) => down[w] = <<>>
    BY <1>1, MajordomoAssumption
    DEF PromptInv, Placed, Asleep, Polling, Joining, Rejected, Waiting, Called, Working,
        Replying, Spare, Leaving, Gone, Timely
  <2> QED BY <2>3, <2>4
<1>6. ASSUME NEW w \in Worker PROVE Placed(w, broker, up[w], down[w])'
  <2>1. Placed(w, broker, up[w], down[w]) /\ up[w] = <<>> /\ (Polling(w) => down[w] = <<>> /\ ~quiet[w])
    BY <1>1, <1>5 DEF PromptInv, AllDone
  <2>2. broker.workers[w] # NoObj
    <3>1. <<>> # <<Ready>> /\ <<>> # <<Message("DISCONNECT", NoReq)>>
      OBVIOUS
    <3> QED BY <2>1, <3>1 DEF Placed, Joining, Rejected, Polling
  <2>3. CASE Waits(w, broker)
    <3> DEFINE o == broker.workers[w]
    <3>1. Waiting(w, broker, <<>>, <<>>) /\ Polling(w) /\ ~quiet[w] /\ down[w] = <<>>
      BY <2>1, <2>2, <2>3 DEF Placed, Waiting
    <3>2. o \in Obj /\ broker.left[o] = Lifetime /\ liveness[w] = Liveness
      BY <1>1, <1>2, <2>2, <3>1 DEF Waiting, BrokerOK, BrokerType
    <3>3. broker'.left[broker'.workers[w]] = Lifetime - 1
      BY <1>3, <3>2, BrokerAssumption DEF Pred
    <3>4. quiet'[w] /\ proc'[w] = proc[w] /\ up'[w] = <<>> /\ down'[w] = <<>> /\ liveness'[w] = Liveness
      BY <1>1, <2>1, <3>1, <3>2
    <3>5. Waiting(w, broker, up[w], down[w])'
      BY <1>3, <3>1, <3>3, <3>4, BeatsEmpty DEF Waiting, Polling
    <3> QED BY <1>3, <2>2, <2>3, <3>5 DEF Placed, Waits
  <2>4. CASE ~Waits(w, broker)
    <3>1. Working(w, up[w], down[w]) \/ Spare(w, up[w], down[w]) \/ Gone(w, up[w], down[w])
      BY <2>1, <2>2, <2>4 DEF Placed, Called, BeatsAnd, Replying, Leaving
    <3>2. (Working(w, up[w], down[w]) \/ Spare(w, up[w], down[w]) \/ Gone(w, up[w], down[w]))'
      BY <1>1, <3>1 DEF Working, Spare, Gone
    <3> QED BY <1>3, <2>2, <2>4, <3>2 DEF Placed, Waits
  <2> QED BY <2>3, <2>4
<1>7. \A w \in Worker : (quiet[w] => Polling(w) /\ beatDue[w] /\ up[w] = <<>>)'
  BY <1>1, <1>5 DEF Polling
<1>8. NoStale(broker')
  BY <1>2, <1>3 DEF NoStale
<1> QED BY <1>3, <1>6, <1>7, <1>8 DEF PromptInv

LEMMA SystemInitPrompt == SystemInit => PromptInv
<1> SUFFICES ASSUME SystemInit PROVE PromptInv
  OBVIOUS
<1>1. broker = NewBroker /\ \A w \in Worker : proc[w] = "idle"
  BY DEF SystemInit, Init
<1>2. \A w \in Worker : /\ up[w] = <<Ready>> /\ down[w] = <<>> /\ liveness[w] = Liveness
                        /\ ~quiet[w]
  BY DEF SystemInit
<1>3. /\ broker.status = "running" /\ \A w \in Worker : broker.workers[w] = NoObj
      /\ \A o \in Obj : broker.waiting[o] = 0 /\ broker.svcWaiting[o] = 0
  BY <1>1 DEF NewBroker
<1> QED BY <1>1, <1>2, <1>3 DEF PromptInv, NoStale, Placed, Joining, Polling

LEMMA PromptStep ==
    ASSUME SystemInv, PromptInv, Timely, [SystemNext]_systemVars
    PROVE  PromptInv'
<1>1. ASSUME NEW w \in Worker, TakeUp(w) \/ RecvTurn(w) \/ Work(w) \/ FailWork(w)
      PROVE  PromptInv'
  BY <1>1, TakeUpPrompt, TakeHeartbeatPrompt, TakeDisconnectPrompt, TakeJobPrompt,
     PollEndsPrompt, WakePrompt, WorkPrompt DEF RecvTurn
<1>2. ASSUME NEW w \in Worker, Exit(w) \/ StartAgain(w) PROVE FALSE
  BY <1>2 DEF Exit, StartAgain, Timely
<1>3. ASSUME NEW r \in Request, TakeRequest(r) PROVE PromptInv'
  BY <1>3, TakeRequestPrompt
<1>4. ASSUME NEW r \in Request, ClientSend(r) \/ ClientRecv(r) \/ GiveUp(r) PROVE PromptInv'
  BY <1>4, SamePrompt
     DEF ClientSend, ClientRecv, GiveUp, othersUnchanged, vars, workerVars
<1>5. CASE TakeNothing
  BY <1>5, TakeNothingPrompt
<1>6. CASE SystemTick
  BY <1>6, SystemTickPrompt
<1>7. CASE UNCHANGED systemVars
  BY <1>7, SamePrompt DEF systemVars, vars, workerVars
<1> QED BY <1>1, <1>2, <1>3, <1>4, <1>5, <1>6, <1>7 DEF SystemNext

\* Without delays and deaths every worker is where its channels and the broker's
\* queues both have it, and the heartbeats of the two cross in time.
THEOREM PromptInvariance == ASSUME Timely PROVE SystemSpec => []PromptInv
<1>1. SystemInit => PromptInv
  BY SystemInitPrompt
<1>2. SystemInv /\ PromptInv /\ [SystemNext]_systemVars => PromptInv'
  BY PromptStep
<1> QED BY <1>1, <1>2, SystemInvariance, PTL DEF SystemSpec

\* As long as messages are prompt, and no worker dies, the broker never expires a
\* waiting worker, and never deletes one that it does not know.
THEOREM HeartbeatsKeepAlive == ASSUME Timely PROVE SystemSpec => []LiveKept
<1>1. SystemInv /\ PromptInv => LiveKept
  <2> SUFFICES ASSUME SystemInv, PromptInv, Running(broker), NEW o \in Obj,
                      broker.svcWaiting[o] > 0
               PROVE  broker.workers[OwnerOf[o]] = o /\ broker.left[o] > 0
    BY DEF LiveKept, PromptInv
  <2> DEFINE w == OwnerOf[o]
  <2>1. w \in Worker /\ broker.workers[w] = o /\ Waits(w, broker)
    BY BrokerAssumption DEF PromptInv, NoStale, Waits
  <2>2. Waiting(w, broker, up[w], down[w])
    BY <2>1 DEF PromptInv, Placed, Waits
  <2>3. broker.left[o] > 0
    BY <2>1, <2>2, BrokerAssumption DEF Waiting, Timely
  <2> QED BY <2>1, <2>3
<1> QED BY <1>1, SystemInvariance, PromptInvariance, PTL
=============================================================================
