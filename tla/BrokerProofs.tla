---------------------------- MODULE BrokerProofs ----------------------------
(***************************************************************************)
(* What TLAPS proves of the broker, for every number of workers, services, *)
(* requests and worker objects: that its tables agree; that no turn leaves *)
(* a request beside a waiting worker, or writes to one whose time was up;  *)
(* and that seen through its requests it is a RequestQueue, which loses    *)
(* none and has none twice.                                                *)
(***************************************************************************)
EXTENDS Broker, TLAPS, FiniteSetTheorems

LEMMA PredNat == \A n \in Nat : Pred(n) \in Nat /\ Pred(n) <= n /\ (n > 0 => Pred(n) = n - 1)
BY DEF Pred

LEMMA NoOutputOK == NoOutput \in OutputType /\ LedGroup(NoOutput)
BY DEF NoOutput, OutputType, LedGroup, Sent

LEMMA NewBrokerOK == BrokerOK(NewBroker)
BY BrokerAssumption, NoOutputOK DEF BrokerOK, NewBroker, BrokerType, Status,
   RegisteredUnderOwner, Covers, QueuedByService

LEMMA RaiseOK ==
    ASSUME NEW b, BrokerOK(b), NEW e \in Status, e # "ValueError"
    PROVE  BrokerOK(Raise(b, e))
BY DEF BrokerOK, Raise, BrokerType, Status, RegisteredUnderOwner, Covers, QueuedByService

LEMMA DeleteWorkerOK ==
    ASSUME NEW b, BrokerOK(b), NEW w \in Worker, b.workers[w] # NoObj
    PROVE  BrokerOK(DeleteWorker(b, w))
<1> DEFINE d == DeleteWorker(b, w)
<1>1. d \in BrokerType
  BY BrokerAssumption, PredNat DEF BrokerOK, BrokerType, DeleteWorker
<1>2. RegisteredUnderOwner(d) /\ Covers(d) /\ QueuedByService(d) /\ LedGroup(d.out)
  BY BrokerAssumption, PredNat
  DEF BrokerOK, BrokerType, DeleteWorker, RegisteredUnderOwner, Covers, QueuedByService
<1> QED BY <1>1, <1>2 DEF BrokerOK

LEMMA DisconnectOK ==
    ASSUME NEW b, BrokerOK(b), NEW w \in Worker
    PROVE  BrokerOK(Disconnect(b, w))
<1> DEFINE d == Disconnect(b, w)
<1>1. d \in BrokerType
  BY DEF BrokerOK, Disconnect, BrokerType, OutputType
<1>2. /\ d.workers = b.workers /\ d.svcWaiting = b.svcWaiting /\ d.waiting = b.waiting
      /\ d.status = b.status /\ d.requests = b.requests
      /\ d.out.request = b.out.request /\ d.out.leader = b.out.leader
      /\ d.out.copies = b.out.copies
  BY DEF BrokerOK, Disconnect, BrokerType, OutputType
<1> QED BY <1>1, <1>2
  DEF BrokerOK, RegisteredUnderOwner, Covers, QueuedByService, LedGroup, Sent

LEMMA PurgeExpiredOK ==
    ASSUME NEW b, BrokerOK(b), ~PurgeFails(b)
    PROVE  BrokerOK(PurgeExpired(b))
<1> DEFINE d == PurgeExpired(b)
<1>1. d \in BrokerType
  BY BrokerAssumption, PredNat DEF BrokerOK, BrokerType, PurgeExpired
<1>2. RegisteredUnderOwner(d) /\ QueuedByService(d) /\ LedGroup(d.out)
  BY BrokerAssumption DEF BrokerOK, BrokerType, PurgeExpired, RegisteredUnderOwner, QueuedByService
<1>3. Covers(d)
  <2> SUFFICES ASSUME NEW o \in Obj
               PROVE  d.svcWaiting[o] <= d.waiting[o]
    BY DEF BrokerOK, BrokerType, PurgeExpired, Covers
  <2>1. /\ b.waiting[o] \in Nat /\ b.svcWaiting[o] \in Nat
        /\ b.svcWaiting[o] <= b.waiting[o]
    BY DEF BrokerOK, BrokerType, Covers
  <2>2. /\ d.waiting[o] = IF o \in Expired(b) THEN 0 ELSE b.waiting[o]
        /\ d.svcWaiting[o] = IF o \in Expired(b) THEN Pred(b.svcWaiting[o])
                                                 ELSE b.svcWaiting[o]
    BY DEF BrokerOK, BrokerType, PurgeExpired
  <2>3. o \in Expired(b) => b.waiting[o] <= 1
    BY <2>1 DEF PurgeFails
  <2> QED BY <2>1, <2>2, <2>3 DEF Pred
<1> QED BY <1>1, <1>2, <1>3 DEF BrokerOK

LEMMA PurgeWorkersOK ==
    ASSUME NEW b, BrokerOK(b)
    PROVE  BrokerOK(PurgeWorkers(b))
BY RaiseOK, PurgeExpiredOK DEF PurgeWorkers, Status

LEMMA SendHeartbeatsOK ==
    ASSUME NEW b, BrokerOK(b)
    PROVE  BrokerOK(SendHeartbeats(b))
<1> DEFINE d == SendHeartbeats(b)
<1>1. d \in BrokerType
  <2> DEFINE awake == {OwnerOf[o] : o \in {x \in Obj : b.waiting[x] > 0}}
  <2>1. awake \in SUBSET Worker
    BY BrokerAssumption
  <2> HIDE DEF awake
  <2>2. [b EXCEPT !.heartbeatDue = FALSE, !.out.heartbeat = awake] \in BrokerType
    BY <2>1 DEF BrokerOK, BrokerType, OutputType
  <2> QED BY <2>2 DEF SendHeartbeats, awake, BrokerOK
<1>2. /\ d.workers = b.workers /\ d.svcWaiting = b.svcWaiting /\ d.waiting = b.waiting
      /\ d.status = b.status /\ d.requests = b.requests
      /\ d.out.request = b.out.request /\ d.out.leader = b.out.leader
      /\ d.out.copies = b.out.copies
  BY DEF BrokerOK, SendHeartbeats, BrokerType, OutputType
<1> QED BY <1>1, <1>2
  DEF BrokerOK, RegisteredUnderOwner, Covers, QueuedByService, LedGroup, Sent

\* What Assign sends and leaves behind is in order.
LEMMA AssignOK ==
    ASSUME NEW b, BrokerOK(b), NEW s \in Service, DispatchReady(b, s),
           NEW leader \in Entries(b, s)
    PROVE  BrokerOK(Assign(b, s, leader))
<1> DEFINE st == StripOfBytes(b, s)
           t  == TakeWorkers(st, s)
           d  == Assign(b, s, leader)
<1>1. /\ st \in BrokerType
      /\ st.workers = b.workers /\ st.svcWaiting = b.svcWaiting
      /\ st.waiting = b.waiting /\ st.status = b.status
      /\ st.requests = b.requests /\ st.out = b.out
  BY DEF BrokerOK, BrokerType, StripOfBytes
<1>2. Entries(st, s) = Entries(b, s)
  BY <1>1 DEF Entries
<1>3. /\ t \in BrokerType
      /\ t.workers = b.workers /\ t.status = b.status
      /\ t.requests = b.requests /\ t.out = b.out
      /\ t.epStr = st.epStr
  <2>1. \A o \in Obj : /\ b.waiting[o] \in Nat /\ b.svcWaiting[o] \in Nat
                       /\ b.svcWaiting[o] <= b.waiting[o]
    BY DEF BrokerOK, BrokerType, Covers
  <2> DEFINE ws == [o \in Obj |-> IF o \in Entries(st, s)
                                  THEN st.waiting[o] - st.svcWaiting[o]
                                  ELSE st.waiting[o]]
             ss == [o \in Obj |-> IF o \in Entries(st, s) THEN 0 ELSE st.svcWaiting[o]]
  <2>2. ws \in [Obj -> Nat] /\ ss \in [Obj -> Nat]
    BY <1>1, <2>1
  <2>3. t = [st EXCEPT !.waiting = ws, !.svcWaiting = ss]
    BY DEF TakeWorkers
  <2> HIDE DEF ws, ss, st, t
  <2> QED BY <1>1, <2>2, <2>3 DEF BrokerType
<1>4. \A o \in Obj :
         /\ t.waiting[o] = IF o \in Entries(b, s) THEN b.waiting[o] - b.svcWaiting[o]
                                                  ELSE b.waiting[o]
         /\ t.svcWaiting[o] = IF o \in Entries(b, s) THEN 0 ELSE b.svcWaiting[o]
  BY <1>1, <1>2 DEF TakeWorkers, BrokerType
<1>5. b.requests[s] \in Seq(Request) /\ b.requests[s] # <<>>
  BY DEF BrokerOK, BrokerType, DispatchReady
<1>6. Head(b.requests[s]) \in Request /\ Tail(b.requests[s]) \in Seq(Request)
  BY <1>5
<1>7. Copies(b, s) \in [Obj -> Nat]
  BY DEF Copies, BrokerOK, BrokerType
<1>8. d \in BrokerType
  BY <1>3, <1>6, <1>7 DEF BrokerType, OutputType, Assign, Entries
<1>9. /\ d.workers = b.workers /\ d.status = b.status
      /\ d.waiting = t.waiting /\ d.svcWaiting = t.svcWaiting
      /\ d.requests = [b.requests EXCEPT ![s] = Tail(@)]
      /\ d.out.request = Head(b.requests[s]) /\ d.out.leader = leader
      /\ d.out.copies = Copies(b, s)
  BY <1>3 DEF BrokerType, OutputType, Assign
<1>10. RegisteredUnderOwner(d)
  BY <1>9 DEF BrokerOK, RegisteredUnderOwner
<1>11. Covers(d)
  <2> SUFFICES ASSUME NEW o \in Obj
               PROVE  d.svcWaiting[o] <= d.waiting[o]
    BY <1>9 DEF BrokerOK, Covers
  <2>1. /\ b.waiting[o] \in Nat /\ b.svcWaiting[o] \in Nat
        /\ b.svcWaiting[o] <= b.waiting[o]
    BY DEF BrokerOK, BrokerType, Covers
  <2> HIDE DEF t, d
  <2> QED BY <1>9, <1>4, <2>1
<1>12. QueuedByService(d)
  <2> SUFFICES ASSUME NEW t0 \in Service, NEW i \in DOMAIN d.requests[t0]
               PROVE  ReqSvc[d.requests[t0][i]] = t0
    BY DEF QueuedByService
  <2>1. CASE t0 # s
    BY <2>1, <1>9 DEF BrokerOK, BrokerType, QueuedByService
  <2>2. CASE t0 = s
    <3>1. d.requests[s] = Tail(b.requests[s])
      BY <1>9 DEF BrokerOK, BrokerType
    <3> DEFINE q == b.requests[s]
    <3>2. i \in 1..(Len(q) - 1) /\ Len(q) \in Nat
      BY <1>5, <2>2, <3>1
    <3>3. /\ i + 1 \in DOMAIN q
          /\ Tail(q)[i] = q[i + 1]
      BY <1>5, <3>2
    <3> QED BY <2>2, <3>1, <3>3 DEF BrokerOK, QueuedByService
  <2> QED BY <2>1, <2>2
<1>13. LedGroup(d.out)
  <2>1. ReqSvc[Head(b.requests[s])] = s
    BY <1>5 DEF BrokerOK, QueuedByService
  <2>2. \A o \in Obj : Copies(b, s)[o] > 0 <=> o \in Entries(b, s)
    BY DEF Copies, Entries
  <2>3. Head(b.requests[s]) # NoReq
    BY <1>6, BrokerAssumption
  <2> QED BY <1>9, <2>1, <2>2, <2>3 DEF LedGroup, Sent, Entries
<1> QED BY <1>8, <1>10, <1>11, <1>12, <1>13 DEF BrokerOK

\* dispatch() purges the workers before anything else.
LEMMA DispatchPurges ==
    ASSUME NEW b, NEW s
    PROVE  Dispatch(b, s) = DispatchTo(PurgeWorkers(b), s)
BY DEF Dispatch

LEMMA DispatchOK ==
    ASSUME NEW b, BrokerOK(b), NEW s \in Service, NEW d \in Dispatch(b, s)
    PROVE  BrokerOK(d)
<1> DEFINE p == PurgeWorkers(b)
<1>1. BrokerOK(p)
  BY PurgeWorkersOK
<1> HIDE DEF p
<1>2. CASE ~DispatchReady(p, s)
  BY <1>1, <1>2, DispatchPurges DEF DispatchTo, p
<1>3. CASE DispatchReady(p, s)
  <2>1. ~ \E o \in Entries(p, s) : p.svcWaiting[o] > p.waiting[o]
    BY <1>1 DEF BrokerOK, BrokerType, Covers, Entries
  <2>2. \/ d \in {Raise(p, e) : e \in StripFailures(p, s)}
        \/ d \in {Assign(p, s, leader) : leader \in Entries(p, s)}
    BY <1>3, <2>1, DispatchPurges DEF DispatchTo, p
  <2>3. StripFailures(p, s) \subseteq {"RuntimeError", "TypeError"}
    BY DEF StripFailures
  <2> QED BY <1>1, <1>3, <2>2, <2>3, RaiseOK, AssignOK DEF Status
<1> QED BY <1>2, <1>3

\* The broker with one more entry of object o, as WorkerWaiting leaves it to
\* Dispatch.
LEMMA QueuedOK ==
    ASSUME NEW b, BrokerOK(b), NEW o \in Obj
    PROVE  BrokerOK([b EXCEPT !.waiting[o] = @ + 1, !.svcWaiting[o] = @ + 1,
                              !.left[o] = Lifetime])
<1> DEFINE d == [b EXCEPT !.waiting[o] = @ + 1, !.svcWaiting[o] = @ + 1,
                          !.left[o] = Lifetime]
<1>1. d \in BrokerType
  <2>1. Lifetime \in 0..Lifetime
    BY BrokerAssumption
  <2>2. b.waiting[o] + 1 \in Nat /\ b.svcWaiting[o] + 1 \in Nat
    BY DEF BrokerOK, BrokerType
  <2> QED BY <2>1, <2>2 DEF BrokerOK, BrokerType
<1>2. /\ d.workers = b.workers /\ d.status = b.status /\ d.out = b.out
      /\ d.requests = b.requests
      /\ \A x \in Obj :
            /\ d.waiting[x] = IF x = o THEN b.waiting[x] + 1 ELSE b.waiting[x]
            /\ d.svcWaiting[x] = IF x = o THEN b.svcWaiting[x] + 1 ELSE b.svcWaiting[x]
  BY DEF BrokerOK, BrokerType
<1>3. Covers(d)
  BY <1>2 DEF BrokerOK, BrokerType, Covers
<1> QED BY <1>1, <1>2, <1>3
  DEF BrokerOK, RegisteredUnderOwner, QueuedByService, LedGroup

LEMMA WorkerWaitingOK ==
    ASSUME NEW b, BrokerOK(b), NEW o \in Obj, NEW d \in WorkerWaiting(b, o)
    PROVE  BrokerOK(d)
BY BrokerAssumption, QueuedOK, DispatchOK DEF WorkerWaiting, ObjSvc

LEMMA EndTurnOK ==
    ASSUME NEW b, BrokerOK(b)
    PROVE  BrokerOK(EndTurn(b))
BY PurgeWorkersOK, SendHeartbeatsOK DEF EndTurn

LEMMA BeginOK == BrokerOK(broker) => BrokerOK(Begin)
<1> SUFFICES ASSUME BrokerOK(broker) PROVE BrokerOK(Begin)
  OBVIOUS
<1>1. NoOutput \in OutputType /\ LedGroup(NoOutput)
  BY NoOutputOK
<1>2. Begin \in BrokerType
  <2> DEFINE left == [o \in Obj |-> IF Referenced(broker, o) THEN broker.left[o] ELSE 0]
  <2>1. left \in [Obj -> 0..Lifetime]
    BY BrokerAssumption DEF BrokerOK, BrokerType
  <2> HIDE DEF left
  <2>2. [broker EXCEPT !.out = NoOutput, !.left = left] \in BrokerType
    BY <1>1, <2>1 DEF BrokerOK, BrokerType
  <2> QED BY <2>2 DEF Begin, left
<1>3. /\ Begin.workers = broker.workers /\ Begin.status = broker.status
      /\ Begin.waiting = broker.waiting /\ Begin.svcWaiting = broker.svcWaiting
      /\ Begin.requests = broker.requests /\ Begin.out = NoOutput
  BY DEF BrokerOK, BrokerType, Begin
<1> QED BY <1>1, <1>2, <1>3
  DEF BrokerOK, RegisteredUnderOwner, Covers, QueuedByService

-----------------------------------------------------------------------------
(***************************************************************************)
(* The handlers.                                                           *)
(***************************************************************************)
LEMMA HandleReadyOK ==
    ASSUME BrokerOK(broker), NEW w \in Worker, Registered(w) \/ Unused(w) # {},
           NEW d \in HandleReady(w)
    PROVE  BrokerOK(d)
<1>1. BrokerOK(Begin) /\ Begin.workers = broker.workers
  BY BeginOK DEF Begin, BrokerOK, BrokerType
<1>2. CASE Registered(w)
  BY <1>1, <1>2, DeleteWorkerOK, DisconnectOK DEF HandleReady, Registered
<1>3. CASE ~Registered(w)
  <2> DEFINE o == CHOOSE x \in Unused(w) : TRUE
             n == [Begin EXCEPT !.workers[w] = o, !.services = @ \cup {SvcOf[w]}]
  <2>1. o \in Obj /\ OwnerOf[o] = w
    BY <1>3 DEF Unused
  <2> HIDE DEF o
  <2>2. n \in BrokerType
    BY <1>1, <2>1, BrokerAssumption DEF BrokerOK, BrokerType
  <2>3. /\ n.workers = [Begin.workers EXCEPT ![w] = o] /\ n.status = Begin.status
        /\ n.waiting = Begin.waiting /\ n.svcWaiting = Begin.svcWaiting
        /\ n.requests = Begin.requests /\ n.out = Begin.out
    BY <1>1 DEF BrokerOK, BrokerType
  <2>4. BrokerOK(n)
    BY <1>1, <2>1, <2>2, <2>3
    DEF BrokerOK, BrokerType, RegisteredUnderOwner, Covers, QueuedByService, LedGroup
  <2>5. d \in WorkerWaiting(n, o)
    BY <1>3 DEF HandleReady, o
  <2> QED BY <2>1, <2>4, <2>5, WorkerWaitingOK
<1> QED BY <1>2, <1>3

LEMMA HandleReplyOK ==
    ASSUME BrokerOK(broker), NEW w \in Worker, NEW r \in Request, NEW d \in HandleReply(w, r)
    PROVE  BrokerOK(d)
<1>1. BrokerOK(Begin) /\ Begin.workers = broker.workers
  BY BeginOK DEF Begin, BrokerOK, BrokerType
<1>2. CASE Registered(w)
  <2> DEFINE n == [Begin EXCEPT !.out.reply = r]
  <2>1. n \in BrokerType
    BY <1>1 DEF BrokerOK, BrokerType, OutputType
  <2>2. /\ n.workers = Begin.workers /\ n.status = Begin.status
        /\ n.waiting = Begin.waiting /\ n.svcWaiting = Begin.svcWaiting
        /\ n.requests = Begin.requests
        /\ n.out.request = Begin.out.request /\ n.out.leader = Begin.out.leader
        /\ n.out.copies = Begin.out.copies
    BY <1>1 DEF BrokerOK, BrokerType, OutputType
  <2>3. BrokerOK(n)
    BY <1>1, <2>1, <2>2
    DEF BrokerOK, RegisteredUnderOwner, Covers, QueuedByService, LedGroup, Sent
  <2>4. broker.workers[w] \in Obj
    BY <1>2 DEF Registered, BrokerOK, BrokerType
  <2> QED BY <1>2, <2>3, <2>4, WorkerWaitingOK DEF HandleReply
<1>3. CASE ~Registered(w)
  BY <1>1, <1>3, DisconnectOK DEF HandleReply
<1> QED BY <1>2, <1>3

LEMMA HandleHeartbeatOK ==
    ASSUME BrokerOK(broker), NEW w \in Worker, NEW d \in HandleHeartbeat(w)
    PROVE  BrokerOK(d)
<1>1. BrokerOK(Begin)
  BY BeginOK
<1>2. CASE Registered(w)
  <2> DEFINE o == broker.workers[w]
  <2>1. o \in Obj
    BY <1>2 DEF Registered, BrokerOK, BrokerType
  <2>2. d = [Begin EXCEPT !.left[o] = Lifetime, !.epBytes = @ \cup {w}]
    BY <1>2 DEF HandleHeartbeat
  <2> HIDE DEF o
  <2>3. d \in BrokerType
    <3>1. Lifetime \in 0..Lifetime
      BY BrokerAssumption
    <3> QED BY <1>1, <2>1, <2>2, <3>1 DEF BrokerOK, BrokerType
  <2>4. /\ d.workers = Begin.workers /\ d.status = Begin.status
        /\ d.waiting = Begin.waiting /\ d.svcWaiting = Begin.svcWaiting
        /\ d.requests = Begin.requests /\ d.out = Begin.out
    BY <1>1, <2>2 DEF BrokerOK, BrokerType
  <2> QED BY <1>1, <2>3, <2>4
      DEF BrokerOK, RegisteredUnderOwner, Covers, QueuedByService, LedGroup
<1>3. CASE ~Registered(w)
  BY <1>1, <1>3, DisconnectOK DEF HandleHeartbeat
<1> QED BY <1>2, <1>3

LEMMA HandleDisconnectOK ==
    ASSUME BrokerOK(broker), NEW w \in Worker, NEW d \in HandleDisconnect(w)
    PROVE  BrokerOK(d)
<1>1. BrokerOK(Begin) /\ Begin.workers = broker.workers
  BY BeginOK DEF Begin, BrokerOK, BrokerType
<1> QED BY <1>1, DeleteWorkerOK DEF HandleDisconnect, Registered

\* The broker with one more request, as HandleClient leaves it to Dispatch.
LEMMA HandleClientStart ==
    ASSUME BrokerOK(broker), NEW r \in Request
    PROVE  BrokerOK([Begin EXCEPT !.services = @ \cup {ReqSvc[r]},
                                  !.requests[ReqSvc[r]] = Append(@, r)])
<1> DEFINE s == ReqSvc[r]
           n == [Begin EXCEPT !.services = @ \cup {s}, !.requests[s] = Append(@, r)]
<1>1. BrokerOK(Begin)
  BY BeginOK
<1>2. s \in Service /\ Begin.requests[s] \in Seq(Request)
  BY <1>1, BrokerAssumption DEF BrokerOK, BrokerType
<1>3. n \in BrokerType
  <2>1. Append(Begin.requests[s], r) \in Seq(Request)
    BY <1>2
  <2> QED BY <1>1, <1>2, <2>1 DEF BrokerOK, BrokerType
<1>4. /\ n.workers = Begin.workers /\ n.status = Begin.status
      /\ n.waiting = Begin.waiting /\ n.svcWaiting = Begin.svcWaiting
      /\ n.requests = [Begin.requests EXCEPT ![s] = Append(@, r)]
      /\ n.out = Begin.out
  BY <1>1 DEF BrokerOK, BrokerType
<1>5. QueuedByService(n)
  <2> SUFFICES ASSUME NEW t \in Service, NEW i \in DOMAIN n.requests[t]
               PROVE  ReqSvc[n.requests[t][i]] = t
    BY DEF QueuedByService
  <2>1. CASE t # s
    BY <1>1, <1>4, <2>1 DEF BrokerOK, BrokerType, QueuedByService
  <2>2. CASE t = s
    <3> DEFINE q == Begin.requests[s]
    <3>1. n.requests[s] = Append(q, r)
      BY <1>1, <1>2, <1>4 DEF BrokerOK, BrokerType
    <3>2. CASE i = Len(q) + 1
      BY <1>2, <2>2, <3>1, <3>2
    <3>3. CASE i # Len(q) + 1
      <4>1. i \in DOMAIN q /\ Append(q, r)[i] = q[i]
        BY <1>2, <2>2, <3>1, <3>3
      <4> QED BY <1>1, <1>2, <2>2, <3>1, <4>1 DEF BrokerOK, QueuedByService
    <3> QED BY <3>2, <3>3
  <2> QED BY <2>1, <2>2
<1>6. BrokerOK(n)
  BY <1>1, <1>3, <1>4, <1>5 DEF BrokerOK, RegisteredUnderOwner, Covers, LedGroup
<1> QED BY <1>6

LEMMA HandleClientOK ==
    ASSUME BrokerOK(broker), NEW r \in Request, NEW d \in HandleClient(r)
    PROVE  BrokerOK(d)
BY HandleClientStart, DispatchOK, BrokerAssumption DEF HandleClient

LEMMA HandleInternalOK ==
    ASSUME BrokerOK(broker), NEW s \in Service, NEW d \in HandleInternal(s)
    PROVE  BrokerOK(d)
<1>1. BrokerOK(Begin)
  BY BeginOK
<1>2. PICK code \in {"200", "404", "501"} : d = [Begin EXCEPT !.out.mmi = code]
  BY DEF HandleInternal
<1>3. d \in BrokerType
  <2> DEFINE b == Begin
             o == [b.out EXCEPT !.mmi = code]
  <2>1. b \in BrokerType /\ b.out \in OutputType
    BY <1>1 DEF BrokerOK, BrokerType
  <2>2. d = [b EXCEPT !.out = o]
    BY <1>2
  <2> HIDE DEF b
  <2>3. o \in OutputType
    BY <2>1 DEF OutputType
  <2> HIDE DEF o
  <2> QED BY <2>1, <2>2, <2>3 DEF BrokerType
<1>4. /\ d.workers = Begin.workers /\ d.status = Begin.status
      /\ d.waiting = Begin.waiting /\ d.svcWaiting = Begin.svcWaiting
      /\ d.requests = Begin.requests /\ d.out.request = Begin.out.request
      /\ d.out.leader = Begin.out.leader /\ d.out.copies = Begin.out.copies
  BY <1>1, <1>2 DEF BrokerOK, BrokerType, OutputType
<1> QED BY <1>1, <1>3, <1>4
    DEF BrokerOK, RegisteredUnderOwner, Covers, QueuedByService, LedGroup, Sent

-----------------------------------------------------------------------------
(***************************************************************************)
(* The actions.                                                            *)
(***************************************************************************)
LEMMA HandedAfterOK ==
    ASSUME handed \in [Request -> Handover], OneLeader, NEW out \in OutputType,
           LedGroup(out), handed' = HandedAfter(handed, out)
    PROVE  handed' \in [Request -> Handover] /\ OneLeader'
<1>1. CASE out.request = NoReq
  BY <1>1 DEF HandedAfter, OneLeader
<1>2. CASE out.request # NoReq
  <2> DEFINE h == [to |-> Recipients(out), leader |-> OwnerOf[out.leader]]
  <2>1. /\ out.leader \in Sent(out)
        /\ \A o \in Sent(out) : ObjSvc(o) = ReqSvc[out.request]
    BY <1>2 DEF LedGroup
  <2>2. OwnerOf[out.leader] \in Recipients(out)
    BY <2>1 DEF Recipients
  <2>3. Recipients(out) \subseteq OfService(ReqSvc[out.request])
    BY <2>1, BrokerAssumption DEF Recipients, OfService, ObjSvc, Sent
  <2>4. h \in Handover
    BY <2>2, <2>3 DEF Handover, OfService
  <2>5. handed' = [handed EXCEPT ![out.request] = h] /\ out.request \in Request
    BY <1>2 DEF HandedAfter, OutputType
  <2> QED BY <2>2, <2>3, <2>4, <2>5 DEF OneLeader
<1> QED BY <1>1, <1>2

LEMMA TurnKeepsInv ==
    ASSUME IndInv, NEW outcomes, \A d \in outcomes : BrokerOK(d),
           NEW p \in [Worker -> ProcState],
           \A w \in Worker : p[w] = "busy" => job[w] \in Request,
           Turn(outcomes, p), submitted' \subseteq Request
    PROVE  IndInv'
<1>1. PICK b \in outcomes :
         /\ broker' = EndTurn(b)
         /\ proc'   = AfterDelivery(p, EndTurn(b).out)
         /\ job'    = JobAfter(p, job, EndTurn(b).out)
         /\ handed' = HandedAfter(handed, EndTurn(b).out)
  BY DEF Turn
<1>2. BrokerOK(broker')
  BY <1>1, EndTurnOK
<1> DEFINE out == broker'.out
<1>3. /\ out \in OutputType
      /\ LedGroup(out)
  BY <1>2 DEF BrokerOK, BrokerType
<1>4. /\ proc' = AfterDelivery(p, out)
      /\ job' = JobAfter(p, job, out)
      /\ handed' = HandedAfter(handed, out)
  BY <1>1
<1> HIDE DEF out
<1>5. proc' \in [Worker -> ProcState]
  BY <1>4 DEF AfterDelivery, ProcState
<1>6. out.request \in Request \cup {NoReq}
  BY <1>3 DEF OutputType
<1>7. job' \in [Worker -> Request \cup {NoReq}]
  BY <1>4, <1>6 DEF JobAfter, IndInv, TypeOK
<1>8. \A w \in Worker : proc'[w] = "busy" => job'[w] \in Request
  <2> SUFFICES ASSUME NEW w \in Worker, proc'[w] = "busy"
               PROVE  job'[w] \in Request
    OBVIOUS
  <2>1. CASE w \in Takers(p, out)
    <3>1. out.request # NoReq
      BY <2>1, <1>3 DEF Takers, Recipients, LedGroup
    <3> QED BY <2>1, <3>1, <1>4, <1>6 DEF JobAfter
  <2>2. CASE w \notin Takers(p, out)
    <3>1. p[w] = "busy"
      BY <2>2, <1>4 DEF AfterDelivery
    <3> QED BY <2>2, <3>1, <1>4 DEF JobAfter
  <2> QED BY <2>1, <2>2
<1>9. handed' \in [Request -> Handover] /\ OneLeader'
  BY <1>3, <1>4, HandedAfterOK DEF IndInv, TypeOK
<1> QED BY <1>2, <1>5, <1>7, <1>8, <1>9
    DEF IndInv, TypeOK, BrokerOK, BusyHasJob, OneLeader

LEMMA InitInv == Init => IndInv
<1> SUFFICES ASSUME Init PROVE IndInv
  OBVIOUS
<1>1. BrokerOK(broker)
  BY NewBrokerOK DEF Init
<1>2. TypeOK
  BY <1>1 DEF Init, TypeOK, BrokerOK, ProcState, Handover, NotHanded
<1>3. BusyHasJob /\ OneLeader
  BY DEF Init, BusyHasJob, OneLeader, NotHanded
<1> QED BY <1>1, <1>2, <1>3 DEF IndInv

LEMMA LoopInv == IndInv /\ Loop => IndInv'
<1> SUFFICES ASSUME IndInv, Loop PROVE IndInv'
  OBVIOUS
<1>1. /\ BrokerOK(broker) /\ proc \in [Worker -> ProcState]
      /\ \A w \in Worker : proc[w] = "busy" => job[w] \in Request
      /\ submitted \subseteq Request
  BY DEF IndInv, TypeOK, BusyHasJob
<1>2. ASSUME NEW w \in Worker, RecvReady(w) PROVE IndInv'
  BY <1>1, <1>2, HandleReadyOK, TurnKeepsInv DEF RecvReady
<1>3. ASSUME NEW w \in Worker, RecvReply(w) PROVE IndInv'
  <2> DEFINE p == [proc EXCEPT ![w] = "done"]
  <2>1. job[w] \in Request
    BY <1>1, <1>3 DEF RecvReply
  <2>2. /\ p \in [Worker -> ProcState]
        /\ \A v \in Worker : p[v] = "busy" => job[v] \in Request
    BY <1>1 DEF ProcState
  <2> HIDE DEF p
  <2>3. Turn(HandleReply(w, job[w]), p) /\ submitted' = submitted
    BY <1>3 DEF RecvReply, p
  <2> QED BY <1>1, <2>1, <2>2, <2>3, HandleReplyOK, TurnKeepsInv
<1>4. ASSUME NEW w \in Worker, RecvHeartbeat(w) PROVE IndInv'
  BY <1>1, <1>4, HandleHeartbeatOK, TurnKeepsInv DEF RecvHeartbeat
<1>5. ASSUME NEW w \in Worker, RecvDisconnect(w) PROVE IndInv'
  BY <1>1, <1>5, HandleDisconnectOK, TurnKeepsInv DEF RecvDisconnect
<1>6. ASSUME NEW r \in Request, RecvRequest(r) PROVE IndInv'
  BY <1>1, <1>6, HandleClientOK, TurnKeepsInv DEF RecvRequest
<1>7. ASSUME NEW s \in Service, RecvInternal(s) PROVE IndInv'
  BY <1>1, <1>7, HandleInternalOK, TurnKeepsInv DEF RecvInternal
<1>8. CASE Idle
  BY <1>1, <1>8, BeginOK, TurnKeepsInv DEF Idle
<1> QED BY <1>2, <1>3, <1>4, <1>5, <1>6, <1>7, <1>8 DEF Loop

LEMMA TickInv == IndInv /\ Tick => IndInv'
<1> SUFFICES ASSUME IndInv, Tick PROVE IndInv'
  OBVIOUS
<1>1. BrokerOK(broker) /\ UNCHANGED <<proc, job, submitted, handed>>
  BY DEF IndInv, Tick
<1>2. broker' \in BrokerType
  <2> DEFINE left == [o \in Obj |-> Pred(broker.left[o])]
  <2>1. left \in [Obj -> 0..Lifetime]
    BY <1>1, BrokerAssumption DEF BrokerOK, BrokerType, Pred
  <2>2. NoOutput \in OutputType
    BY DEF NoOutput, OutputType
  <2> HIDE DEF left
  <2>3. [broker EXCEPT !.left = left, !.heartbeatDue = TRUE, !.out = NoOutput] \in BrokerType
    BY <1>1, <2>1, <2>2 DEF BrokerOK, BrokerType
  <2> QED BY <2>3 DEF Tick, left
<1>3. /\ broker'.workers = broker.workers /\ broker'.status = broker.status
      /\ broker'.waiting = broker.waiting /\ broker'.svcWaiting = broker.svcWaiting
      /\ broker'.requests = broker.requests /\ broker'.out = NoOutput
  BY <1>1 DEF BrokerOK, BrokerType, Tick
<1>4. LedGroup(NoOutput)
  BY NoOutputOK
<1>5. BrokerOK(broker')
  BY <1>1, <1>2, <1>3, <1>4
  DEF BrokerOK, RegisteredUnderOwner, Covers, QueuedByService
<1> QED BY <1>1, <1>5 DEF IndInv, TypeOK, BrokerOK, BusyHasJob, OneLeader

LEMMA ProcessInv ==
    ASSUME IndInv, NEW w \in Worker, Finish(w) \/ Die(w) \/ Restart(w)
    PROVE  IndInv'
<1>1. /\ broker' = broker /\ submitted' = submitted /\ handed' = handed
      /\ proc' \in [Worker -> ProcState]
      /\ job' \in [Worker -> Request \cup {NoReq}]
      /\ \A v \in Worker : proc'[v] = "busy" => job'[v] \in Request
  BY DEF IndInv, TypeOK, BusyHasJob, Finish, Die, Restart, ProcState
<1> QED BY <1>1 DEF IndInv, TypeOK, BusyHasJob, OneLeader

\* IndInv is an inductive invariant of the broker and its workers.
THEOREM Invariance == Spec => []IndInv
<1>1. ASSUME IndInv, [Next]_vars PROVE IndInv'
  <2>1. CASE UNCHANGED vars
    BY <1>1, <2>1 DEF vars, IndInv, TypeOK, BusyHasJob, OneLeader
  <2>2. CASE Next
    BY <1>1, <2>2, LoopInv, TickInv, ProcessInv DEF Next
  <2> QED BY <1>1, <2>1, <2>2
<1> QED BY InitInv, <1>1, PTL DEF Spec

\* Every variable keeps its type: the queues hold what they are meant to.
THEOREM TypeCorrect == Spec => []TypeOK
<1>1. IndInv => TypeOK
  BY DEF IndInv
<1> QED BY Invariance, <1>1, PTL

\* The removals of purge_workers, delete_worker and dispatch never get out of
\* step: self.waiting.remove(worker) in dispatch finds its worker.
THEOREM WaitingAlwaysCovers == Spec => []WaitingCovers
<1>1. IndInv => WaitingCovers
  BY DEF IndInv, BrokerOK, Covers, WaitingCovers
<1> QED BY Invariance, <1>1, PTL

\* Each dispatch has one leader, among the workers it goes to, and those are
\* of the service it asks for.
THEOREM AlwaysOneLeader == Spec => []OneLeader
<1>1. IndInv => OneLeader
  BY DEF IndInv
<1> QED BY Invariance, <1>1, PTL
-----------------------------------------------------------------------------
(***************************************************************************)
(* What the turns do to the queues: it follows from the order of the calls *)
(* in a turn.                                                              *)
(***************************************************************************)

\* No request of service s is left beside a worker that waits for one.
Quiet(b, s) == Running(b) => b.requests[s] = <<>> \/ Entries(b, s) = {}
AllQuiet(b) == \A s \in Service : Quiet(b, s)

\* The turn has heartbeated nobody yet, and sent only to unexpired workers.
Prompt(b) ==
    /\ b.out.heartbeat = {}
    /\ \A o \in Sent(b.out) : b.left[o] > 0

InOrder(b) == BrokerOK(b) /\ AllQuiet(b) /\ Prompt(b)

LEMMA PurgeChanges ==
    ASSUME NEW b, BrokerOK(b)
    PROVE  LET p == PurgeWorkers(b)
           IN  /\ p.requests = b.requests /\ p.out = b.out /\ p.left = b.left
               /\ Running(p) => Running(b)
               /\ \A o \in Obj : p.svcWaiting[o] \in Nat /\ p.svcWaiting[o] <= b.svcWaiting[o]
<1>1. CASE ~Running(b) \/ PurgeFails(b)
  BY <1>1 DEF PurgeWorkers, Raise, BrokerOK, BrokerType, Running
<1>2. CASE Running(b) /\ ~PurgeFails(b)
  <2> DEFINE p == PurgeExpired(b)
  <2>1. p.requests = b.requests /\ p.out = b.out /\ p.left = b.left
    BY DEF PurgeExpired, BrokerOK, BrokerType
  <2>2. \A o \in Obj : p.svcWaiting[o] \in Nat /\ p.svcWaiting[o] <= b.svcWaiting[o]
    BY PredNat DEF PurgeExpired, BrokerOK, BrokerType
  <2> QED BY <1>2, <2>1, <2>2 DEF PurgeWorkers
<1> QED BY <1>1, <1>2

LEMMA PurgeLeavesUnexpired ==
    ASSUME NEW b, BrokerOK(b), Running(PurgeWorkers(b)), NEW o \in Obj,
           PurgeWorkers(b).waiting[o] > 0
    PROVE  PurgeWorkers(b).left[o] > 0
<1>1. PurgeWorkers(b) = PurgeExpired(b)
  BY DEF PurgeWorkers, Raise, Running, BrokerOK, BrokerType
<1>2. o \notin Expired(b) /\ PurgeExpired(b).left = b.left /\ b.waiting[o] > 0
  BY <1>1 DEF PurgeExpired, BrokerOK, BrokerType
<1>3. b.left[o] \in Nat
  BY DEF BrokerOK, BrokerType
<1> QED BY <1>1, <1>2, <1>3 DEF Expired

LEMMA PurgeQuiet ==
    ASSUME NEW b, BrokerOK(b), NEW s \in Service, Quiet(b, s)
    PROVE  Quiet(PurgeWorkers(b), s)
<1> DEFINE p == PurgeWorkers(b)
<1>1. /\ p.requests = b.requests
      /\ Running(p) => Running(b)
      /\ \A o \in Obj : p.svcWaiting[o] \in Nat /\ p.svcWaiting[o] <= b.svcWaiting[o]
  BY PurgeChanges
<1>2. \A o \in Obj : b.svcWaiting[o] \in Nat
  BY DEF BrokerOK, BrokerType
<1> HIDE DEF p
<1>3. Entries(p, s) \subseteq Entries(b, s)
  BY <1>1, <1>2 DEF Entries
<1> QED BY <1>1, <1>3 DEF Quiet, p

LEMMA AssignChanges ==
    ASSUME NEW b, BrokerOK(b), NEW s \in Service, DispatchReady(b, s),
           NEW leader \in Entries(b, s)
    PROVE  LET d == Assign(b, s, leader)
           IN  /\ d.status = b.status /\ d.left = b.left
               /\ d.out.heartbeat = b.out.heartbeat
               /\ d.out.copies = Copies(b, s)
               /\ d.requests = [b.requests EXCEPT ![s] = Tail(@)]
               /\ \A o \in Obj : d.svcWaiting[o] = IF o \in Entries(b, s) THEN 0
                                                   ELSE b.svcWaiting[o]
<1> DEFINE st == StripOfBytes(b, s)
           d  == Assign(b, s, leader)
<1>1. /\ st.svcWaiting = b.svcWaiting /\ st.status = b.status /\ st.left = b.left
      /\ st.requests = b.requests /\ st.out = b.out /\ st \in BrokerType
  BY DEF BrokerOK, BrokerType, StripOfBytes
<1>2. Entries(st, s) = Entries(b, s)
  BY <1>1 DEF Entries
<1> DEFINE t == TakeWorkers(st, s)
<1>3. /\ t.status = b.status /\ t.left = b.left /\ t.requests = b.requests
      /\ t.out = b.out
      /\ \A o \in Obj : t.svcWaiting[o] = IF o \in Entries(b, s) THEN 0
                                          ELSE b.svcWaiting[o]
  BY <1>1, <1>2 DEF TakeWorkers, BrokerType
<1>4. /\ d.status = t.status /\ d.left = t.left /\ d.svcWaiting = t.svcWaiting
      /\ d.requests = [t.requests EXCEPT ![s] = Tail(@)]
      /\ d.out.heartbeat = t.out.heartbeat /\ d.out.copies = Copies(b, s)
  BY <1>1, <1>3, ZenonT(60) DEF Assign, TakeWorkers, BrokerType, OutputType
<1> QED BY <1>3, <1>4

LEMMA DispatchInOrder ==
    ASSUME NEW b, BrokerOK(b), NEW s \in Service,
           \A t \in Service \ {s} : Quiet(b, t), Prompt(b), NEW d \in Dispatch(b, s)
    PROVE  InOrder(d)
<1> DEFINE p == PurgeWorkers(b)
<1>1. BrokerOK(p) /\ BrokerOK(d)
  BY PurgeWorkersOK, DispatchOK
<1>2. p.out = b.out /\ p.left = b.left
  BY PurgeChanges
<1>3. Prompt(p) /\ \A t \in Service \ {s} : Quiet(p, t)
  BY <1>2, PurgeQuiet DEF Prompt
<1>4. Running(p) => \A o \in Obj : p.waiting[o] > 0 => p.left[o] > 0
  BY PurgeLeavesUnexpired
<1> HIDE DEF p
<1>5. CASE ~DispatchReady(p, s)
  BY <1>1, <1>3, <1>5, DispatchPurges DEF DispatchTo, p, DispatchReady, InOrder, AllQuiet, Quiet
<1>6. CASE DispatchReady(p, s)
  <2>1. ~ \E o \in Entries(p, s) : p.svcWaiting[o] > p.waiting[o]
    BY <1>1 DEF BrokerOK, BrokerType, Covers, Entries
  <2>2. \/ d \in {Raise(p, e) : e \in StripFailures(p, s)}
        \/ d \in {Assign(p, s, leader) : leader \in Entries(p, s)}
    BY <1>6, <2>1, DispatchPurges DEF DispatchTo, p
  <2>3. StripFailures(p, s) \subseteq {"RuntimeError", "TypeError"}
    BY DEF StripFailures
  <2>4. ASSUME NEW e \in StripFailures(p, s), d = Raise(p, e) PROVE InOrder(d)
    <3>1. ~Running(d) /\ d.out = p.out /\ d.left = p.left
      BY <1>1, <2>3, <2>4 DEF Raise, Running, BrokerOK, BrokerType
    <3> QED BY <1>1, <1>3, <3>1 DEF InOrder, AllQuiet, Quiet, Prompt
  <2>5. ASSUME NEW leader \in Entries(p, s), d = Assign(p, s, leader) PROVE InOrder(d)
    <3>1. /\ d.status = p.status /\ d.left = p.left
          /\ d.out.heartbeat = p.out.heartbeat
          /\ d.out.copies = Copies(p, s)
          /\ d.requests = [p.requests EXCEPT ![s] = Tail(@)]
          /\ \A o \in Obj : d.svcWaiting[o] = IF o \in Entries(p, s) THEN 0
                                              ELSE p.svcWaiting[o]
      BY <1>1, <1>6, <2>5, AssignChanges
    <3>2. Entries(d, s) = {}
      BY <3>1 DEF Entries
    <3>3. ASSUME NEW t \in Service \ {s} PROVE Quiet(d, t)
      <4>1. d.requests[t] = p.requests[t]
        BY <1>1, <3>1 DEF BrokerOK, BrokerType
      <4>2. Entries(d, t) = Entries(p, t)
        BY <3>1 DEF Entries
      <4> QED BY <1>3, <3>1, <4>1, <4>2 DEF Quiet, Running
    <3>4. Prompt(d)
      <4>1. \A o \in Sent(d.out) : o \in Entries(p, s)
        BY <3>1 DEF Sent, Copies
      <4>2. \A o \in Entries(p, s) : p.waiting[o] > 0
        BY <1>1, SMTT(30) DEF Entries, BrokerOK, BrokerType, Covers
      <4>3. Running(p)
        BY <1>6 DEF DispatchReady
      <4> QED BY <1>3, <1>4, <3>1, <4>1, <4>2, <4>3 DEF Prompt, Entries
    <3> QED BY <1>1, <3>2, <3>3, <3>4 DEF InOrder, AllQuiet, Quiet
  <2> QED BY <2>2, <2>4, <2>5
<1> QED BY <1>5, <1>6

LEMMA WorkerWaitingInOrder ==
    ASSUME NEW b, InOrder(b), NEW o \in Obj, Sent(b.out) = {}, NEW d \in WorkerWaiting(b, o)
    PROVE  InOrder(d)
<1> DEFINE s == ObjSvc(o)
           n == [b EXCEPT !.waiting[o] = @ + 1, !.svcWaiting[o] = @ + 1,
                          !.left[o] = Lifetime]
<1>1. BrokerOK(n) /\ s \in Service
  BY QueuedOK, BrokerAssumption DEF InOrder, ObjSvc
<1>2. /\ n.status = b.status /\ n.out = b.out /\ n.requests = b.requests
      /\ \A x \in Obj : x # o => n.svcWaiting[x] = b.svcWaiting[x]
  BY DEF InOrder, BrokerOK, BrokerType
<1>3. d \in Dispatch(n, s)
  BY DEF WorkerWaiting
<1> HIDE DEF n
<1>4. ASSUME NEW t \in Service \ {s} PROVE Quiet(n, t)
  <2>1. Entries(n, t) = Entries(b, t)
    BY <1>2 DEF Entries
  <2> QED BY <1>2, <2>1 DEF InOrder, AllQuiet, Quiet, Running
<1>5. Prompt(n)
  BY <1>2 DEF InOrder, Prompt
<1> HIDE DEF s
<1> QED BY <1>1, <1>3, <1>4, <1>5, DispatchInOrder

LEMMA EndTurnInOrder ==
    ASSUME NEW b, InOrder(b)
    PROVE  LET end == EndTurn(b)
           IN  /\ AllQuiet(end)
               /\ Running(end) =>
                     /\ \A o \in Sent(end.out) : end.left[o] > 0
                     /\ \A w \in end.out.heartbeat :
                           \E o \in Obj : /\ OwnerOf[o] = w
                                          /\ end.waiting[o] > 0 /\ end.left[o] > 0
<1> DEFINE p   == PurgeWorkers(b)
           end == EndTurn(b)
<1>1. BrokerOK(p) /\ p.out = b.out /\ p.left = b.left
  BY PurgeWorkersOK, PurgeChanges DEF InOrder
<1>2. AllQuiet(p)
  BY PurgeQuiet DEF InOrder, AllQuiet
<1>3. Running(p) => \A o \in Obj : p.waiting[o] > 0 => p.left[o] > 0
  BY PurgeLeavesUnexpired DEF InOrder
<1>4. end = SendHeartbeats(p)
  BY DEF EndTurn
<1> HIDE DEF p, end
<1>5. /\ end.status = p.status /\ end.requests = p.requests
      /\ end.waiting = p.waiting /\ end.svcWaiting = p.svcWaiting /\ end.left = p.left
      /\ end.out.copies = p.out.copies
      /\ \/ end.out.heartbeat = p.out.heartbeat
         \/ end.out.heartbeat = {OwnerOf[o] : o \in {x \in Obj : p.waiting[x] > 0}}
  BY <1>1, <1>4 DEF SendHeartbeats, BrokerOK, BrokerType, OutputType
<1>6. AllQuiet(end)
  BY <1>2, <1>5 DEF AllQuiet, Quiet, Entries, Running
<1>7. \A o \in Sent(end.out) : end.left[o] > 0
  BY <1>1, <1>5 DEF InOrder, Prompt, Sent
<1>8. ASSUME Running(end), NEW w \in end.out.heartbeat
      PROVE  \E o \in Obj : OwnerOf[o] = w /\ end.waiting[o] > 0 /\ end.left[o] > 0
  <2>1. PICK o \in Obj : OwnerOf[o] = w /\ p.waiting[o] > 0
    BY <1>1, <1>5, <1>8 DEF InOrder, Prompt
  <2>2. p.left[o] > 0
    BY <1>3, <1>5, <1>8, <2>1 DEF Running
  <2> QED BY <1>5, <2>1, <2>2
<1> QED BY <1>6, <1>7, <1>8 DEF end
-----------------------------------------------------------------------------
(***************************************************************************)
(* Every handler that starts in a broker at rest leaves it in order.       *)
(***************************************************************************)
LEMMA BeginInOrder ==
    ASSUME BrokerOK(broker), AllQuiet(broker)
    PROVE  InOrder(Begin) /\ Sent(Begin.out) = {} /\ Begin.workers = broker.workers
<1>1. BrokerOK(Begin)
  BY BeginOK
<1>2. /\ Begin.status = broker.status /\ Begin.requests = broker.requests
      /\ Begin.svcWaiting = broker.svcWaiting /\ Begin.out = NoOutput
      /\ Begin.workers = broker.workers
  BY DEF Begin, BrokerOK, BrokerType
<1>3. Sent(NoOutput) = {} /\ NoOutput.heartbeat = {}
  BY DEF Sent, NoOutput
<1> QED BY <1>1, <1>2, <1>3 DEF InOrder, AllQuiet, Quiet, Entries, Running, Prompt

\* A change that leaves status, requests, service queues and what was sent
\* alone keeps the broker in order.
LEMMA SameQueuesInOrder ==
    ASSUME NEW b, NEW d, InOrder(b), BrokerOK(d), Sent(b.out) = {},
           d.status = b.status, d.requests = b.requests,
           \A o \in Obj : d.svcWaiting[o] <= b.svcWaiting[o],
           d.out.heartbeat = b.out.heartbeat, d.out.copies = b.out.copies
    PROVE  InOrder(d) /\ Sent(d.out) = {}
<1>1. \A s \in Service : Entries(d, s) \subseteq Entries(b, s)
  BY DEF Entries, InOrder, BrokerOK, BrokerType
<1>2. Sent(d.out) = {}
  BY DEF Sent
<1> QED BY <1>1, <1>2 DEF InOrder, AllQuiet, Quiet, Running, Prompt

LEMMA DisconnectInOrder ==
    ASSUME NEW b, InOrder(b), Sent(b.out) = {}, NEW w \in Worker
    PROVE  InOrder(Disconnect(b, w))
<1> DEFINE d == Disconnect(b, w)
<1>1. BrokerOK(d)
  BY DisconnectOK DEF InOrder
<1>2. /\ d.status = b.status /\ d.requests = b.requests /\ d.svcWaiting = b.svcWaiting
      /\ d.out.heartbeat = b.out.heartbeat /\ d.out.copies = b.out.copies
  BY DEF Disconnect, InOrder, BrokerOK, BrokerType, OutputType
<1> HIDE DEF d
<1>3. \A o \in Obj : d.svcWaiting[o] <= b.svcWaiting[o]
  BY <1>2 DEF InOrder, BrokerOK, BrokerType
<1>4. InOrder(d)
  BY <1>1, <1>2, <1>3, SameQueuesInOrder
<1> QED BY <1>4 DEF d

LEMMA DeleteWorkerInOrder ==
    ASSUME NEW b, InOrder(b), Sent(b.out) = {}, NEW w \in Worker, b.workers[w] # NoObj
    PROVE  InOrder(DeleteWorker(b, w)) /\ Sent(DeleteWorker(b, w).out) = {}
<1> DEFINE d == DeleteWorker(b, w)
<1>1. BrokerOK(d)
  BY DeleteWorkerOK DEF InOrder
<1>2. d.status = b.status /\ d.requests = b.requests /\ d.out = b.out
  BY DEF DeleteWorker, InOrder, BrokerOK, BrokerType
<1>3. \A o \in Obj : d.svcWaiting[o] <= b.svcWaiting[o]
  BY PredNat DEF DeleteWorker, InOrder, BrokerOK, BrokerType
<1> HIDE DEF d
<1>4. InOrder(d) /\ Sent(d.out) = {}
  BY <1>1, <1>2, <1>3, SameQueuesInOrder
<1> QED BY <1>4 DEF d

LEMMA HandleReadyInOrder ==
    ASSUME BrokerOK(broker), AllQuiet(broker), NEW w \in Worker,
           Registered(w) \/ Unused(w) # {}, NEW d \in HandleReady(w)
    PROVE  InOrder(d)
<1>1. InOrder(Begin) /\ Sent(Begin.out) = {} /\ Begin.workers = broker.workers
  BY BeginInOrder
<1>2. CASE Registered(w)
  <2>1. InOrder(DeleteWorker(Begin, w)) /\ Sent(DeleteWorker(Begin, w).out) = {}
    BY <1>1, <1>2, DeleteWorkerInOrder DEF Registered
  <2> QED BY <1>2, <2>1, DisconnectInOrder DEF HandleReady
<1>3. CASE ~Registered(w)
  <2> DEFINE o == CHOOSE x \in Unused(w) : TRUE
             n == [Begin EXCEPT !.workers[w] = o, !.services = @ \cup {SvcOf[w]}]
  <2>1. o \in Obj /\ OwnerOf[o] = w
    BY <1>3 DEF Unused
  <2> HIDE DEF o
  <2>2. n \in BrokerType
    BY <1>1, <2>1, BrokerAssumption, ZenonT(60) DEF InOrder, BrokerOK, BrokerType
  <2>3. /\ n.workers = [Begin.workers EXCEPT ![w] = o] /\ n.status = Begin.status
        /\ n.waiting = Begin.waiting /\ n.svcWaiting = Begin.svcWaiting
        /\ n.requests = Begin.requests /\ n.out = Begin.out
    BY <1>1 DEF InOrder, BrokerOK, BrokerType
  <2>4. d \in WorkerWaiting(n, o)
    BY <1>3 DEF HandleReady, o
  <2>5. \A x \in Obj : n.svcWaiting[x] <= Begin.svcWaiting[x]
    BY <1>1, <2>3 DEF InOrder, BrokerOK, BrokerType
  <2> HIDE DEF n
  <2>6. BrokerOK(n)
    <3>1. BrokerOK(Begin) /\ Begin.workers \in [Worker -> Obj \cup {NoObj}]
      BY <1>1 DEF InOrder, BrokerOK, BrokerType
    <3>2. RegisteredUnderOwner(n)
      BY <2>1, <2>3, <3>1 DEF BrokerOK, RegisteredUnderOwner
    <3>3. Covers(n) /\ QueuedByService(n) /\ LedGroup(n.out)
      BY <2>3, <3>1 DEF BrokerOK, Covers, QueuedByService
    <3> QED BY <2>2, <3>2, <3>3 DEF BrokerOK
  <2>7. InOrder(n) /\ Sent(n.out) = {}
    BY <1>1, <2>3, <2>6, <2>5, SameQueuesInOrder
  <2> QED BY <2>1, <2>4, <2>7, WorkerWaitingInOrder
<1> QED BY <1>2, <1>3

LEMMA HandleReplyInOrder ==
    ASSUME BrokerOK(broker), AllQuiet(broker), NEW w \in Worker, NEW r \in Request,
           NEW d \in HandleReply(w, r)
    PROVE  InOrder(d)
<1>1. InOrder(Begin) /\ Sent(Begin.out) = {} /\ Begin.workers = broker.workers
  BY BeginInOrder
<1>2. CASE Registered(w)
  <2> DEFINE n == [Begin EXCEPT !.out.reply = r]
  <2>1. n \in BrokerType
    BY <1>1 DEF InOrder, BrokerOK, BrokerType, OutputType
  <2>2. /\ n.workers = Begin.workers /\ n.status = Begin.status
        /\ n.waiting = Begin.waiting /\ n.svcWaiting = Begin.svcWaiting
        /\ n.requests = Begin.requests
        /\ n.out.request = Begin.out.request /\ n.out.leader = Begin.out.leader
        /\ n.out.copies = Begin.out.copies /\ n.out.heartbeat = Begin.out.heartbeat
    BY <1>1 DEF InOrder, BrokerOK, BrokerType, OutputType
  <2>3. BrokerOK(n)
    BY <1>1, <2>1, <2>2
    DEF InOrder, BrokerOK, RegisteredUnderOwner, Covers, QueuedByService, LedGroup, Sent
  <2>4. broker.workers[w] \in Obj
    BY <1>2 DEF Registered, BrokerOK, BrokerType
  <2>5. d \in WorkerWaiting(n, broker.workers[w])
    BY <1>2 DEF HandleReply
  <2>6. \A x \in Obj : n.svcWaiting[x] <= Begin.svcWaiting[x]
    BY <1>1, <2>2 DEF InOrder, BrokerOK, BrokerType
  <2> HIDE DEF n
  <2>7. InOrder(n) /\ Sent(n.out) = {}
    BY <1>1, <2>2, <2>3, <2>6, SameQueuesInOrder
  <2> QED BY <2>4, <2>5, <2>7, WorkerWaitingInOrder
<1>3. CASE ~Registered(w)
  BY <1>1, <1>3, DisconnectInOrder DEF HandleReply
<1> QED BY <1>2, <1>3

LEMMA HandleHeartbeatInOrder ==
    ASSUME BrokerOK(broker), AllQuiet(broker), NEW w \in Worker, NEW d \in HandleHeartbeat(w)
    PROVE  InOrder(d)
<1>1. InOrder(Begin) /\ Sent(Begin.out) = {} /\ Begin.workers = broker.workers
  BY BeginInOrder
<1>2. CASE Registered(w)
  <2>1. BrokerOK(d)
    BY HandleHeartbeatOK
  <2>2. /\ d.status = Begin.status /\ d.svcWaiting = Begin.svcWaiting
        /\ d.requests = Begin.requests /\ d.out = Begin.out
    BY <1>1, <1>2 DEF HandleHeartbeat, InOrder, BrokerOK, BrokerType
  <2>3. \A x \in Obj : d.svcWaiting[x] <= Begin.svcWaiting[x]
    BY <1>1, <2>2 DEF InOrder, BrokerOK, BrokerType
  <2> QED BY <1>1, <2>1, <2>2, <2>3, SameQueuesInOrder
<1>3. CASE ~Registered(w)
  BY <1>1, <1>3, DisconnectInOrder DEF HandleHeartbeat
<1> QED BY <1>2, <1>3

LEMMA HandleDisconnectInOrder ==
    ASSUME BrokerOK(broker), AllQuiet(broker), NEW w \in Worker, NEW d \in HandleDisconnect(w)
    PROVE  InOrder(d)
<1>1. InOrder(Begin) /\ Sent(Begin.out) = {} /\ Begin.workers = broker.workers
  BY BeginInOrder
<1> QED BY <1>1, DeleteWorkerInOrder DEF HandleDisconnect, Registered

LEMMA HandleClientInOrder ==
    ASSUME BrokerOK(broker), AllQuiet(broker), NEW r \in Request, NEW d \in HandleClient(r)
    PROVE  InOrder(d)
<1> DEFINE s == ReqSvc[r]
           n == [Begin EXCEPT !.services = @ \cup {s}, !.requests[s] = Append(@, r)]
<1>1. InOrder(Begin)
  BY BeginInOrder
<1>2. s \in Service
  BY BrokerAssumption
<1>3. BrokerOK(n)
  BY HandleClientStart
<1>4. /\ n.status = Begin.status /\ n.svcWaiting = Begin.svcWaiting /\ n.left = Begin.left
      /\ \A t \in Service \ {s} : n.requests[t] = Begin.requests[t]
      /\ n.out = Begin.out
  BY <1>1 DEF InOrder, BrokerOK, BrokerType
<1>5. d \in Dispatch(n, s)
  BY DEF HandleClient
<1> HIDE DEF n
<1>6. \A t \in Service \ {s} : Quiet(n, t)
  BY <1>1, <1>4 DEF InOrder, AllQuiet, Quiet, Entries, Running
<1>7. Prompt(n)
  BY <1>1, <1>4 DEF InOrder, Prompt
<1> HIDE DEF s
<1> QED BY <1>2, <1>3, <1>5, <1>6, <1>7, DispatchInOrder

LEMMA HandleInternalInOrder ==
    ASSUME BrokerOK(broker), AllQuiet(broker), NEW s \in Service, NEW d \in HandleInternal(s)
    PROVE  InOrder(d)
<1>1. InOrder(Begin) /\ Sent(Begin.out) = {}
  BY BeginInOrder
<1>2. BrokerOK(d)
  BY HandleInternalOK
<1>3. PICK code : d = [Begin EXCEPT !.out.mmi = code]
  BY DEF HandleInternal
<1>4. /\ d.status = Begin.status /\ d.requests = Begin.requests
      /\ d.svcWaiting = Begin.svcWaiting
      /\ d.out.copies = Begin.out.copies /\ d.out.heartbeat = Begin.out.heartbeat
  BY <1>1, <1>3 DEF InOrder, BrokerOK, BrokerType, OutputType
<1>5. \A x \in Obj : d.svcWaiting[x] <= Begin.svcWaiting[x]
  BY <1>1, <1>4 DEF InOrder, BrokerOK, BrokerType
<1> QED BY <1>1, <1>2, <1>4, <1>5, SameQueuesInOrder
-----------------------------------------------------------------------------
QueueInv == IndInv /\ NoLostWakeup /\ OnlyUnexpired

LEMMA QuietIsNoLostWakeup == NoLostWakeup <=> AllQuiet(broker)
BY DEF NoLostWakeup, AllQuiet, Quiet

LEMMA TurnKeepsQueues ==
    ASSUME NEW outcomes, \A d \in outcomes : InOrder(d), NEW p, Turn(outcomes, p)
    PROVE  (NoLostWakeup /\ OnlyUnexpired)'
<1>1. PICK b \in outcomes : broker' = EndTurn(b)
  BY DEF Turn
<1>2. /\ AllQuiet(broker')
      /\ Running(broker') =>
            /\ \A o \in Sent(broker'.out) : broker'.left[o] > 0
            /\ \A w \in broker'.out.heartbeat :
                  \E o \in Obj : OwnerOf[o] = w /\ broker'.waiting[o] > 0 /\ broker'.left[o] > 0
  BY <1>1, EndTurnInOrder
<1> QED BY <1>2 DEF NoLostWakeup, OnlyUnexpired, AllQuiet, Quiet

LEMMA LoopKeepsQueues == QueueInv /\ Loop => (NoLostWakeup /\ OnlyUnexpired)'
<1> SUFFICES ASSUME QueueInv, Loop PROVE (NoLostWakeup /\ OnlyUnexpired)'
  OBVIOUS
<1>1. BrokerOK(broker) /\ AllQuiet(broker) /\ BusyHasJob
  BY QuietIsNoLostWakeup DEF QueueInv, IndInv
<1>2. ASSUME NEW w \in Worker, RecvReady(w) PROVE (NoLostWakeup /\ OnlyUnexpired)'
  BY <1>1, <1>2, HandleReadyInOrder, TurnKeepsQueues DEF RecvReady
<1>3. ASSUME NEW w \in Worker, RecvReply(w) PROVE (NoLostWakeup /\ OnlyUnexpired)'
  <2>1. job[w] \in Request
    BY <1>1, <1>3 DEF RecvReply, BusyHasJob
  <2> QED BY <1>1, <1>3, <2>1, HandleReplyInOrder, TurnKeepsQueues DEF RecvReply
<1>4. ASSUME NEW w \in Worker, RecvHeartbeat(w) PROVE (NoLostWakeup /\ OnlyUnexpired)'
  BY <1>1, <1>4, HandleHeartbeatInOrder, TurnKeepsQueues DEF RecvHeartbeat
<1>5. ASSUME NEW w \in Worker, RecvDisconnect(w) PROVE (NoLostWakeup /\ OnlyUnexpired)'
  BY <1>1, <1>5, HandleDisconnectInOrder, TurnKeepsQueues DEF RecvDisconnect
<1>6. ASSUME NEW r \in Request, RecvRequest(r) PROVE (NoLostWakeup /\ OnlyUnexpired)'
  BY <1>1, <1>6, HandleClientInOrder, TurnKeepsQueues DEF RecvRequest
<1>7. ASSUME NEW s \in Service, RecvInternal(s) PROVE (NoLostWakeup /\ OnlyUnexpired)'
  BY <1>1, <1>7, HandleInternalInOrder, TurnKeepsQueues DEF RecvInternal
<1>8. CASE Idle
  BY <1>1, <1>8, BeginInOrder, TurnKeepsQueues DEF Idle
<1> QED BY <1>2, <1>3, <1>4, <1>5, <1>6, <1>7, <1>8 DEF Loop

LEMMA TickKeepsQueues == QueueInv /\ Tick => (NoLostWakeup /\ OnlyUnexpired)'
<1> SUFFICES ASSUME QueueInv, Tick PROVE (NoLostWakeup /\ OnlyUnexpired)'
  OBVIOUS
<1>1. /\ broker'.status = broker.status /\ broker'.requests = broker.requests
      /\ broker'.svcWaiting = broker.svcWaiting /\ broker'.out = NoOutput
  BY DEF Tick, QueueInv, IndInv, BrokerOK, BrokerType
<1>2. Sent(NoOutput) = {} /\ NoOutput.heartbeat = {}
  BY DEF Sent, NoOutput
<1> QED BY <1>1, <1>2 DEF QueueInv, NoLostWakeup, OnlyUnexpired, Running, Entries

THEOREM QueueInvariance == Spec => []QueueInv
<1>1. Init => QueueInv
  <2> SUFFICES ASSUME Init PROVE QueueInv
    OBVIOUS
  <2>1. /\ broker.requests = [s \in Service |-> <<>>] /\ broker.out = NoOutput
    BY DEF Init, NewBroker
  <2>2. Sent(NoOutput) = {} /\ NoOutput.heartbeat = {}
    BY DEF Sent, NoOutput
  <2> QED BY <2>1, <2>2, InitInv DEF QueueInv, NoLostWakeup, OnlyUnexpired
<1>2. ASSUME QueueInv, IndInv', [Next]_vars PROVE QueueInv'
  <2>1. CASE Loop
    BY <1>2, <2>1, LoopKeepsQueues DEF QueueInv
  <2>2. CASE Tick
    BY <1>2, <2>2, TickKeepsQueues DEF QueueInv
  <2>3. CASE broker' = broker
    BY <1>2, <2>3 DEF QueueInv, NoLostWakeup, OnlyUnexpired
  <2> QED BY <1>2, <2>1, <2>2, <2>3 DEF Next, vars, Finish, Die, Restart
<1> QED BY <1>1, <1>2, Invariance, PTL DEF Spec

\* dispatch is called wherever a request or a worker is queued, so none of
\* its turns leaves both in one service.
THEOREM NeverLostWakeup == Spec => []NoLostWakeup
<1>1. QueueInv => NoLostWakeup
  BY DEF QueueInv
<1> QED BY QueueInvariance, <1>1, PTL

\* Purging comes before dispatching and before heartbeating: no message goes
\* out to a worker on account of an expired object.
THEOREM SendsOnlyToUnexpired == Spec => []OnlyUnexpired
<1>1. QueueInv => OnlyUnexpired
  BY DEF QueueInv
<1> QED BY QueueInvariance, <1>1, PTL
-----------------------------------------------------------------------------
(***************************************************************************)
(* The refinement: what the methods do to the requests.                    *)
(***************************************************************************)
\* Nothing; or the oldest request of s is handed out, and no worker is left
\* whose expiry could end the broker before the turn is over.
Keeps(b, d) == d.requests = b.requests /\ d.out.request = NoReq
Hands(b, d, s) ==
    /\ b.requests[s] # <<>>
    /\ d.requests = [b.requests EXCEPT ![s] = Tail(@)]
    /\ d.out.request = Head(b.requests[s])
    /\ Running(d) /\ Expired(d) = {}
Moves(b, d) == Keeps(b, d) \/ \E s \in Service : Hands(b, d, s)

LEMMA PurgeLeavesNoneExpired ==
    ASSUME NEW b, BrokerOK(b), Running(PurgeWorkers(b))
    PROVE  Expired(PurgeWorkers(b)) = {}
<1> SUFFICES ASSUME NEW o \in Expired(PurgeWorkers(b)) PROVE FALSE
  OBVIOUS
<1>1. /\ o \in Obj /\ PurgeWorkers(b).waiting[o] > 0
      /\ PurgeWorkers(b).left[o] = 0
  BY DEF Expired
<1>2. PurgeWorkers(b).left[o] > 0
  BY <1>1, PurgeLeavesUnexpired
<1> QED BY <1>1, <1>2

LEMMA AssignSends ==
    ASSUME NEW b, BrokerOK(b), NEW s \in Service, DispatchReady(b, s),
           NEW leader \in Entries(b, s)
    PROVE  LET d == Assign(b, s, leader)
           IN  /\ d.out.request = Head(b.requests[s])
               /\ d.out.reply = b.out.reply
               /\ \A o \in Obj : d.waiting[o] > 0 => b.waiting[o] > 0
<1> DEFINE st == StripOfBytes(b, s)
           t  == TakeWorkers(st, s)
           d  == Assign(b, s, leader)
<1>1. /\ st.svcWaiting = b.svcWaiting /\ st.waiting = b.waiting
      /\ st.requests = b.requests /\ st.out = b.out /\ st \in BrokerType
  BY DEF BrokerOK, BrokerType, StripOfBytes
<1>2. Entries(st, s) = Entries(b, s)
  BY <1>1 DEF Entries
<1>3. /\ t.out = b.out
      /\ \A o \in Obj : t.waiting[o] = IF o \in Entries(b, s)
                                       THEN b.waiting[o] - b.svcWaiting[o]
                                       ELSE b.waiting[o]
  BY <1>1, <1>2 DEF TakeWorkers, BrokerType
<1>4. /\ d.waiting = t.waiting /\ d.out.request = Head(b.requests[s])
      /\ d.out.reply = t.out.reply
  BY <1>1, <1>3, ZenonT(60) DEF Assign, TakeWorkers, BrokerType, OutputType
<1>5. \A o \in Obj : b.waiting[o] \in Nat /\ b.svcWaiting[o] \in Nat
  BY DEF BrokerOK, BrokerType
<1> HIDE DEF t, d
<1>6. \A o \in Obj : d.waiting[o] > 0 => b.waiting[o] > 0
  BY <1>3, <1>4, <1>5
<1> QED BY <1>3, <1>4, <1>6 DEF d

\* dispatch() leaves the requests alone or hands out the oldest of its service.
LEMMA DispatchMoves ==
    ASSUME NEW b, BrokerOK(b), NEW s \in Service, b.out.request = NoReq,
           NEW d \in Dispatch(b, s)
    PROVE  /\ Keeps(b, d) \/ Hands(b, d, s)
           /\ Entries(b, s) = {} => Keeps(b, d)
           /\ d.out.reply = b.out.reply
<1> DEFINE p == PurgeWorkers(b)
<1>1. BrokerOK(p) /\ p.requests = b.requests /\ p.out = b.out
  BY PurgeWorkersOK, PurgeChanges
<1>2. \A o \in Obj : /\ p.svcWaiting[o] \in Nat /\ b.svcWaiting[o] \in Nat
                      /\ p.svcWaiting[o] <= b.svcWaiting[o]
  BY PurgeChanges DEF BrokerOK, BrokerType
<1>3. Running(p) => Expired(p) = {}
  BY PurgeLeavesNoneExpired
<1> HIDE DEF p
<1>6. Entries(p, s) \subseteq Entries(b, s)
  BY <1>2 DEF Entries
<1>4. CASE ~DispatchReady(p, s)
  <2>1. d = p
    BY <1>4, DispatchPurges DEF DispatchTo, p
  <2> QED BY <1>1, <2>1 DEF Keeps
<1>5. CASE DispatchReady(p, s)
  <2>1. ~ \E o \in Entries(p, s) : p.svcWaiting[o] > p.waiting[o]
    BY <1>1 DEF BrokerOK, BrokerType, Covers, Entries
  <2>2. \/ d \in {Raise(p, e) : e \in StripFailures(p, s)}
        \/ d \in {Assign(p, s, leader) : leader \in Entries(p, s)}
    BY <1>5, <2>1, DispatchPurges DEF DispatchTo, p
  <2>3. ASSUME NEW e \in StripFailures(p, s), d = Raise(p, e)
        PROVE  Keeps(b, d) /\ d.out.reply = b.out.reply
    BY <1>1, <2>3 DEF Raise, Keeps, BrokerOK, BrokerType
  <2>4. ASSUME NEW leader \in Entries(p, s), d = Assign(p, s, leader)
        PROVE  Hands(b, d, s) /\ d.out.reply = b.out.reply
    <3>1. /\ d.status = p.status /\ d.left = p.left
          /\ d.requests = [p.requests EXCEPT ![s] = Tail(@)]
      BY <1>1, <1>5, <2>4, AssignChanges
    <3>2. /\ d.out.request = Head(p.requests[s]) /\ d.out.reply = p.out.reply
          /\ \A o \in Obj : d.waiting[o] > 0 => p.waiting[o] > 0
      BY <1>1, <1>5, <2>4, AssignSends
    <3>3. Running(d) /\ Expired(d) = {}
      BY <1>3, <1>5, <3>1, <3>2 DEF DispatchReady, Running, Expired
    <3> QED BY <1>1, <1>5, <3>1, <3>2, <3>3 DEF Hands, DispatchReady
  <2>5. Entries(b, s) # {}
    BY <1>5, <1>6 DEF DispatchReady
  <2> QED BY <2>2, <2>3, <2>4, <2>5
<1> QED BY <1>4, <1>5

\* What follows the handler sends heartbeats, and fails only if a worker's time
\* is up.
LEMMA EndTurnMoves ==
    ASSUME NEW b, BrokerOK(b)
    PROVE  LET end == EndTurn(b)
           IN  /\ end.requests = b.requests /\ end.out.request = b.out.request
               /\ end.out.reply = b.out.reply /\ end.out.leader = b.out.leader
               /\ end.out.copies = b.out.copies
               /\ Running(b) /\ Expired(b) = {} => Running(end)
<1> DEFINE p   == PurgeWorkers(b)
           end == EndTurn(b)
<1>1. BrokerOK(p) /\ p.requests = b.requests /\ p.out = b.out
  BY PurgeWorkersOK, PurgeChanges
<1>2. Running(b) /\ Expired(b) = {} => Running(p)
  BY DEF PurgeWorkers, PurgeFails, PurgeExpired, Running, BrokerOK, BrokerType
<1>3. end = SendHeartbeats(p)
  BY DEF EndTurn
<1> HIDE DEF p, end
<1>4. /\ end.requests = p.requests /\ end.status = p.status
      /\ end.out.request = p.out.request /\ end.out.reply = p.out.reply
      /\ end.out.leader = p.out.leader /\ end.out.copies = p.out.copies
  BY <1>1, <1>3 DEF SendHeartbeats, BrokerOK, BrokerType, OutputType
<1> QED BY <1>1, <1>2, <1>4 DEF Running, end
-----------------------------------------------------------------------------
(***************************************************************************)
(* The handlers: no message of a worker brings a request in, and only a    *)
(* REPLY sends one back to a client.                                       *)
(***************************************************************************)
LEMMA BeginMoves ==
    ASSUME BrokerOK(broker)
    PROVE  /\ BrokerOK(Begin) /\ Keeps(broker, Begin)
           /\ Begin.requests = broker.requests /\ Begin.out = NoOutput
           /\ Begin.workers = broker.workers /\ Begin.status = broker.status
           /\ Begin.out.reply = NoReq /\ Begin.out.request = NoReq
<1>1. BrokerOK(Begin)
  BY BeginOK
<1>2. /\ Begin.requests = broker.requests /\ Begin.out = NoOutput
      /\ Begin.workers = broker.workers /\ Begin.status = broker.status
  BY DEF Begin, BrokerOK, BrokerType
<1>3. NoOutput.reply = NoReq /\ NoOutput.request = NoReq
  BY DEF NoOutput
<1> QED BY <1>1, <1>2, <1>3 DEF Keeps

LEMMA WorkerWaitingMoves ==
    ASSUME NEW b, BrokerOK(b), NEW o \in Obj, b.out.request = NoReq,
           NEW d \in WorkerWaiting(b, o)
    PROVE  Moves(b, d) /\ d.out.reply = b.out.reply
<1> DEFINE s == ObjSvc(o)
           n == [b EXCEPT !.waiting[o] = @ + 1, !.svcWaiting[o] = @ + 1,
                          !.left[o] = Lifetime]
<1>1. BrokerOK(n)
  BY QueuedOK, ZenonT(60)
<1>2. n.out = b.out /\ n.requests = b.requests
  BY DEF BrokerOK, BrokerType
<1>3. s \in Service /\ d \in Dispatch(n, s)
  BY BrokerAssumption DEF WorkerWaiting, ObjSvc
<1> HIDE DEF n, s
<1>4. (Keeps(n, d) \/ Hands(n, d, s)) /\ d.out.reply = n.out.reply
  BY <1>1, <1>2, <1>3, DispatchMoves
<1> QED BY <1>2, <1>3, <1>4 DEF Moves, Keeps, Hands

LEMMA DisconnectMoves ==
    ASSUME NEW b, BrokerOK(b), b.out.request = NoReq, NEW w \in Worker
    PROVE  Keeps(b, Disconnect(b, w)) /\ Disconnect(b, w).out.reply = b.out.reply
BY DEF Disconnect, Keeps, BrokerOK, BrokerType, OutputType

LEMMA DeleteWorkerMoves ==
    ASSUME NEW b, BrokerOK(b), NEW w \in Worker
    PROVE  /\ DeleteWorker(b, w).requests = b.requests
           /\ DeleteWorker(b, w).out = b.out
BY DEF DeleteWorker, BrokerOK, BrokerType

LEMMA HandleReadyMoves ==
    ASSUME BrokerOK(broker), NEW w \in Worker, Registered(w) \/ Unused(w) # {},
           NEW d \in HandleReady(w)
    PROVE  Moves(broker, d) /\ d.out.reply = NoReq
<1>1. /\ BrokerOK(Begin) /\ Begin.requests = broker.requests
      /\ Begin.workers = broker.workers /\ Begin.out = NoOutput
      /\ Begin.out.reply = NoReq /\ Begin.out.request = NoReq
  BY BeginMoves
<1>2. CASE Registered(w)
  <2> DEFINE n == DeleteWorker(Begin, w)
  <2>1. BrokerOK(n) /\ n.requests = Begin.requests /\ n.out = Begin.out
    BY <1>1, <1>2, DeleteWorkerOK, DeleteWorkerMoves DEF Registered
  <2>2. d = Disconnect(n, w)
    BY <1>2 DEF HandleReady
  <2> HIDE DEF n
  <2>3. Keeps(n, d) /\ d.out.reply = n.out.reply
    BY <1>1, <2>1, <2>2, DisconnectMoves
  <2> QED BY <1>1, <2>1, <2>3 DEF Keeps, Moves
<1>3. CASE ~Registered(w)
  <2> DEFINE o == CHOOSE x \in Unused(w) : TRUE
             n == [Begin EXCEPT !.workers[w] = o, !.services = @ \cup {SvcOf[w]}]
  <2>1. o \in Obj /\ OwnerOf[o] = w
    BY <1>3 DEF Unused
  <2> HIDE DEF o
  <2>2. n \in BrokerType
    BY <1>1, <2>1, BrokerAssumption, ZenonT(60) DEF BrokerOK, BrokerType
  <2>3. /\ n.workers = [Begin.workers EXCEPT ![w] = o] /\ n.status = Begin.status
        /\ n.waiting = Begin.waiting /\ n.svcWaiting = Begin.svcWaiting
        /\ n.requests = Begin.requests /\ n.out = Begin.out
    BY <1>1 DEF BrokerOK, BrokerType
  <2>4. BrokerOK(n)
    BY <1>1, <2>1, <2>2, <2>3
    DEF BrokerOK, BrokerType, RegisteredUnderOwner, Covers, QueuedByService, LedGroup
  <2>5. d \in WorkerWaiting(n, o)
    BY <1>3 DEF HandleReady, o
  <2> HIDE DEF n
  <2>6. Moves(n, d) /\ d.out.reply = n.out.reply
    BY <1>1, <2>1, <2>3, <2>4, <2>5, WorkerWaitingMoves
  <2> QED BY <1>1, <2>3, <2>6 DEF Moves, Keeps, Hands
<1> QED BY <1>2, <1>3

LEMMA HandleReplyMoves ==
    ASSUME BrokerOK(broker), NEW w \in Worker, NEW r \in Request,
           NEW d \in HandleReply(w, r)
    PROVE  Moves(broker, d) /\ d.out.reply \in {r, NoReq}
<1>1. /\ BrokerOK(Begin) /\ Begin.requests = broker.requests
      /\ Begin.out = NoOutput /\ Begin.out.reply = NoReq /\ Begin.out.request = NoReq
  BY BeginMoves
<1>2. CASE Registered(w)
  <2> DEFINE n == [Begin EXCEPT !.out.reply = r]
  <2>1. n \in BrokerType
    BY <1>1 DEF BrokerOK, BrokerType, OutputType
  <2>2. /\ n.workers = Begin.workers /\ n.status = Begin.status
        /\ n.waiting = Begin.waiting /\ n.svcWaiting = Begin.svcWaiting
        /\ n.requests = Begin.requests
        /\ n.out.request = Begin.out.request /\ n.out.leader = Begin.out.leader
        /\ n.out.copies = Begin.out.copies /\ n.out.reply = r
    BY <1>1 DEF BrokerOK, BrokerType, OutputType
  <2>3. BrokerOK(n)
    BY <1>1, <2>1, <2>2
    DEF BrokerOK, RegisteredUnderOwner, Covers, QueuedByService, LedGroup, Sent
  <2>4. broker.workers[w] \in Obj
    BY <1>2 DEF Registered, BrokerOK, BrokerType
  <2>5. d \in WorkerWaiting(n, broker.workers[w])
    BY <1>2 DEF HandleReply
  <2> HIDE DEF n
  <2>6. Moves(n, d) /\ d.out.reply = n.out.reply
    BY <1>1, <2>2, <2>3, <2>4, <2>5, WorkerWaitingMoves
  <2> QED BY <1>1, <2>2, <2>6 DEF Moves, Keeps, Hands
<1>3. CASE ~Registered(w)
  <2>1. d = Disconnect(Begin, w)
    BY <1>3 DEF HandleReply
  <2>2. Keeps(Begin, d) /\ d.out.reply = Begin.out.reply
    BY <1>1, <2>1, DisconnectMoves
  <2> QED BY <1>1, <2>2 DEF Keeps, Moves
<1> QED BY <1>2, <1>3

LEMMA HandleHeartbeatMoves ==
    ASSUME BrokerOK(broker), NEW w \in Worker, NEW d \in HandleHeartbeat(w)
    PROVE  Moves(broker, d) /\ d.out.reply = NoReq
<1>1. /\ BrokerOK(Begin) /\ Begin.requests = broker.requests
      /\ Begin.out.reply = NoReq /\ Begin.out.request = NoReq
  BY BeginMoves
<1>2. CASE Registered(w)
  <2>1. d.requests = Begin.requests /\ d.out = Begin.out
    BY <1>1, <1>2 DEF HandleHeartbeat, BrokerOK, BrokerType
  <2> QED BY <1>1, <2>1 DEF Moves, Keeps
<1>3. CASE ~Registered(w)
  <2>1. d = Disconnect(Begin, w)
    BY <1>3 DEF HandleHeartbeat
  <2>2. Keeps(Begin, d) /\ d.out.reply = Begin.out.reply
    BY <1>1, <2>1, DisconnectMoves
  <2> QED BY <1>1, <2>2 DEF Keeps, Moves
<1> QED BY <1>2, <1>3

LEMMA HandleDisconnectMoves ==
    ASSUME BrokerOK(broker), NEW w \in Worker, NEW d \in HandleDisconnect(w)
    PROVE  Moves(broker, d) /\ d.out.reply = NoReq
<1>1. /\ BrokerOK(Begin) /\ Begin.requests = broker.requests
      /\ Begin.out.reply = NoReq /\ Begin.out.request = NoReq
  BY BeginMoves
<1>2. d = DeleteWorker(Begin, w) \/ d = Begin
  BY DEF HandleDisconnect
<1>3. d.requests = Begin.requests /\ d.out = Begin.out
  BY <1>1, <1>2, DeleteWorkerMoves
<1> QED BY <1>1, <1>3 DEF Moves, Keeps

LEMMA HandleInternalMoves ==
    ASSUME BrokerOK(broker), NEW s \in Service, NEW d \in HandleInternal(s)
    PROVE  Moves(broker, d) /\ d.out.reply = NoReq
<1>1. /\ BrokerOK(Begin) /\ Begin.requests = broker.requests
      /\ Begin.out.reply = NoReq /\ Begin.out.request = NoReq
  BY BeginMoves
<1>2. PICK code : d = [Begin EXCEPT !.out.mmi = code]
  BY DEF HandleInternal
<1>3. /\ d.requests = Begin.requests
      /\ d.out.reply = Begin.out.reply /\ d.out.request = Begin.out.request
  BY <1>1, <1>2 DEF BrokerOK, BrokerType, OutputType
<1> QED BY <1>1, <1>3 DEF Moves, Keeps
\* A request that finds the queue of its service empty may be handed out at
\* once; it never overtakes another, since no worker waits beside a request.
LEMMA HandleClientMoves ==
    ASSUME BrokerOK(broker), AllQuiet(broker), Running(broker),
           NEW r \in Request, NEW d \in HandleClient(r)
    PROVE  LET s == ReqSvc[r]
           IN  /\ d.out.reply = NoReq
               /\ \/ /\ d.requests = [broker.requests EXCEPT ![s] = Append(@, r)]
                     /\ d.out.request = NoReq
                  \/ /\ broker.requests[s] = <<>>
                     /\ d.requests = broker.requests
                     /\ d.out.request = r
                     /\ Running(d) /\ Expired(d) = {}
<1> DEFINE s == ReqSvc[r]
           n == [Begin EXCEPT !.services = @ \cup {s}, !.requests[s] = Append(@, r)]
<1>1. /\ BrokerOK(Begin) /\ Begin.requests = broker.requests
      /\ Begin.out.reply = NoReq /\ Begin.out.request = NoReq
  BY BeginMoves
<1>2. s \in Service
  BY BrokerAssumption
<1>3. BrokerOK(n)
  BY HandleClientStart, ZenonT(60)
<1>4. /\ n.requests = [Begin.requests EXCEPT ![s] = Append(@, r)]
      /\ n.svcWaiting = Begin.svcWaiting /\ n.out = Begin.out
  BY <1>1 DEF BrokerOK, BrokerType
<1>5. d \in Dispatch(n, s)
  BY DEF HandleClient
<1>6. Begin.svcWaiting = broker.svcWaiting
  BY DEF Begin, BrokerOK, BrokerType
<1>7. broker.requests \in [Service -> Seq(Request)]
  BY DEF BrokerOK, BrokerType
<1> HIDE DEF n, s
<1>8. /\ Keeps(n, d) \/ Hands(n, d, s)
      /\ Entries(n, s) = {} => Keeps(n, d)
      /\ d.out.reply = n.out.reply
  BY <1>1, <1>2, <1>3, <1>4, <1>5, DispatchMoves
<1>9. CASE Keeps(n, d)
  BY <1>1, <1>4, <1>8, <1>9 DEF Keeps, s
<1>10. CASE Hands(n, d, s) /\ Entries(n, s) # {}
  <2>1. Entries(broker, s) # {}
    BY <1>4, <1>6, <1>10 DEF Entries
  <2>2. broker.requests[s] = <<>>
    BY <1>2, <2>1 DEF AllQuiet, Quiet
  <2>3. n.requests[s] = <<r>>
    BY <1>1, <1>2, <1>4, <1>7, <2>2
  <2>4. d.out.request = r
    BY <1>10, <2>3 DEF Hands
  <2>5. d.requests = broker.requests
    <3>1. d.requests = [n.requests EXCEPT ![s] = <<>>]
      BY <1>10, <2>3 DEF Hands
    <3>2. d.requests = [broker.requests EXCEPT ![s] = <<>>]
      BY <1>1, <1>4, <1>7, <3>1
    <3> QED BY <1>2, <1>7, <2>2, <3>2
  <2> QED BY <1>1, <1>4, <1>8, <1>10, <2>2, <2>4, <2>5 DEF Hands, s
<1> QED BY <1>8, <1>9, <1>10
-----------------------------------------------------------------------------
(***************************************************************************)
(* A turn is a step of the RequestQueue, or changes nothing there.         *)
(***************************************************************************)
\* Who a turn hands its request to: a group of workers and its leader.
LEMMA TurnHands ==
    ASSUME NEW b, BrokerOK(b), NEW r \in Request, b.out.request = r,
           handed' = HandedAfter(handed, EndTurn(b).out), handed[r] = Queue!NotHanded
    PROVE  \E group \in SUBSET Worker, leader \in Worker : Queue!HandTo(r, group, leader)
<1> DEFINE out    == EndTurn(b).out
           group  == Recipients(out)
           leader == OwnerOf[out.leader]
<1>1. /\ out.request = r /\ out.leader = b.out.leader /\ out.copies = b.out.copies
  BY EndTurnMoves
<1>2. r # NoReq
  BY BrokerAssumption
<1>3. b.out.leader \in Sent(b.out)
  BY <1>2 DEF BrokerOK, LedGroup
<1> HIDE DEF out
<1>4. out.leader \in Sent(out)
  BY <1>1, <1>3 DEF Sent
<1>5. group \in SUBSET Worker /\ leader \in Worker /\ leader \in group
  BY <1>4, BrokerAssumption DEF Recipients, Sent
<1>6. handed' = [handed EXCEPT ![r] = [to |-> group, leader |-> leader]]
  BY <1>1, <1>2 DEF HandedAfter, out
<1> HIDE DEF group, leader
<1>7. Queue!HandTo(r, group, leader)
  BY <1>5, <1>6 DEF Queue!HandTo
<1> QED BY <1>5, <1>7

LEMMA TurnRefines ==
    ASSUME BrokerOK(broker), Running(broker), Queue!Conservation,
           NEW b, BrokerOK(b), Moves(broker, b),
           broker'.requests = EndTurn(b).requests, broker'.status = EndTurn(b).status,
           handed' = HandedAfter(handed, EndTurn(b).out), submitted' = submitted
    PROVE  [Queue!Next]_(Queue!vars)
<1>1. /\ broker'.requests = b.requests /\ EndTurn(b).out.request = b.out.request
      /\ Running(b) /\ Expired(b) = {} => Running(broker')
  BY EndTurnMoves DEF Running
<1>2. CASE Keeps(broker, b)
  <2>1. broker'.requests = broker.requests /\ handed' = handed
    BY <1>1, <1>2 DEF Keeps, HandedAfter
  <2>2. CASE Running(broker')
    BY <2>1, <2>2 DEF Queue!vars, Running
  <2>3. CASE ~Running(broker')
    <3>1. Queue!Fail
      BY <2>1, <2>3 DEF Queue!Fail, Running
    <3> QED BY <3>1 DEF Queue!Next
  <2> QED BY <2>2, <2>3
<1>3. ASSUME NEW s \in Service, Hands(broker, b, s) PROVE Queue!Next
  <2> DEFINE r == Head(broker.requests[s])
  <2>1. broker.requests[s] \in Seq(Request) /\ broker.requests[s] # <<>>
    BY <1>3 DEF Hands, BrokerOK, BrokerType
  <2>2. r \in Request /\ 1 \in DOMAIN broker.requests[s] /\ r = broker.requests[s][1]
    BY <2>1
  <2>3. handed[r] = Queue!NotHanded
    BY <2>2 DEF Queue!Conservation, Queue!QueueSound
  <2>4. b.out.request = r
    BY <1>3 DEF Hands
  <2>5. \E group \in SUBSET Worker, leader \in Worker : Queue!HandTo(r, group, leader)
    BY <2>2, <2>3, <2>4, TurnHands
  <2>6. /\ broker'.requests = [broker.requests EXCEPT ![s] = Tail(@)]
        /\ Running(broker')
    BY <1>1, <1>3 DEF Hands
  <2>7. Queue!Hand(s)
    BY <2>1, <2>5, <2>6 DEF Queue!Hand, Running
  <2> QED BY <2>7 DEF Queue!Next
<1> QED BY <1>2, <1>3 DEF Moves

LEMMA ClientTurnRefines ==
    ASSUME BrokerOK(broker), AllQuiet(broker), Running(broker), Queue!Conservation,
           NEW r \in Request, r \notin submitted, NEW b \in HandleClient(r),
           broker'.requests = EndTurn(b).requests, broker'.status = EndTurn(b).status,
           handed' = HandedAfter(handed, EndTurn(b).out),
           submitted' = submitted \cup {r}
    PROVE  Queue!Next
<1> DEFINE s == ReqSvc[r]
<1>1. BrokerOK(b)
  BY HandleClientOK
<1>2. /\ broker'.requests = b.requests /\ EndTurn(b).out.request = b.out.request
      /\ Running(b) /\ Expired(b) = {} => Running(broker')
  BY <1>1, EndTurnMoves DEF Running
<1>3. CASE /\ b.requests = [broker.requests EXCEPT ![s] = Append(@, r)]
           /\ b.out.request = NoReq
  <2>1. handed' = handed /\ Queue!Enqueue(r)
    BY <1>2, <1>3 DEF HandedAfter, Queue!Enqueue
  <2>2. CASE Running(broker')
    <3>1. Queue!Submit(r)
      BY <2>1, <2>2 DEF Queue!Submit, Running
    <3> QED BY <3>1 DEF Queue!Next
  <2>3. CASE ~Running(broker')
    <3>1. Queue!FailOnSubmit(r)
      BY <2>1, <2>3 DEF Queue!FailOnSubmit, Running
    <3> QED BY <3>1 DEF Queue!Next
  <2> QED BY <2>2, <2>3
<1>4. CASE /\ broker.requests[s] = <<>> /\ b.requests = broker.requests
           /\ b.out.request = r /\ Running(b) /\ Expired(b) = {}
  <2>1. handed[r] = Queue!NotHanded
    BY DEF Queue!Conservation, Queue!QueueComplete
  <2>2. \E group \in SUBSET Worker, leader \in Worker : Queue!HandTo(r, group, leader)
    BY <1>1, <1>4, <2>1, TurnHands
  <2>3. Queue!SubmitAndHand(r)
    BY <1>2, <1>4, <2>2 DEF Queue!SubmitAndHand, Running
  <2> QED BY <2>3 DEF Queue!Next
<1> QED BY <1>3, <1>4, HandleClientMoves
-----------------------------------------------------------------------------
(***************************************************************************)
(* The broker implements RequestQueue, and what RequestQueueProofs proves  *)
(* of that specification holds of the broker.                              *)
(***************************************************************************)
Q == INSTANCE RequestQueueProofs WITH queue <- broker.requests, up <- Running(broker)

LEMMA SameQueue ==
    /\ Q!Conservation <=> Queue!Conservation
    /\ Q!Conservation' <=> Queue!Conservation'
    /\ [Q!Next]_(Q!vars) <=> [Queue!Next]_(Queue!vars)
BY DEF Q!Conservation, Q!TypeOK, Q!QueueSound, Q!QueueComplete, Q!NotHanded,
       Q!vars, Q!Next, Q!Submit, Q!SubmitAndHand, Q!FailOnSubmit, Q!Hand, Q!Fail,
       Q!HandTo, Q!Enqueue,
       Queue!Conservation, Queue!TypeOK, Queue!QueueSound, Queue!QueueComplete,
       Queue!NotHanded, Queue!vars, Queue!Next, Queue!Submit, Queue!SubmitAndHand,
       Queue!FailOnSubmit, Queue!Hand, Queue!Fail, Queue!HandTo, Queue!Enqueue

LEMMA QueueStepConserves ==
    ASSUME Queue!Conservation, [Queue!Next]_(Queue!vars)
    PROVE  Queue!Conservation'
<1>1. Q!ReqSvcOK
  BY BrokerAssumption DEF Q!ReqSvcOK
<1>2. Q!Conservation /\ [Q!Next]_(Q!vars)
  BY SameQueue
<1>3. Q!Conservation'
  BY <1>1, <1>2, Q!StepConserves
<1> QED BY <1>3, SameQueue

LEMMA InitRefines == Init => Queue!Init /\ QueueConserved
<1> SUFFICES ASSUME Init PROVE Queue!Init /\ QueueConserved
  OBVIOUS
<1>1. Queue!Init
  BY DEF Init, NewBroker, Running, NotHanded, Queue!Init, Queue!NotHanded
<1>2. Queue!Conservation
  BY <1>1, BrokerAssumption
  DEF Queue!Init, Queue!Conservation, Queue!TypeOK, Queue!QueueSound,
      Queue!QueueComplete, Queue!NotHanded
<1> QED BY <1>1, <1>2 DEF QueueConserved

LEMMA TurnStepRefines ==
    ASSUME BrokerOK(broker), QueueConserved, NEW outcomes,
           \A d \in outcomes : BrokerOK(d) /\ Moves(broker, d), NEW p,
           Turn(outcomes, p), UNCHANGED submitted
    PROVE  [Queue!Next]_(Queue!vars)
<1>1. PICK b \in outcomes : broker' = EndTurn(b) /\ handed' = HandedAfter(handed, EndTurn(b).out)
  BY DEF Turn
<1>2. Running(broker) /\ BrokerOK(b) /\ Moves(broker, b)
  BY DEF Turn
<1>3. broker'.requests = EndTurn(b).requests /\ broker'.status = EndTurn(b).status
  BY <1>1
<1> QED BY <1>1, <1>2, <1>3, TurnRefines DEF QueueConserved

\* Every step of the broker and its workers is a step of RequestQueue, or
\* leaves its variables alone.
LEMMA StepRefines ==
    ASSUME QueueInv, QueueConserved, [Next]_vars
    PROVE  [Queue!Next]_(Queue!vars)
<1>1. BrokerOK(broker) /\ AllQuiet(broker) /\ BusyHasJob
  BY QuietIsNoLostWakeup DEF QueueInv, IndInv
<1>2. ASSUME NEW w \in Worker, RecvReady(w) PROVE [Queue!Next]_(Queue!vars)
  BY <1>1, <1>2, HandleReadyOK, HandleReadyMoves, TurnStepRefines DEF RecvReady
<1>3. ASSUME NEW w \in Worker, RecvReply(w) PROVE [Queue!Next]_(Queue!vars)
  <2>1. job[w] \in Request
    BY <1>1, <1>3 DEF RecvReply, BusyHasJob
  <2> QED BY <1>1, <1>3, <2>1, HandleReplyOK, HandleReplyMoves, TurnStepRefines DEF RecvReply
<1>4. ASSUME NEW w \in Worker, RecvHeartbeat(w) PROVE [Queue!Next]_(Queue!vars)
  BY <1>1, <1>4, HandleHeartbeatOK, HandleHeartbeatMoves, TurnStepRefines DEF RecvHeartbeat
<1>5. ASSUME NEW w \in Worker, RecvDisconnect(w) PROVE [Queue!Next]_(Queue!vars)
  BY <1>1, <1>5, HandleDisconnectOK, HandleDisconnectMoves, TurnStepRefines DEF RecvDisconnect
<1>6. ASSUME NEW r \in Request, RecvRequest(r) PROVE Queue!Next
  <2>1. PICK b \in HandleClient(r) :
           broker' = EndTurn(b) /\ handed' = HandedAfter(handed, EndTurn(b).out)
    BY <1>6 DEF RecvRequest, Turn
  <2>2. /\ broker'.requests = EndTurn(b).requests /\ broker'.status = EndTurn(b).status
        /\ Running(broker) /\ r \notin submitted /\ submitted' = submitted \cup {r}
    BY <1>6, <2>1 DEF RecvRequest, Turn
  <2> QED BY <1>1, <2>1, <2>2, ClientTurnRefines DEF QueueConserved
<1>7. ASSUME NEW s \in Service, RecvInternal(s) PROVE [Queue!Next]_(Queue!vars)
  BY <1>1, <1>7, HandleInternalOK, HandleInternalMoves, TurnStepRefines DEF RecvInternal
<1>8. CASE Idle
  BY <1>1, <1>8, BeginMoves, TurnStepRefines DEF Idle, Moves
<1>9. CASE Tick
  <2>1. broker'.requests = broker.requests /\ broker'.status = broker.status
    BY <1>1, <1>9 DEF Tick, BrokerOK, BrokerType
  <2> QED BY <1>9, <2>1 DEF Tick, Queue!vars, Running
<1>10. CASE UNCHANGED <<broker, submitted, handed>>
  BY <1>10 DEF Queue!vars
<1> QED BY <1>2, <1>3, <1>4, <1>5, <1>6, <1>7, <1>8, <1>9, <1>10
        DEF Next, Loop, Finish, Die, Restart, vars

\* The broker's requests are in order: what was submitted and not handed out
\* is queued, once, for the service that it asks for.
THEOREM QueueAlwaysConserved == Spec => []QueueConserved
<1>1. Init => QueueConserved
  BY InitRefines
<1>2. QueueInv /\ QueueConserved /\ [Next]_vars => QueueConserved'
  BY StepRefines, QueueStepConserves DEF QueueConserved
<1> QED BY <1>1, <1>2, QueueInvariance, PTL DEF Spec

\* The broker implements RequestQueue: every turn is one of its steps or
\* leaves the requests alone.
THEOREM ImplementsRequestQueue == Spec => IsRequestQueue
<1>1. Init => Queue!Init
  BY InitRefines
<1>2. QueueInv /\ QueueConserved /\ [Next]_vars => [Queue!Next]_(Queue!vars)
  BY StepRefines
<1> QED BY <1>1, <1>2, QueueInvariance, QueueAlwaysConserved, PTL
        DEF Spec, IsRequestQueue, Queue!Spec

LEMMA ConservationCounts == QueueConserved => RequestConservation
<1> SUFFICES ASSUME QueueConserved, NEW r \in Request
             PROVE  IF r \in submitted /\ handed[r].to = {}
                    THEN Cardinality(Queued(r)) = 1 ELSE Queued(r) = {}
  BY DEF RequestConservation
<1>1. ReqSvc[r] \in Service
  BY BrokerAssumption
<1>2. \A i \in DOMAIN broker.requests[ReqSvc[r]] :
         LET x == broker.requests[ReqSvc[r]][i]
         IN  /\ x \in submitted /\ handed[x].to = {}
             /\ \A j \in DOMAIN broker.requests[ReqSvc[r]] :
                   broker.requests[ReqSvc[r]][j] = x => j = i
  BY <1>1 DEF QueueConserved, Queue!Conservation, Queue!QueueSound, Queue!NotHanded
<1>3. CASE r \in submitted /\ handed[r].to = {}
  <2>1. PICK i \in DOMAIN broker.requests[ReqSvc[r]] : broker.requests[ReqSvc[r]][i] = r
    BY <1>3 DEF QueueConserved, Queue!Conservation, Queue!QueueComplete
  <2>2. Queued(r) = {i}
    BY <1>2, <2>1 DEF Queued
  <2> QED BY <1>3, <2>2, FS_Singleton
<1>4. CASE ~(r \in submitted /\ handed[r].to = {})
  BY <1>2, <1>4 DEF Queued
<1> QED BY <1>3, <1>4

\* The broker loses no request and has none twice: it is in the queue once from
\* its submission until it is handed out, and never after.
THEOREM RequestsConserved == Spec => []RequestConservation
BY QueueAlwaysConserved, ConservationCounts, PTL
=============================================================================
