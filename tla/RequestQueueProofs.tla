------------------------- MODULE RequestQueueProofs -------------------------
(***************************************************************************)
(* Proofs about RequestQueue, for every number of services and requests:   *)
(* no step of the abstract queue loses or duplicates a request.            *)
(***************************************************************************)
EXTENDS RequestQueue, Integers, TLAPS

ReqSvcOK == ReqSvc \in [Request -> Service]

LEMMA InitConserves ==
    ASSUME ReqSvcOK, Init
    PROVE  Conservation
<1>1. TypeOK
  BY DEF Init, TypeOK, NotHanded
<1>2. QueueSound
  BY DEF Init, QueueSound
<1>3. QueueComplete
  BY DEF Init, QueueComplete
<1> QED BY <1>1, <1>2, <1>3 DEF Conservation

\* A queue that grows by one request at its end.
LEMMA AppendFacts ==
    ASSUME NEW q \in Seq(Request), NEW r \in Request
    PROVE  /\ Append(q, r) \in Seq(Request)
           /\ DOMAIN Append(q, r) = DOMAIN q \cup {Len(q) + 1}
           /\ Len(q) + 1 \notin DOMAIN q
           /\ Append(q, r)[Len(q) + 1] = r
           /\ \A i \in DOMAIN q : Append(q, r)[i] = q[i]
OBVIOUS

\* A queue from which the front is taken.
LEMMA TailFacts ==
    ASSUME NEW q \in Seq(Request), q # <<>>
    PROVE  /\ Head(q) \in Request /\ Tail(q) \in Seq(Request)
           /\ 1 \in DOMAIN q /\ q[1] = Head(q)
           /\ \A i \in DOMAIN Tail(q) : /\ i + 1 \in DOMAIN q /\ i + 1 # 1
                                        /\ Tail(q)[i] = q[i + 1]
                                        /\ i \in Nat
           /\ \A j \in DOMAIN q : j # 1 => /\ j - 1 \in DOMAIN Tail(q)
                                           /\ Tail(q)[j - 1] = q[j]
OBVIOUS

LEMMA EnqueueConserves ==
    ASSUME ReqSvcOK, Conservation, NEW r \in Request, r \notin submitted,
           submitted' = submitted \cup {r}, Enqueue(r),
           handed' = handed, up' \in BOOLEAN
    PROVE  Conservation'
<1> DEFINE s == ReqSvc[r]
           q == queue[s]
<1>1. s \in Service /\ q \in Seq(Request)
  BY DEF ReqSvcOK, Conservation, TypeOK
<1>2. /\ queue' = [queue EXCEPT ![s] = Append(q, r)]
      /\ queue'[s] = Append(q, r)
      /\ \A t \in Service \ {s} : queue'[t] = queue[t]
  BY <1>1 DEF Enqueue, Conservation, TypeOK
<1>3. handed[r] = NotHanded
  BY DEF Conservation, QueueComplete
<1> HIDE DEF s
<1>4. TypeOK'
  BY <1>1, <1>2, AppendFacts DEF Conservation, TypeOK
<1>5. QueueSound'
  <2> SUFFICES ASSUME NEW t \in Service, NEW i \in DOMAIN queue'[t]
               PROVE  /\ ReqSvc[queue'[t][i]] = t
                      /\ queue'[t][i] \in submitted'
                      /\ handed'[queue'[t][i]] = NotHanded
                      /\ \A j \in DOMAIN queue'[t] : queue'[t][j] = queue'[t][i] => j = i
    BY DEF QueueSound
  <2>1. CASE t # s
    BY <1>2, <2>1 DEF Conservation, QueueSound
  <2>2. CASE t = s
    <3>1. \A j \in DOMAIN q : /\ ReqSvc[q[j]] = s /\ q[j] \in submitted
                              /\ handed[q[j]] = NotHanded
                              /\ \A k \in DOMAIN q : q[k] = q[j] => k = j
      BY <1>1 DEF Conservation, QueueSound
    <3> HIDE DEF q
    <3> QED BY <1>1, <1>2, <1>3, <2>2, <3>1, AppendFacts DEF s
  <2> QED BY <2>1, <2>2
<1>6. QueueComplete'
  <2> SUFFICES ASSUME NEW x \in Request
               PROVE  /\ x \notin submitted' => handed'[x] = NotHanded
                      /\ handed'[x].to = {} => handed'[x] = NotHanded
                      /\ x \in submitted' /\ handed'[x] = NotHanded =>
                            \E i \in DOMAIN queue'[ReqSvc[x]] : queue'[ReqSvc[x]][i] = x
    BY DEF QueueComplete
  <2>1. ReqSvc[x] \in Service
    BY DEF ReqSvcOK
  <2>2. CASE x = r
    BY <1>1, <1>2, <1>3, <2>2, AppendFacts DEF s
  <2>3. CASE x # r
    BY <1>1, <1>2, <2>1, <2>3, AppendFacts DEF Conservation, QueueComplete
  <2> QED BY <2>2, <2>3
<1> QED BY <1>4, <1>5, <1>6 DEF Conservation

LEMMA HandConserves ==
    ASSUME ReqSvcOK, Conservation, NEW s \in Service, Hand(s)
    PROVE  Conservation'
<1> DEFINE q == queue[s]
           r == Head(q)
<1>1. q \in Seq(Request) /\ q # <<>>
  BY DEF Hand, Conservation, TypeOK
<1>2. PICK group \in SUBSET Worker, leader \in Worker :
         leader \in group /\ handed' = [handed EXCEPT ![r] = [to |-> group, leader |-> leader]]
  BY DEF Hand, HandTo
<1>3. /\ UNCHANGED <<submitted, up>>
      /\ queue' = [queue EXCEPT ![s] = Tail(q)]
      /\ queue'[s] = Tail(q)
      /\ \A t \in Service \ {s} : queue'[t] = queue[t]
  BY DEF Hand, Conservation, TypeOK
<1>4. /\ r \in Request /\ r \in submitted /\ ReqSvc[r] = s
      /\ \A j \in DOMAIN q : q[j] = r => j = 1
  BY <1>1, TailFacts DEF Conservation, QueueSound
<1>5. /\ handed'[r].to = group /\ handed'[r] # NotHanded
      /\ \A x \in Request \ {r} : handed'[x] = handed[x]
  BY <1>2, <1>4 DEF Conservation, TypeOK, NotHanded
<1>6. TypeOK'
  BY <1>1, <1>2, <1>3, TailFacts DEF Conservation, TypeOK
<1> HIDE DEF q, r
<1>7. QueueSound'
  <2> SUFFICES ASSUME NEW t \in Service, NEW i \in DOMAIN queue'[t]
               PROVE  /\ ReqSvc[queue'[t][i]] = t
                      /\ queue'[t][i] \in submitted
                      /\ handed'[queue'[t][i]] = NotHanded
                      /\ \A j \in DOMAIN queue'[t] : queue'[t][j] = queue'[t][i] => j = i
    BY <1>3 DEF QueueSound
  <2>1. \A u \in Service : \A k \in DOMAIN queue[u] :
           /\ queue[u][k] \in Request
           /\ ReqSvc[queue[u][k]] = u /\ queue[u][k] \in submitted
           /\ handed[queue[u][k]] = NotHanded
           /\ \A j \in DOMAIN queue[u] : queue[u][j] = queue[u][k] => j = k
    BY DEF Conservation, TypeOK, QueueSound
  <2>2. CASE t # s
    BY <1>3, <1>4, <1>5, <2>1, <2>2
  <2>3. CASE t = s
    <3>1. /\ i + 1 \in DOMAIN q /\ i + 1 # 1 /\ queue'[t][i] = q[i + 1] /\ i \in Nat
          /\ \A j \in DOMAIN queue'[t] :
                j + 1 \in DOMAIN q /\ queue'[t][j] = q[j + 1] /\ j \in Nat
      BY <1>1, <1>3, <2>3, TailFacts
    <3>2. q[i + 1] # r
      BY <1>4, <3>1
    <3>3. \A j \in DOMAIN queue'[t] : queue'[t][j] = queue'[t][i] => j + 1 = i + 1
      BY <2>1, <3>1 DEF q
    <3>4. \A j \in DOMAIN queue'[t] : queue'[t][j] = queue'[t][i] => j = i
      BY <3>1, <3>3
    <3>5. q[i + 1] \in Request \ {r} /\ ReqSvc[q[i + 1]] = s /\ q[i + 1] \in submitted
          /\ handed[q[i + 1]] = NotHanded
      BY <2>1, <3>1, <3>2 DEF q
    <3> QED BY <1>5, <2>3, <3>1, <3>4, <3>5
  <2> QED BY <2>2, <2>3
<1>8. QueueComplete'
  <2> SUFFICES ASSUME NEW x \in Request
               PROVE  /\ x \notin submitted' => handed'[x] = NotHanded
                      /\ handed'[x].to = {} => handed'[x] = NotHanded
                      /\ x \in submitted' /\ handed'[x] = NotHanded =>
                            \E i \in DOMAIN queue'[ReqSvc[x]] : queue'[ReqSvc[x]][i] = x
    BY DEF QueueComplete
  <2>1. CASE x = r
    BY <1>2, <1>3, <1>4, <1>5, <2>1
  <2>2. CASE x # r
    <3>1. /\ x \notin submitted => handed[x] = NotHanded
          /\ handed[x].to = {} => handed[x] = NotHanded
          /\ x \in submitted /\ handed[x] = NotHanded =>
                \E i \in DOMAIN queue[ReqSvc[x]] : queue[ReqSvc[x]][i] = x
      BY DEF Conservation, QueueComplete
    <3>2. ReqSvc[x] \in Service
      BY DEF ReqSvcOK
    <3>3. ASSUME NEW i \in DOMAIN q, q[i] = x
          PROVE  \E k \in DOMAIN queue'[s] : queue'[s][k] = x
      <4>1. i # 1
        BY <1>1, <2>2, <3>3, TailFacts DEF r
      <4>2. i - 1 \in DOMAIN queue'[s] /\ queue'[s][i - 1] = x
        BY <1>1, <1>3, <3>3, <4>1, TailFacts
      <4> QED BY <4>2
    <3> QED BY <1>3, <1>5, <2>2, <3>1, <3>2, <3>3 DEF q
  <2> QED BY <2>1, <2>2
<1> QED BY <1>6, <1>7, <1>8 DEF Conservation

LEMMA SubmitAndHandConserves ==
    ASSUME ReqSvcOK, Conservation, NEW r \in Request, SubmitAndHand(r)
    PROVE  Conservation'
<1>1. PICK group \in SUBSET Worker, leader \in Worker :
         leader \in group /\ handed' = [handed EXCEPT ![r] = [to |-> group, leader |-> leader]]
  BY DEF SubmitAndHand, HandTo
<1>2. UNCHANGED <<queue, up>> /\ submitted' = submitted \cup {r} /\ r \notin submitted
  BY DEF SubmitAndHand
<1>3. /\ handed'[r].to = group /\ handed'[r] # NotHanded
      /\ \A x \in Request \ {r} : handed'[x] = handed[x]
  BY <1>1 DEF Conservation, TypeOK, NotHanded
<1>4. TypeOK'
  BY <1>1, <1>2 DEF Conservation, TypeOK
<1>5. QueueSound'
  <2>1. \A s \in Service : \A i \in DOMAIN queue[s] : queue[s][i] \in Request \ {r}
    BY <1>2 DEF Conservation, TypeOK, QueueSound
  <2> QED BY <1>2, <1>3, <2>1 DEF Conservation, QueueSound
<1>6. QueueComplete'
  BY <1>1, <1>2, <1>3 DEF Conservation, QueueComplete
<1> QED BY <1>4, <1>5, <1>6 DEF Conservation

\* No step of the queue loses a request or has it twice.
LEMMA StepConserves ==
    ASSUME ReqSvcOK, Conservation, [Next]_vars
    PROVE  Conservation'
<1>1. ASSUME NEW r \in Request, Submit(r) \/ FailOnSubmit(r) PROVE Conservation'
  BY <1>1, EnqueueConserves DEF Submit, FailOnSubmit, Conservation, TypeOK
<1>2. ASSUME UNCHANGED <<queue, submitted, handed>>, up' \in BOOLEAN PROVE Conservation'
  BY <1>2 DEF Conservation, TypeOK, QueueSound, QueueComplete
<1> QED BY <1>1, <1>2, HandConserves, SubmitAndHandConserves
        DEF Next, Fail, vars, Conservation, TypeOK

\* Every request that was submitted waits once in the queue of its service, or
\* was handed on.
THEOREM Conserves ==
    ASSUME ReqSvcOK
    PROVE  Spec => []Conservation
<1>1. Init => Conservation
  BY InitConserves
<1>2. Conservation /\ [Next]_vars => Conservation'
  BY StepConserves
<1> QED BY <1>1, <1>2, PTL DEF Spec
=============================================================================
