-------------------------- MODULE MajordomoProofs --------------------------
(***************************************************************************)
(* What TLAPS proves of the whole protocol, for every number of workers,   *)
(* requests and Worker objects, and whatever is lost, late or dies: each   *)
(* worker answers a request at most once, and only if it was handed it,    *)
(* and the broker still implements RequestQueue between workers that are   *)
(* the code's and not arbitrary.                                           *)
(***************************************************************************)
EXTENDS Majordomo, BrokerProofs

\* Where m is in a channel, and that it is there once at most.
Places(q, m) == {i \in DOMAIN q : q[i] = m}
AtMostOnce(q, m) == \A i, j \in Places(q, m) : i = j

Reply(r) == Message("REPLY", r)

LEMMA AnswersAreReplies == \A w, r : Answers(w, r) = Places(up[w], Reply(r))
BY DEF Answers, Places, Reply

LEMMA AnswersAreRepliesNext == \A w, r : Answers(w, r)' = Places(up'[w], Reply(r))
BY DEF Answers, Places, Reply

LEMMA PrefixPlaces ==
    ASSUME NEW S, NEW q \in Seq(S), NEW n \in 0..Len(q), NEW m
    PROVE  SubSeq(q, 1, n) \in Seq(S) /\ Places(SubSeq(q, 1, n), m) \subseteq Places(q, m)
<1> DEFINE p == SubSeq(q, 1, n)
<1>1. /\ p \in Seq(S) /\ Len(p) = n /\ DOMAIN p = 1..n
      /\ DOMAIN q = 1..Len(q) /\ Len(q) \in Nat
      /\ \A i \in 1..n : p[i] = q[i]
  OBVIOUS
<1> HIDE DEF p
<1>2. Places(p, m) \subseteq Places(q, m)
  BY <1>1 DEF Places
<1> QED BY <1>1, <1>2 DEF p

LEMMA AppendPlaces ==
    ASSUME NEW S, NEW q \in Seq(S), NEW x \in S, NEW m
    PROVE  /\ Append(q, x) \in Seq(S)
           /\ x # m => Places(Append(q, x), m) = Places(q, m)
           /\ Places(q, m) = {} => AtMostOnce(Append(q, x), m)
<1> DEFINE p == Append(q, x)
<1>1. /\ p \in Seq(S) /\ DOMAIN p = 1..(Len(q) + 1) /\ DOMAIN q = 1..Len(q)
      /\ Len(q) \in Nat /\ p[Len(q) + 1] = x
      /\ \A i \in 1..Len(q) : p[i] = q[i]
  OBVIOUS
<1> HIDE DEF p
<1>2. \A i \in DOMAIN p : i \in DOMAIN q \/ i = Len(q) + 1
  BY <1>1
<1>3. x # m => Places(p, m) = Places(q, m)
  BY <1>1, <1>2 DEF Places
<1>4. Places(q, m) = {} => Places(p, m) \subseteq {Len(q) + 1}
  BY <1>1, <1>2 DEF Places
<1> QED BY <1>1, <1>3, <1>4 DEF p, AtMostOnce

LEMMA TailPlaces ==
    ASSUME NEW S, NEW q \in Seq(S), q # <<>>, NEW m
    PROVE  /\ Tail(q) \in Seq(S) /\ Head(q) \in S
           /\ Places(Tail(q), m) # {} => Places(q, m) # {}
           /\ Head(q) = m => Places(q, m) # {}
           /\ AtMostOnce(q, m) => /\ AtMostOnce(Tail(q), m)
                                  /\ Head(q) = m => Places(Tail(q), m) = {}
<1> DEFINE t == Tail(q)
<1>1. /\ t \in Seq(S) /\ Head(q) \in S /\ Head(q) = q[1] /\ 1 \in DOMAIN q
      /\ \A i \in DOMAIN t : i \in Nat /\ i > 0 /\ i + 1 \in DOMAIN q /\ t[i] = q[i + 1]
  OBVIOUS
<1> HIDE DEF t
<1>2. \A i \in Places(t, m) : i \in Nat /\ i > 0 /\ i + 1 \in Places(q, m)
  BY <1>1 DEF Places
<1>3. Head(q) = m => 1 \in Places(q, m)
  BY <1>1 DEF Places
<1>4. ASSUME AtMostOnce(q, m), NEW i \in Places(t, m), NEW j \in Places(t, m) PROVE i = j
  <2>1. i + 1 = j + 1
    BY <1>2, <1>4 DEF AtMostOnce
  <2> QED BY <1>2, <2>1
<1>5. ASSUME AtMostOnce(q, m), Head(q) = m, NEW i \in Places(t, m) PROVE FALSE
  <2>1. i + 1 = 1
    BY <1>2, <1>3, <1>5 DEF AtMostOnce
  <2> QED BY <1>2, <2>1
<1> QED BY <1>1, <1>2, <1>3, <1>4, <1>5 DEF t, AtMostOnce

LEMMA ContainsTail ==
    ASSUME NEW S, NEW q \in Seq(S), q # <<>>, NEW m, Contains(Tail(q), m)
    PROVE  Contains(q, m)
<1>1. PICK i \in 1..Len(Tail(q)) : Tail(q)[i] = m
  BY DEF Contains
<1>2. i + 1 \in 1..Len(q) /\ q[i + 1] = m
  BY <1>1
<1> QED BY <1>2 DEF Contains

LEMMA ContainsHead ==
    ASSUME NEW S, NEW q \in Seq(S), q # <<>>
    PROVE  Contains(q, Head(q))
<1>1. 1 \in 1..Len(q) /\ q[1] = Head(q)
  OBVIOUS
<1> QED BY <1>1 DEF Contains

LEMMA ContainsConcat ==
    ASSUME NEW S, NEW q \in Seq(S), NEW t \in Seq(S), NEW m, Contains(q \o t, m)
    PROVE  Contains(q, m) \/ Contains(t, m)
<1>1. PICK i \in 1..Len(q \o t) : (q \o t)[i] = m
  BY DEF Contains
<1>2. Len(q) \in Nat /\ Len(t) \in Nat /\ Len(q \o t) = Len(q) + Len(t)
  OBVIOUS
<1>3. CASE i <= Len(q)
  <2>1. i \in 1..Len(q) /\ q[i] = m
    BY <1>1, <1>2, <1>3
  <2> QED BY <2>1 DEF Contains
<1>4. CASE i > Len(q)
  <2>1. i - Len(q) \in 1..Len(t) /\ t[i - Len(q)] = m
    BY <1>1, <1>2, <1>4
  <2> QED BY <2>1 DEF Contains
<1> QED BY <1>2, <1>3, <1>4

LEMMA ContainsOne == \A x, m : Contains(<<x>>, m) => x = m
BY DEF Contains

LEMMA ContainsEmpty == \A m : ~Contains(<<>>, m)
BY DEF Contains
-----------------------------------------------------------------------------
(***************************************************************************)
(* The messages.                                                           *)
(***************************************************************************)
LEMMA MessagesDiffer ==
    /\ \A r : Ready # Reply(r) /\ Message("HEARTBEAT", NoReq) # Reply(r)
    /\ \A r, x : Reply(r) = Reply(x) => r = x
    /\ \A r : Reply(r).kind = "REPLY" /\ Reply(r).req = r
    /\ Ready.kind = "READY" /\ Message("HEARTBEAT", NoReq).kind = "HEARTBEAT"
    /\ Ready \in UpMessage /\ Message("HEARTBEAT", NoReq) \in UpMessage
    /\ \A r \in Request : Reply(r) \in UpMessage
    /\ \A m \in UpMessage : \/ m = Ready \/ m = Message("HEARTBEAT", NoReq)
                            \/ \E r \in Request : m = Reply(r)
BY DEF Ready, Reply, Message, UpMessage

LEMMA JobMessages ==
    /\ \A r, own, leads : LET m == JobMessage(r, own, leads)
                          IN  /\ m.kind = "REQUEST" /\ m.req = r
                              /\ m.own = own /\ m.lead = leads
    /\ \A k \in {"DISCONNECT", "HEARTBEAT"} : \A r, own, leads :
          Message(k, NoReq) # JobMessage(r, own, leads)
    /\ \A m \in DownMessage : m.kind = "REQUEST" =>
          \E r \in Request, own, leads \in BOOLEAN : m = JobMessage(r, own, leads)
<1>1. \A r, own, leads : LET m == JobMessage(r, own, leads)
                         IN  /\ m.kind = "REQUEST" /\ m.req = r
                             /\ m.own = own /\ m.lead = leads
  BY DEF JobMessage
<1>2. \A k \in {"DISCONNECT", "HEARTBEAT"} : Message(k, NoReq).kind = k
  BY DEF Message
<1> QED BY <1>1, <1>2 DEF DownMessage

LEMMA DownMessages ==
    /\ \A r \in Request, own, leads \in BOOLEAN : JobMessage(r, own, leads) \in DownMessage
    /\ \A k \in {"DISCONNECT", "HEARTBEAT"} : Message(k, NoReq) \in DownMessage
BY DEF DownMessage

LEMMA JobInjective ==
    ASSUME NEW r, NEW own, NEW leads, NEW x, NEW mine, NEW first,
           JobMessage(r, own, leads) = JobMessage(x, mine, first)
    PROVE  r = x /\ own = mine /\ leads = first
BY JobMessages

LEMMA EntriesFinite ==
    ASSUME NEW out \in OutputType, NEW w
    PROVE  IsFiniteSet(UNION {{o} \X (1..out.copies[o]) : o \in {x \in Obj : OwnerOf[x] = w}})
<1> DEFINE P == {x \in Obj : OwnerOf[x] = w}
           E(o) == {o} \X (1..out.copies[o])
           T == {E(o) : o \in P}
<1>1. IsFiniteSet(P)
  BY FS_Subset, MajordomoAssumption
<1>2. \A o \in P : IsFiniteSet(E(o))
  <2> SUFFICES ASSUME NEW o \in P PROVE IsFiniteSet(E(o))
    OBVIOUS
  <2>1. out.copies[o] \in Nat
    BY DEF OutputType
  <2>2. IsFiniteSet(1..out.copies[o])
    BY <2>1, FS_Interval
  <2>3. IsFiniteSet({o})
    BY FS_Singleton
  <2> QED BY <2>2, <2>3, FS_Product
<1> HIDE DEF E
<1>3. IsFiniteSet(T)
  <2> DEFINE f == [o \in P |-> E(o)]
  <2>1. f \in [P -> T] /\ \A t \in T : \E o \in P : f[o] = t
    OBVIOUS
  <2>2. f \in Surjection(P, T)
    BY <2>1 DEF Surjection
  <2> HIDE DEF f, P, T
  <2> QED BY <1>1, <2>2, FS_Surjection
<1>4. IsFiniteSet(UNION T)
  BY <1>2, <1>3, FS_UNION
<1> QED BY <1>4 DEF E

LEMMA BatchesOK ==
    ASSUME NEW out \in OutputType, LedGroup(out), NEW w \in Worker, NEW b \in Batches(w, out)
    PROVE  /\ b \in Seq(DownMessage)
           /\ \A r, own, leads : Contains(b, JobMessage(r, own, leads)) =>
                 /\ out.request = r /\ r \in Request /\ w \in Recipients(out)
                 /\ leads = TRUE => OwnerOf[out.leader] = w
<1> DEFINE entries == UNION {{o} \X (1..out.copies[o]) : o \in {x \in Obj : OwnerOf[x] = w}}
           own(e) == JobMessage(out.request, w \in out.peers, e = <<out.leader, 1>>)
<1>1. PICK s \in SetToSeqs(entries) : b = [i \in DOMAIN s |-> own(s[i])]
  BY DEF Batches
<1> DEFINE n == Cardinality(entries)
<1>2. n \in Nat
  BY EntriesFinite, FS_CardinalityType
<1>3. s \in [1..n -> entries]
  BY <1>1 DEF SetToSeqs
<1>4. \A e \in entries : OwnerOf[e[1]] = w /\ e[1] \in Sent(out)
  <2> SUFFICES ASSUME NEW o \in Obj, OwnerOf[o] = w, NEW k \in 1..out.copies[o]
               PROVE  o \in Sent(out)
    OBVIOUS
  <2>1. out.copies[o] \in Nat
    BY DEF OutputType
  <2> QED BY <2>1 DEF Sent
<1> HIDE DEF entries, n
<1>5. \A i \in 1..n : /\ out.request \in Request /\ w \in Recipients(out)
                      /\ s[i] = <<out.leader, 1>> => OwnerOf[out.leader] = w
  <2> SUFFICES ASSUME NEW i \in 1..n
               PROVE  /\ out.request \in Request /\ w \in Recipients(out)
                      /\ s[i] = <<out.leader, 1>> => OwnerOf[out.leader] = w
    OBVIOUS
  <2>1. s[i] \in entries
    BY <1>3
  <2>2. OwnerOf[s[i][1]] = w /\ Sent(out) # {} /\ w \in Recipients(out)
    BY <1>4, <2>1 DEF Recipients
  <2>3. out.request \in Request
    BY <2>2 DEF LedGroup, OutputType
  <2> QED BY <2>2, <2>3
<1>6. DOMAIN b = 1..n /\ \A i \in 1..n : b[i] = own(s[i])
  BY <1>1, <1>3
<1>7. \A i \in 1..n : b[i] \in DownMessage
  <2> SUFFICES ASSUME NEW i \in 1..n PROVE b[i] \in DownMessage
    OBVIOUS
  <2> DEFINE mine  == w \in out.peers
             leads == s[i] = <<out.leader, 1>>
  <2>1. mine \in BOOLEAN /\ leads \in BOOLEAN
    OBVIOUS
  <2>2. b[i] = JobMessage(out.request, mine, leads)
    BY <1>6
  <2> HIDE DEF mine, leads
  <2> QED BY <1>5, <2>1, <2>2, DownMessages
<1>8. b \in Seq(DownMessage) /\ Len(b) = n
  <2>1. b \in [1..n -> DownMessage]
    BY <1>1, <1>3, <1>6, <1>7
  <2> QED BY <1>2, <2>1
<1>9. ASSUME NEW r, NEW mine, NEW first, Contains(b, JobMessage(r, mine, first))
      PROVE  /\ out.request = r /\ r \in Request /\ w \in Recipients(out)
             /\ first = TRUE => OwnerOf[out.leader] = w
  <2>1. PICK i \in 1..n : b[i] = JobMessage(r, mine, first)
    BY <1>8, <1>9 DEF Contains
  <2> DEFINE leads == s[i] = <<out.leader, 1>>
             own0  == w \in out.peers
  <2>2. JobMessage(out.request, own0, leads) = JobMessage(r, mine, first)
    BY <1>6, <2>1
  <2>3. leads = TRUE => s[i] = <<out.leader, 1>>
    OBVIOUS
  <2> HIDE DEF leads, own0
  <2>4. out.request = r /\ leads = first
    BY <2>2, JobInjective
  <2> QED BY <1>5, <2>3, <2>4
<1> QED BY <1>8, <1>9

\* A REQUEST goes to the recipients only, and to lead to none but the leader.
LEMMA SendingsOK ==
    ASSUME NEW out \in OutputType, LedGroup(out), NEW w \in Worker, NEW s \in Sendings(w, out)
    PROVE  /\ s \in Seq(DownMessage)
           /\ proc[w] = "dead" => s = <<>>
           /\ \A r, own, leads : Contains(s, JobMessage(r, own, leads)) =>
                 /\ out.request = r /\ r \in Request /\ w \in Recipients(out)
                 /\ leads = TRUE => OwnerOf[out.leader] = w
<1>1. CASE proc[w] = "dead"
  <2>1. s = <<>>
    BY <1>1 DEF Sendings
  <2>2. s \in Seq(DownMessage)
    BY <2>1
  <2> QED BY <2>1, <2>2, ContainsEmpty
<1>2. CASE proc[w] # "dead"
  <2> DEFINE first == IF w \in out.disconnect THEN <<Message("DISCONNECT", NoReq)>> ELSE <<>>
             last  == IF w \in out.heartbeat THEN <<Message("HEARTBEAT", NoReq)>> ELSE <<>>
  <2>1. PICK b \in Batches(w, out) : s = first \o b \o last
    BY <1>2 DEF Sendings
  <2>2. first \in Seq(DownMessage) /\ last \in Seq(DownMessage)
    BY DownMessages
  <2>3. ASSUME NEW r, NEW own, NEW leads
        PROVE  /\ ~Contains(first, JobMessage(r, own, leads))
               /\ ~Contains(last, JobMessage(r, own, leads))
    <3> DEFINE m == JobMessage(r, own, leads)
    <3>1. Message("DISCONNECT", NoReq) # m /\ Message("HEARTBEAT", NoReq) # m
      BY JobMessages
    <3> HIDE DEF m
    <3>2. ~Contains(first, m)
      BY <3>1, ContainsOne, ContainsEmpty
    <3>3. ~Contains(last, m)
      BY <3>1, ContainsOne, ContainsEmpty
    <3> QED BY <3>2, <3>3 DEF m
  <2>4. b \in Seq(DownMessage)
    BY BatchesOK
  <2> HIDE DEF first, last
  <2>5. first \o b \in Seq(DownMessage) /\ s \in Seq(DownMessage)
    BY <2>1, <2>2, <2>4
  <2>6. \A r, own, leads : Contains(s, JobMessage(r, own, leads)) =>
           Contains(b, JobMessage(r, own, leads))
    BY <2>1, <2>2, <2>3, <2>4, <2>5, ContainsConcat
  <2> QED BY <1>2, <2>5, <2>6, BatchesOK
<1> QED BY <1>1, <1>2
-----------------------------------------------------------------------------
(***************************************************************************)
(* A turn of the broker: b is what the handler left, sent what goes out,   *)
(* and "from" the worker on whose message the turn is.                     *)
(***************************************************************************)
RepliedAfter(reply, from) ==
    [r \in Request |-> [w \in Worker |-> IF r = reply /\ w = from
                                         THEN replied[r][w] + 1 ELSE replied[r][w]]]

TurnOf(from, b, sent) ==
    LET out == EndTurn(b).out
    IN  /\ Running(broker)
        /\ broker' = [EndTurn(b) EXCEPT !.out = NoOutput]
        /\ handed' = HandedAfter(handed, out)
        /\ replied' = RepliedAfter(out.reply, from)
        /\ \A w \in Worker : sent[w] \in Sendings(w, out)
        /\ down' = [w \in Worker |-> down[w] \o sent[w]]
        /\ UNCHANGED <<proc, job, workerVars, clientVars, everyone>>

LEMMA TurnParts ==
    ASSUME NEW from, NEW outcomes, BrokerTurn(from, outcomes)
    PROVE  \E b \in outcomes : \E sent : TurnOf(from, b, sent)
<1>1. PICK end \in {EndTurn(b) : b \in outcomes} :
          /\ broker' = [end EXCEPT !.out = NoOutput]
          /\ handed' = HandedAfter(handed, end.out)
          /\ replied' = RepliedAfter(end.out.reply, from)
          /\ \E sent \in [Worker -> UNION {Sendings(w, end.out) : w \in Worker}] :
                /\ \A w \in Worker : sent[w] \in Sendings(w, end.out)
                /\ down' = [w \in Worker |-> down[w] \o sent[w]]
  BY DEF BrokerTurn, RepliedAfter
<1>2. PICK b \in outcomes : end = EndTurn(b)
  OBVIOUS
<1>3. PICK sent : /\ \A w \in Worker : sent[w] \in Sendings(w, end.out)
                  /\ down' = [w \in Worker |-> down[w] \o sent[w]]
  BY <1>1
<1>4. Running(broker) /\ UNCHANGED <<proc, job, workerVars, clientVars, everyone>>
  BY DEF BrokerTurn
<1>5. TurnOf(from, b, sent)
  BY <1>1, <1>2, <1>3, <1>4 DEF TurnOf
<1> QED BY <1>5

\* The broker with its messages out of "out" and in the channels.
LEMMA Cleared ==
    ASSUME NEW e, BrokerOK(e), NEW n, n = [e EXCEPT !.out = NoOutput]
    PROVE  /\ BrokerOK(n) /\ n.out = NoOutput /\ n.status = e.status
           /\ n.requests = e.requests /\ n.svcWaiting = e.svcWaiting
<1>1. NoOutput \in OutputType /\ LedGroup(NoOutput)
  BY NoOutputOK
<1>2. n \in BrokerType
  BY <1>1 DEF BrokerOK, BrokerType
<1>3. /\ n.out = NoOutput /\ n.status = e.status /\ n.requests = e.requests
      /\ n.workers = e.workers /\ n.waiting = e.waiting /\ n.svcWaiting = e.svcWaiting
  BY DEF BrokerOK, BrokerType
<1> QED BY <1>1, <1>2, <1>3
        DEF BrokerOK, RegisteredUnderOwner, Covers, QueuedByService

LEMMA TurnBase ==
    ASSUME SystemInv, NEW b, InOrder(b), NEW from, NEW sent, TurnOf(from, b, sent)
    PROVE  /\ BrokerOK(broker') /\ broker'.out = NoOutput /\ NoLostWakeup'
           /\ OneLeader' /\ handed' \in [Request -> Handover]
           /\ down' \in [Worker -> Seq(DownMessage)] /\ replied' \in [Request -> [Worker -> Nat]]
           /\ \A w \in Worker : proc[w] = "dead" => down'[w] = <<>>
<1> DEFINE end == EndTurn(b)
<1>1. BrokerOK(end) /\ AllQuiet(end)
  BY EndTurnOK, EndTurnInOrder DEF InOrder
<1>2. broker' = [end EXCEPT !.out = NoOutput]
  BY DEF TurnOf
<1>3. end.out \in OutputType /\ LedGroup(end.out) /\ handed' = HandedAfter(handed, end.out)
  BY <1>1 DEF TurnOf, BrokerOK, BrokerType
<1>4. /\ \A w \in Worker : sent[w] \in Sendings(w, end.out)
      /\ down' = [w \in Worker |-> down[w] \o sent[w]]
      /\ replied' = RepliedAfter(end.out.reply, from)
  BY DEF TurnOf
<1> HIDE DEF end
<1>5. /\ BrokerOK(broker') /\ broker'.out = NoOutput /\ broker'.status = end.status
      /\ broker'.requests = end.requests /\ broker'.svcWaiting = end.svcWaiting
  BY <1>1, <1>2, Cleared
<1>6. NoLostWakeup'
  BY <1>1, <1>5 DEF NoLostWakeup, AllQuiet, Quiet, Running, Entries
<1>7. OneLeader' /\ handed' \in [Request -> Handover]
  BY <1>3, HandedAfterOK DEF SystemInv, SystemTypeOK, TypeOK
<1>8. \A w \in Worker : /\ sent[w] \in Seq(DownMessage)
                        /\ proc[w] = "dead" => sent[w] = <<>>
  BY <1>3, <1>4, SendingsOK
<1>9. down \in [Worker -> Seq(DownMessage)] /\ replied \in [Request -> [Worker -> Nat]]
  BY DEF SystemInv, SystemTypeOK
<1>10. down' \in [Worker -> Seq(DownMessage)]
  BY <1>4, <1>8, <1>9
<1>11. replied' \in [Request -> [Worker -> Nat]]
  BY <1>4, <1>9 DEF RepliedAfter
<1>12. \A w \in Worker : proc[w] = "dead" => down'[w] = <<>>
  BY <1>4, <1>8 DEF SystemInv
<1> QED BY <1>5, <1>6, <1>7, <1>10, <1>11, <1>12

\* A request that is handed out was handed to nobody before.
LEMMA HandsFresh ==
    ASSUME SystemInv, NEW b, Moves(broker, b), b.out.request # NoReq
    PROVE  b.out.request \in Request /\ handed[b.out.request] = NotHanded
<1>1. PICK s \in Service : Hands(broker, b, s)
  BY DEF Moves, Keeps
<1>2. broker.requests[s] \in Seq(Request) /\ broker.requests[s] # <<>>
  BY <1>1 DEF Hands, SystemInv, BrokerOK, BrokerType
<1>3. 1 \in DOMAIN broker.requests[s] /\ Head(broker.requests[s]) = broker.requests[s][1]
  BY <1>2
<1>4. handed[broker.requests[s][1]] = Queue!NotHanded
  BY <1>3 DEF SystemInv, QueueConserved, Queue!Conservation, Queue!QueueSound
<1> QED BY <1>1, <1>2, <1>3, <1>4 DEF Hands, NotHanded, Queue!NotHanded
\* What is in the channels of the workers before and after a turn: REPLYs only
\* leave, and the one the turn answers is gone.
UpShrinks(from, reply) ==
    /\ up' \in [Worker -> Seq(UpMessage)]
    /\ \A w \in Worker, r \in Request :
          /\ Places(up'[w], Reply(r)) # {} => Places(up[w], Reply(r)) # {}
          /\ AtMostOnce(up'[w], Reply(r))
    /\ reply \in Request => /\ Places(up[from], Reply(reply)) # {}
                            /\ Places(up'[from], Reply(reply)) = {}

\* The REQUESTs on their way that say to lead, and who has nothing to reply.
ToLead(w, r) == \E own \in BOOLEAN : Contains(down[w], JobMessage(r, own, TRUE))
Silent(w, r) == ReqSvc[r] \notin everyone /\ w # handed[r].leader

LEMMA ToLeadIsAsked == \A w, r : ToLead(w, r) => Asked(w, r)
BY DEF ToLead, Asked

\* OneAnswer and OnlyLeader, in terms of the messages.
LEMMA OneAnswerNow ==
    ASSUME SystemInv, NEW w \in Worker, NEW r \in Request
    PROVE  /\ replied[r][w] \in Nat /\ replied[r][w] <= 1
           /\ Asked(w, r) => w \in handed[r].to
           /\ Works(w, r) => w \in handed[r].to
           /\ replied[r][w] > 0 => w \in handed[r].to
           /\ Places(up[w], Reply(r)) # {} => w \in handed[r].to /\ replied[r][w] = 0
           /\ (Asked(w, r) /\ proc[w] = "idle") \/ Works(w, r) =>
                 replied[r][w] = 0 /\ Places(up[w], Reply(r)) = {}
           /\ AtMostOnce(up[w], Reply(r))
           /\ Silent(w, r) =>
                 /\ ~ToLead(w, r) /\ ~(Works(w, r) /\ lead[w])
                 /\ Places(up[w], Reply(r)) = {} /\ replied[r][w] = 0
<1>1. OneAnswer(w, r) /\ OnlyLeader(w, r) /\ Answers(w, r) = Places(up[w], Reply(r))
  BY AnswersAreReplies DEF SystemInv
<1>2. replied[r][w] \in Nat
  BY DEF SystemInv, SystemTypeOK
<1>3. /\ replied[r][w] <= 1
      /\ Asked(w, r) => w \in handed[r].to
      /\ Works(w, r) => w \in handed[r].to
      /\ replied[r][w] > 0 => w \in handed[r].to
      /\ Places(up[w], Reply(r)) # {} => w \in handed[r].to /\ replied[r][w] = 0
      /\ (Asked(w, r) /\ proc[w] = "idle") \/ Works(w, r) =>
            replied[r][w] = 0 /\ Places(up[w], Reply(r)) = {}
  BY <1>1 DEF OneAnswer
<1>4. AtMostOnce(up[w], Reply(r))
  BY <1>1 DEF OneAnswer, AtMostOnce
<1>5. Silent(w, r) => /\ ~ToLead(w, r) /\ ~(Works(w, r) /\ lead[w])
                      /\ Places(up[w], Reply(r)) = {} /\ replied[r][w] = 0
  BY <1>1 DEF OnlyLeader, Silent, ToLead
<1> QED BY <1>2, <1>3, <1>4, <1>5

LEMMA OneAnswerNext ==
    ASSUME NEW w \in Worker, NEW r \in Request, replied'[r][w] <= 1,
           Asked(w, r)' => w \in handed'[r].to,
           Works(w, r)' => w \in handed'[r].to,
           replied'[r][w] > 0 => w \in handed'[r].to,
           Places(up'[w], Reply(r)) # {} => w \in handed'[r].to /\ replied'[r][w] = 0,
           (Asked(w, r)' /\ proc'[w] = "idle") \/ Works(w, r)' =>
                 replied'[r][w] = 0 /\ Places(up'[w], Reply(r)) = {},
           AtMostOnce(up'[w], Reply(r)),
           Silent(w, r)' =>
                 /\ ~ToLead(w, r)' /\ ~(Works(w, r)' /\ lead'[w])
                 /\ Places(up'[w], Reply(r)) = {} /\ replied'[r][w] = 0
    PROVE  OneAnswer(w, r)' /\ OnlyLeader(w, r)'
BY AnswersAreRepliesNext DEF OneAnswer, OnlyLeader, AtMostOnce, Silent, ToLead

LEMMA TurnAsks ==
    ASSUME SystemInv, NEW b, InOrder(b), NEW from, NEW sent, TurnOf(from, b, sent),
           NEW w \in Worker, NEW r, NEW own, NEW leads,
           Contains(down'[w], JobMessage(r, own, leads)),
           ~Contains(down[w], JobMessage(r, own, leads))
    PROVE  /\ b.out.request = r /\ w \in Recipients(b.out)
           /\ leads = TRUE => OwnerOf[b.out.leader] = w
<1> DEFINE out == EndTurn(b).out
<1>1. out \in OutputType /\ LedGroup(out)
  BY EndTurnOK DEF InOrder, BrokerOK, BrokerType
<1>2. sent[w] \in Sendings(w, out) /\ down'[w] = down[w] \o sent[w]
  BY DEF TurnOf
<1>3. /\ out.request = b.out.request /\ out.leader = b.out.leader
      /\ Recipients(out) = Recipients(b.out)
  BY EndTurnMoves DEF InOrder, Recipients, Sent
<1> HIDE DEF out
<1>4. sent[w] \in Seq(DownMessage) /\ down[w] \in Seq(DownMessage)
  BY <1>1, <1>2, SendingsOK DEF SystemInv, SystemTypeOK
<1>5. Contains(sent[w], JobMessage(r, own, leads))
  BY <1>2, <1>4, ContainsConcat
<1>6. /\ out.request = r /\ w \in Recipients(out)
      /\ leads = TRUE => OwnerOf[out.leader] = w
  BY <1>1, <1>2, <1>5, SendingsOK
<1> QED BY <1>3, <1>6

\* A turn hands the right to reply to the group, or uses one up.
LEMMA TurnKeepsOneAnswer ==
    ASSUME SystemInv, NEW b, InOrder(b), NEW from, NEW sent, TurnOf(from, b, sent),
           UpShrinks(from, b.out.reply),
           b.out.request # NoReq =>
               b.out.request \in Request /\ handed[b.out.request] = NotHanded,
           NEW w \in Worker, NEW r \in Request
    PROVE  OneAnswer(w, r)' /\ OnlyLeader(w, r)'
<1>1. /\ replied[r][w] \in Nat /\ replied[r][w] <= 1
      /\ Asked(w, r) => w \in handed[r].to
      /\ Works(w, r) => w \in handed[r].to
      /\ replied[r][w] > 0 => w \in handed[r].to
      /\ Places(up[w], Reply(r)) # {} => w \in handed[r].to /\ replied[r][w] = 0
      /\ (Asked(w, r) /\ proc[w] = "idle") \/ Works(w, r) =>
            replied[r][w] = 0 /\ Places(up[w], Reply(r)) = {}
      /\ Silent(w, r) =>
            /\ ~ToLead(w, r) /\ ~(Works(w, r) /\ lead[w])
            /\ Places(up[w], Reply(r)) = {} /\ replied[r][w] = 0
  BY OneAnswerNow
<1>2. /\ EndTurn(b).out.request = b.out.request /\ EndTurn(b).out.reply = b.out.reply
      /\ EndTurn(b).out.leader = b.out.leader
      /\ Recipients(EndTurn(b).out) = Recipients(b.out)
  BY EndTurnMoves DEF InOrder, Recipients, Sent
<1>3. replied'[r][w] = IF r = b.out.reply /\ w = from THEN replied[r][w] + 1 ELSE replied[r][w]
  BY <1>2 DEF TurnOf, RepliedAfter
<1>4. /\ proc'[w] = proc[w] /\ lead'[w] = lead[w] /\ everyone' = everyone
      /\ Works(w, r)' <=> Works(w, r)
  BY DEF TurnOf, workerVars, Works
<1>5. Asked(w, r)' => Asked(w, r) \/ (b.out.request = r /\ w \in Recipients(b.out))
  BY TurnAsks DEF Asked
<1>6. ToLead(w, r)' => ToLead(w, r) \/ (b.out.request = r /\ OwnerOf[b.out.leader] = w)
  BY TurnAsks DEF ToLead
<1>7. /\ Places(up'[w], Reply(r)) # {} => Places(up[w], Reply(r)) # {}
      /\ AtMostOnce(up'[w], Reply(r))
  BY DEF UpShrinks
<1>8. r = b.out.reply /\ w = from => /\ Places(up[w], Reply(r)) # {}
                                    /\ Places(up'[w], Reply(r)) = {}
  BY DEF UpShrinks
<1>9. /\ r # b.out.request => handed'[r] = handed[r]
      /\ r = b.out.request => /\ handed'[r].leader = OwnerOf[b.out.leader]
                              /\ handed'[r].to = Recipients(b.out)
  BY <1>2, BrokerAssumption DEF TurnOf, HandedAfter, SystemInv, SystemTypeOK, TypeOK
<1>10. r = b.out.request => handed[r].to = {} /\ handed[r].leader # w
  BY BrokerAssumption DEF NotHanded
<1>11. r = b.out.reply /\ w = from => r # b.out.request
  BY <1>1, <1>8, <1>10
<1>12. Silent(w, r)' => Silent(w, r)
  BY <1>4, <1>9, <1>10 DEF Silent
<1>13. Silent(w, r)' =>
          /\ ~ToLead(w, r)' /\ ~(Works(w, r)' /\ lead'[w])
          /\ Places(up'[w], Reply(r)) = {} /\ replied'[r][w] = 0
  <2>1. Silent(w, r)' /\ r = b.out.request => OwnerOf[b.out.leader] # w
    BY <1>9 DEF Silent
  <2> QED BY <1>1, <1>3, <1>4, <1>6, <1>7, <1>8, <1>12, <2>1
<1>14. CASE r = b.out.reply /\ w = from
  <2>1. /\ replied'[r][w] = 1 /\ w \in handed'[r].to /\ Places(up'[w], Reply(r)) = {}
        /\ ~Works(w, r)' /\ ~(Asked(w, r)' /\ proc'[w] = "idle")
    BY <1>1, <1>3, <1>4, <1>5, <1>8, <1>9, <1>11, <1>14
  <2> QED BY <1>7, <1>13, <2>1, OneAnswerNext
<1>15. CASE ~(r = b.out.reply /\ w = from) /\ r = b.out.request
  <2>1. /\ replied'[r][w] = 0 /\ Places(up'[w], Reply(r)) = {} /\ ~Works(w, r)'
        /\ Asked(w, r)' => w \in handed'[r].to
    BY <1>1, <1>3, <1>4, <1>5, <1>7, <1>9, <1>10, <1>15
  <2> QED BY <1>7, <1>13, <2>1, OneAnswerNext
<1>16. CASE ~(r = b.out.reply /\ w = from) /\ r # b.out.request
  <2>1. /\ replied'[r][w] = replied[r][w] /\ handed'[r] = handed[r]
        /\ Asked(w, r)' => Asked(w, r)
    BY <1>3, <1>5, <1>9, <1>16
  <2> QED BY <1>1, <1>4, <1>7, <1>13, <2>1, OneAnswerNext
<1> QED BY <1>14, <1>15, <1>16

LEMMA TurnKeepsSystemInv ==
    ASSUME SystemInv, NEW b, InOrder(b), NEW from, NEW sent, TurnOf(from, b, sent),
           UpShrinks(from, b.out.reply),
           b.out.request # NoReq =>
               b.out.request \in Request /\ handed[b.out.request] = NotHanded,
           submitted' \subseteq Request, [Queue!Next]_(Queue!vars)
    PROVE  SystemInv'
<1>1. /\ BrokerOK(broker') /\ broker'.out = NoOutput /\ NoLostWakeup'
      /\ OneLeader' /\ handed' \in [Request -> Handover]
      /\ down' \in [Worker -> Seq(DownMessage)] /\ replied' \in [Request -> [Worker -> Nat]]
      /\ \A w \in Worker : proc[w] = "dead" => down'[w] = <<>>
  BY TurnBase
<1>2. UNCHANGED <<proc, job, liveness, beatDue, quiet, lead, client, overdue, everyone>>
  BY DEF TurnOf, workerVars, clientVars
<1>3. up' \in [Worker -> Seq(UpMessage)]
  BY DEF UpShrinks
<1>4. SystemTypeOK'
  BY <1>1, <1>2, <1>3 DEF SystemInv, SystemTypeOK, TypeOK, BrokerOK
<1>5. BusyHasJob'
  BY <1>2 DEF SystemInv, BusyHasJob
<1>6. QueueConserved'
  BY QueueStepConserves DEF SystemInv, QueueConserved
<1>7. \A w \in Worker, r \in Request : OneAnswer(w, r)' /\ OnlyLeader(w, r)'
  BY TurnKeepsOneAnswer
<1> QED BY <1>1, <1>2, <1>4, <1>5, <1>6, <1>7 DEF SystemInv

\* A turn on the message of a worker, or on none.
LEMMA WorkerTurn ==
    ASSUME SystemInv, NEW b, InOrder(b), Moves(broker, b), NEW from, NEW sent, TurnOf(from, b, sent),
           UpShrinks(from, b.out.reply), UNCHANGED submitted
    PROVE  SystemInv' /\ [Queue!Next]_(Queue!vars)
<1>1. BrokerOK(broker) /\ BrokerOK(b) /\ QueueConserved /\ submitted \subseteq Request
  BY DEF SystemInv, SystemTypeOK, TypeOK, InOrder
<1>2. Running(broker) /\ handed' = HandedAfter(handed, EndTurn(b).out)
  BY DEF TurnOf
<1>3. broker'.requests = EndTurn(b).requests /\ broker'.status = EndTurn(b).status
  BY EndTurnOK, Cleared DEF TurnOf, InOrder
<1>4. [Queue!Next]_(Queue!vars)
  BY <1>1, <1>2, <1>3, TurnRefines DEF QueueConserved
<1> QED BY <1>1, <1>4, HandsFresh, TurnKeepsSystemInv

LEMMA AtRest == SystemInv => BrokerOK(broker) /\ AllQuiet(broker)
BY QuietIsNoLostWakeup DEF SystemInv

\* What the handler of the message in front of a worker's channel leaves: an
\* answer to a client only if it is a REPLY.
LEMMA HandleMessageMoves ==
    ASSUME SystemInv, NEW w \in Worker, up[w] # <<>>, ~Stalled(w),
           NEW b \in HandleMessage(w, Head(up[w]))
    PROVE  /\ InOrder(b) /\ Moves(broker, b)
           /\ b.out.reply \in Request => Head(up[w]) = Reply(b.out.reply)
<1>1. BrokerOK(broker) /\ AllQuiet(broker)
  BY AtRest
<1>2. up[w] \in Seq(UpMessage)
  BY DEF SystemInv, SystemTypeOK
<1> DEFINE m == Head(up[w])
<1>3. m \in UpMessage
  BY <1>2
<1>4. NoReq \notin Request
  BY BrokerAssumption
<1>5. CASE m = Ready
  <2>1. b \in HandleReady(w)
    BY <1>5, MessagesDiffer DEF HandleMessage
  <2>2. Registered(w) \/ Unused(w) # {}
    BY <1>5, MessagesDiffer DEF Stalled
  <2> QED BY <1>1, <1>4, <2>1, <2>2, HandleReadyInOrder, HandleReadyMoves
<1>6. CASE m = Message("HEARTBEAT", NoReq)
  <2>1. b \in HandleHeartbeat(w)
    BY <1>6, MessagesDiffer DEF HandleMessage
  <2> QED BY <1>1, <1>4, <2>1, HandleHeartbeatInOrder, HandleHeartbeatMoves
<1>7. ASSUME NEW r \in Request, m = Reply(r)
      PROVE  /\ InOrder(b) /\ Moves(broker, b)
             /\ b.out.reply \in Request => m = Reply(b.out.reply)
  <2>1. b \in HandleReply(w, r)
    BY <1>7, MessagesDiffer DEF HandleMessage
  <2> QED BY <1>1, <1>4, <1>7, <2>1, HandleReplyInOrder, HandleReplyMoves
<1> QED BY <1>3, <1>5, <1>6, <1>7, MessagesDiffer

LEMMA TailShrinks ==
    ASSUME SystemInv, NEW w \in Worker, up[w] # <<>>, up' = [up EXCEPT ![w] = Tail(@)],
           NEW reply, reply \in Request => Head(up[w]) = Reply(reply)
    PROVE  UpShrinks(w, reply)
<1>1. /\ up \in [Worker -> Seq(UpMessage)]
      /\ \A v \in Worker, r \in Request : AtMostOnce(up[v], Reply(r))
  BY OneAnswerNow DEF SystemInv, SystemTypeOK
<1>2. up'[w] = Tail(up[w]) /\ \A v \in Worker \ {w} : up'[v] = up[v]
  BY <1>1
<1>3. ASSUME NEW r \in Request
      PROVE  /\ Tail(up[w]) \in Seq(UpMessage)
             /\ Places(Tail(up[w]), Reply(r)) # {} => Places(up[w], Reply(r)) # {}
             /\ AtMostOnce(Tail(up[w]), Reply(r))
             /\ Head(up[w]) = Reply(r) => /\ Places(up[w], Reply(r)) # {}
                                          /\ Places(Tail(up[w]), Reply(r)) = {}
  BY <1>1, TailPlaces
<1>4. up' \in [Worker -> Seq(UpMessage)]
  BY <1>1
<1>5. \A v \in Worker, r \in Request :
         /\ Places(up'[v], Reply(r)) # {} => Places(up[v], Reply(r)) # {}
         /\ AtMostOnce(up'[v], Reply(r))
  BY <1>1, <1>2, <1>3
<1>6. reply \in Request => /\ Places(up[w], Reply(reply)) # {}
                          /\ Places(up'[w], Reply(reply)) = {}
  BY <1>2, <1>3
<1> QED BY <1>4, <1>5, <1>6 DEF UpShrinks

LEMMA SameUpShrinks ==
    ASSUME SystemInv, UNCHANGED up, NEW from, NEW reply, reply \notin Request
    PROVE  UpShrinks(from, reply)
BY OneAnswerNow DEF UpShrinks, SystemInv, SystemTypeOK

LEMMA TakeUpStep ==
    ASSUME SystemInv, NEW w \in Worker, TakeUp(w)
    PROVE  SystemInv' /\ [Queue!Next]_(Queue!vars)
<1>1. PICK b \in HandleMessage(w, Head(up[w])) : \E sent : TurnOf(w, b, sent)
  BY TurnParts DEF TakeUp
<1>2. PICK sent : TurnOf(w, b, sent)
  BY <1>1
<1>3. up[w] # <<>> /\ ~Stalled(w) /\ UNCHANGED submitted /\ up' = [up EXCEPT ![w] = Tail(@)]
  BY DEF TakeUp
<1>4. /\ InOrder(b) /\ Moves(broker, b)
      /\ b.out.reply \in Request => Head(up[w]) = Reply(b.out.reply)
  BY <1>3, HandleMessageMoves
<1>5. UpShrinks(w, b.out.reply)
  BY <1>3, <1>4, TailShrinks
<1> QED BY <1>2, <1>3, <1>4, <1>5, WorkerTurn

LEMMA TakeNothingStep ==
    ASSUME SystemInv, TakeNothing
    PROVE  SystemInv' /\ [Queue!Next]_(Queue!vars)
<1>1. PICK sent : TurnOf(NoWorker, Begin, sent)
  BY TurnParts DEF TakeNothing
<1>2. InOrder(Begin) /\ Moves(broker, Begin) /\ Begin.out.reply \notin Request
  BY AtRest, BeginInOrder, BeginMoves, BrokerAssumption DEF Moves
<1>3. UpShrinks(NoWorker, Begin.out.reply) /\ UNCHANGED submitted
  BY <1>2, SameUpShrinks DEF TakeNothing
<1> QED BY <1>1, <1>2, <1>3, WorkerTurn

LEMMA TakeRequestStep ==
    ASSUME SystemInv, NEW r \in Request, TakeRequest(r)
    PROVE  SystemInv' /\ [Queue!Next]_(Queue!vars)
<1>1. PICK b \in HandleClient(r) : \E sent : TurnOf(NoWorker, b, sent)
  BY TurnParts DEF TakeRequest
<1>2. PICK sent : TurnOf(NoWorker, b, sent)
  BY <1>1
<1>3. /\ r \notin submitted /\ submitted' = submitted \cup {r} /\ UNCHANGED up
      /\ submitted \subseteq Request
  BY DEF TakeRequest, SystemInv, SystemTypeOK, TypeOK
<1>4. BrokerOK(broker) /\ AllQuiet(broker) /\ Running(broker) /\ Queue!Conservation
  BY <1>2, AtRest DEF TurnOf, SystemInv, QueueConserved
<1>5. InOrder(b) /\ BrokerOK(b)
  BY <1>4, HandleClientInOrder DEF InOrder
<1>6. b.out.reply \notin Request /\ b.out.request \in {r, NoReq}
  BY <1>4, HandleClientMoves, BrokerAssumption
<1>7. handed[r] = NotHanded
  BY <1>3, <1>4 DEF Queue!Conservation, Queue!QueueComplete, Queue!NotHanded, NotHanded
<1>8. broker'.requests = EndTurn(b).requests /\ broker'.status = EndTurn(b).status
  BY <1>2, <1>5, EndTurnOK, Cleared DEF TurnOf
<1>9. handed' = HandedAfter(handed, EndTurn(b).out)
  BY <1>2 DEF TurnOf
<1>10. Queue!Next
  BY <1>3, <1>4, <1>8, <1>9, ClientTurnRefines
<1>11. UpShrinks(NoWorker, b.out.reply)
  BY <1>3, <1>6, SameUpShrinks
<1>12. submitted' \subseteq Request
  BY <1>3
<1> QED BY <1>2, <1>5, <1>6, <1>7, <1>10, <1>11, <1>12, TurnKeepsSystemInv
-----------------------------------------------------------------------------
(***************************************************************************)
(* A step of one worker: it moves the right to reply towards the broker,   *)
(* or loses it.                                                            *)
(***************************************************************************)
UpKept(w) ==
    /\ up' \in [Worker -> Seq(UpMessage)]
    /\ \A v \in Worker \ {w} : up'[v] = up[v]
    /\ \A r \in Request : Places(up'[w], Reply(r)) \subseteq Places(up[w], Reply(r))

DownKept(w) ==
    /\ down' \in [Worker -> Seq(DownMessage)]
    /\ \A v \in Worker \ {w} : down'[v] = down[v]
    /\ \A r : Asked(w, r)' => Asked(w, r)
    /\ \A r : ToLead(w, r)' => ToLead(w, r)
    /\ proc'[w] = "dead" => down'[w] = <<>>

\* The types of what a worker changes besides its channels.
WorkerTyped ==
    /\ proc \in [Worker -> ProcState]
    /\ job \in [Worker -> Request \cup {NoReq}]
    /\ liveness \in [Worker -> 0..Liveness]
    /\ beatDue \in [Worker -> BOOLEAN]
    /\ quiet \in [Worker -> BOOLEAN]
    /\ lead \in [Worker -> BOOLEAN]

OthersKept(w) ==
    \A v \in Worker \ {w} : proc'[v] = proc[v] /\ job'[v] = job[v] /\ lead'[v] = lead[v]

\* Work is not begun without having been asked, nor led without having been told.
WorkKept(w) ==
    \A r \in Request :
        /\ Works(w, r)' => Works(w, r) \/ (Asked(w, r) /\ proc[w] = "idle")
        /\ Works(w, r)' /\ lead'[w] => (Works(w, r) /\ lead[w]) \/ ToLead(w, r)

LEMMA OthersOneAnswer ==
    ASSUME SystemInv, NEW w \in Worker, ownUnchanged, OthersKept(w),
           NEW v \in Worker \ {w}, up'[v] = up[v], down'[v] = down[v], NEW r \in Request
    PROVE  OneAnswer(v, r)' /\ OnlyLeader(v, r)'
<1>1. UNCHANGED <<handed, replied, everyone>>
  BY DEF ownUnchanged
<1>2. /\ Asked(v, r)' <=> Asked(v, r)
      /\ ToLead(v, r)' <=> ToLead(v, r)
      /\ Works(v, r)' <=> Works(v, r)
      /\ Silent(v, r)' <=> Silent(v, r)
      /\ proc'[v] = proc[v] /\ lead'[v] = lead[v]
  BY <1>1 DEF OthersKept, Asked, ToLead, Works, Silent
<1> QED BY <1>1, <1>2, OneAnswerNow, OneAnswerNext

LEMMA WorkerOneAnswer ==
    ASSUME SystemInv, NEW w \in Worker, ownUnchanged, DownKept(w), WorkKept(w),
           NEW r \in Request,
           Asked(w, r)' /\ proc'[w] = "idle" => proc[w] = "idle",
           \/ Places(up'[w], Reply(r)) \subseteq Places(up[w], Reply(r))
           \/ /\ Works(w, r) /\ ~Works(w, r)' /\ proc'[w] # "idle"
              /\ AtMostOnce(up'[w], Reply(r))
              /\ lead[w] \/ ReqSvc[r] \in everyone
    PROVE  OneAnswer(w, r)' /\ OnlyLeader(w, r)'
<1>1. /\ replied[r][w] <= 1
      /\ Asked(w, r) => w \in handed[r].to
      /\ Works(w, r) => w \in handed[r].to
      /\ replied[r][w] > 0 => w \in handed[r].to
      /\ Places(up[w], Reply(r)) # {} => w \in handed[r].to /\ replied[r][w] = 0
      /\ (Asked(w, r) /\ proc[w] = "idle") \/ Works(w, r) =>
            replied[r][w] = 0 /\ Places(up[w], Reply(r)) = {}
      /\ AtMostOnce(up[w], Reply(r))
      /\ Silent(w, r) =>
            /\ ~ToLead(w, r) /\ ~(Works(w, r) /\ lead[w])
            /\ Places(up[w], Reply(r)) = {} /\ replied[r][w] = 0
  BY OneAnswerNow
<1>2. UNCHANGED <<handed, replied, everyone>>
  BY DEF ownUnchanged
<1>3. /\ Asked(w, r)' => Asked(w, r)
      /\ ToLead(w, r)' => ToLead(w, r)
      /\ Works(w, r)' => Works(w, r) \/ (Asked(w, r) /\ proc[w] = "idle")
      /\ Works(w, r)' /\ lead'[w] => (Works(w, r) /\ lead[w]) \/ ToLead(w, r)
      /\ Silent(w, r)' <=> Silent(w, r)
  BY <1>2 DEF DownKept, WorkKept, Silent
<1>4. AtMostOnce(up'[w], Reply(r))
  BY <1>1 DEF AtMostOnce
<1>5. CASE Places(up'[w], Reply(r)) \subseteq Places(up[w], Reply(r))
  <2>1. Places(up[w], Reply(r)) = {} => Places(up'[w], Reply(r)) = {}
    BY <1>5
  <2> QED BY <1>1, <1>2, <1>3, <1>4, <2>1, OneAnswerNext
<1>6. CASE /\ Works(w, r) /\ ~Works(w, r)' /\ proc'[w] # "idle"
           /\ lead[w] \/ ReqSvc[r] \in everyone
  <2>1. ~Silent(w, r) /\ w \in handed[r].to /\ replied[r][w] = 0
    BY <1>1, <1>6 DEF Silent
  <2> QED BY <1>2, <1>3, <1>4, <1>6, <2>1, OneAnswerNext
<1> QED BY <1>5, <1>6

LEMMA OwnUnchangedQueue == ownUnchanged => UNCHANGED Queue!vars
BY DEF ownUnchanged, Queue!vars, Running

LEMMA WorkerKeeps ==
    ASSUME SystemInv, NEW w \in Worker, ownUnchanged, WorkerTyped', OthersKept(w), DownKept(w),
           up' \in [Worker -> Seq(UpMessage)], \A v \in Worker \ {w} : up'[v] = up[v],
           proc'[w] = "busy" => job'[w] \in Request,
           \A r \in Request : OneAnswer(w, r)' /\ OnlyLeader(w, r)'
    PROVE  SystemInv' /\ [Queue!Next]_(Queue!vars)
<1>1. UNCHANGED Queue!vars
  BY OwnUnchangedQueue
<1>2. QueueConserved'
  BY <1>1, QueueStepConserves DEF SystemInv, QueueConserved
<1>3. UNCHANGED <<broker, submitted, handed, client, overdue, replied, everyone>>
  BY DEF ownUnchanged, clientVars
<1>4. SystemTypeOK'
  BY <1>3 DEF SystemInv, SystemTypeOK, TypeOK, WorkerTyped, DownKept
<1>5. BusyHasJob'
  BY DEF SystemInv, BusyHasJob, OthersKept
<1>6. \A v \in Worker : proc'[v] = "dead" => down'[v] = <<>>
  BY DEF SystemInv, OthersKept, DownKept
<1>7. (BrokerOK(broker) /\ broker.out = NoOutput /\ OneLeader /\ NoLostWakeup)'
  BY <1>3 DEF SystemInv, OneLeader, NoLostWakeup, Running, Entries
<1>8. \A v \in Worker, r \in Request : OneAnswer(v, r)' /\ OnlyLeader(v, r)'
  BY OthersOneAnswer DEF DownKept
<1> QED BY <1>1, <1>2, <1>4, <1>5, <1>6, <1>7, <1>8 DEF SystemInv

\* The usual step: no REPLY is sent.
LEMMA QuietWorkerKeeps ==
    ASSUME SystemInv, NEW w \in Worker, ownUnchanged, WorkerTyped', OthersKept(w),
           UpKept(w), DownKept(w), WorkKept(w),
           proc'[w] = "busy" => job'[w] \in Request,
           \A r \in Request : proc'[w] = "idle" /\ Asked(w, r)' => proc[w] = "idle"
    PROVE  SystemInv' /\ [Queue!Next]_(Queue!vars)
<1>1. \A r \in Request : OneAnswer(w, r)' /\ OnlyLeader(w, r)'
  BY WorkerOneAnswer DEF UpKept
<1> QED BY <1>1, WorkerKeeps DEF UpKept

LEMMA WorkerTypedNow == SystemInv => WorkerTyped
BY DEF SystemInv, SystemTypeOK, TypeOK, WorkerTyped
\* What the channels are, before.
LEMMA Channels ==
    ASSUME SystemInv
    PROVE  /\ up \in [Worker -> Seq(UpMessage)] /\ down \in [Worker -> Seq(DownMessage)]
           /\ proc \in [Worker -> ProcState] /\ job \in [Worker -> Request \cup {NoReq}]
           /\ Liveness \in 0..Liveness
BY MajordomoAssumption DEF SystemInv, SystemTypeOK, TypeOK

LEMMA KeptPlaces ==
    ASSUME SystemInv, NEW w \in Worker, NEW kept \in Kept(w)
    PROVE  /\ kept \in Seq(UpMessage)
           /\ \A r : Places(kept, Reply(r)) \subseteq Places(up[w], Reply(r))
<1>1. PICK n \in 0..Len(up[w]) : kept = SubSeq(up[w], 1, n)
  BY DEF Kept
<1>2. up[w] \in Seq(UpMessage)
  BY Channels
<1> QED BY <1>1, <1>2, PrefixPlaces

LEMMA UpKeptBy ==
    ASSUME SystemInv, NEW w \in Worker, NEW q \in Seq(UpMessage),
           up' = [up EXCEPT ![w] = q],
           \A r \in Request : Places(q, Reply(r)) \subseteq Places(up[w], Reply(r))
    PROVE  UpKept(w)
BY Channels DEF UpKept

LEMMA AppendKeeps ==
    ASSUME NEW q \in Seq(UpMessage), NEW x \in {Ready, Message("HEARTBEAT", NoReq)}
    PROVE  /\ Append(q, x) \in Seq(UpMessage)
           /\ \A r : Places(Append(q, x), Reply(r)) = Places(q, Reply(r))
<1>1. x \in UpMessage /\ \A r : x # Reply(r)
  BY MessagesDiffer
<1> QED BY <1>1, AppendPlaces

\* A socket that is closed: what was on its way to w is gone.
LEMMA DownEmptied ==
    ASSUME SystemInv, NEW w \in Worker, down' = [down EXCEPT ![w] = <<>>]
    PROVE  DownKept(w) /\ \A r : ~Asked(w, r)'
<1>1. /\ down' \in [Worker -> Seq(DownMessage)] /\ down'[w] = <<>>
      /\ \A v \in Worker \ {w} : down'[v] = down[v]
  BY Channels
<1>2. \A r : ~Asked(w, r)' /\ ~ToLead(w, r)'
  BY <1>1, ContainsEmpty DEF Asked, ToLead
<1> QED BY <1>1, <1>2 DEF DownKept

LEMMA DownTail ==
    ASSUME SystemInv, NEW w \in Worker, down[w] # <<>>, down' = [down EXCEPT ![w] = Tail(@)],
           proc'[w] # "dead"
    PROVE  DownKept(w)
<1>1. /\ down[w] \in Seq(DownMessage) /\ Tail(down[w]) \in Seq(DownMessage)
      /\ down' \in [Worker -> Seq(DownMessage)] /\ down'[w] = Tail(down[w])
      /\ \A v \in Worker \ {w} : down'[v] = down[v]
  BY Channels
<1>2. \A m : Contains(down'[w], m) => Contains(down[w], m)
  BY <1>1, ContainsTail
<1> QED BY <1>1, <1>2 DEF DownKept, Asked, ToLead

LEMMA ReconnectKeeps ==
    ASSUME SystemInv, NEW w \in Worker, Reconnect(w)
    PROVE  /\ UpKept(w) /\ DownKept(w) /\ \A r : ~Asked(w, r)'
           /\ liveness' \in [Worker -> 0..Liveness] /\ beatDue' \in [Worker -> BOOLEAN]
<1>1. PICK kept \in Kept(w) : up' = [up EXCEPT ![w] = Append(kept, Ready)]
  BY DEF Reconnect
<1>2. /\ Append(kept, Ready) \in Seq(UpMessage)
      /\ \A r : Places(Append(kept, Ready), Reply(r)) \subseteq Places(up[w], Reply(r))
  BY KeptPlaces, AppendKeeps
<1>3. UpKept(w)
  BY <1>1, <1>2, UpKeptBy
<1>4. DownKept(w) /\ \A r : ~Asked(w, r)'
  BY DownEmptied DEF Reconnect
<1>5. liveness' \in [Worker -> 0..Liveness] /\ beatDue' \in [Worker -> BOOLEAN]
  BY Channels DEF Reconnect, SystemInv, SystemTypeOK
<1> QED BY <1>3, <1>4, <1>5

LEMMA UpSame == ASSUME SystemInv, UNCHANGED up, NEW w \in Worker PROVE UpKept(w)
BY Channels DEF UpKept

LEMMA BeatKeeps ==
    ASSUME SystemInv, NEW w \in Worker, Beat(w)
    PROVE  UpKept(w) /\ beatDue' \in [Worker -> BOOLEAN]
<1>1. CASE beatDue[w]
  <2>1. up' = [up EXCEPT ![w] = Append(up[w], Message("HEARTBEAT", NoReq))]
    BY <1>1 DEF Beat
  <2>2. up[w] \in Seq(UpMessage)
    BY Channels
  <2>3. /\ Append(up[w], Message("HEARTBEAT", NoReq)) \in Seq(UpMessage)
        /\ \A r : Places(Append(up[w], Message("HEARTBEAT", NoReq)), Reply(r))
                     = Places(up[w], Reply(r))
    BY <2>2, AppendKeeps
  <2>4. UpKept(w)
    BY <2>1, <2>3, UpKeptBy
  <2> QED BY <2>4 DEF Beat, SystemInv, SystemTypeOK
<1>2. CASE ~beatDue[w]
  BY <1>2, UpSame DEF Beat, SystemInv, SystemTypeOK
<1> QED BY <1>1, <1>2

LEMMA EndKeeps ==
    ASSUME SystemInv, NEW w \in Worker, End(w)
    PROVE  /\ UpKept(w) /\ DownKept(w) /\ proc'[w] = "dead"
           /\ proc' \in [Worker -> ProcState] /\ job' \in [Worker -> Request \cup {NoReq}]
           /\ \A v \in Worker \ {w} : proc'[v] = proc[v] /\ job'[v] = job[v]
           /\ WorkKept(w)
<1>1. PICK kept \in Kept(w) : up' = [up EXCEPT ![w] = kept]
  BY DEF End
<1>2. UpKept(w)
  BY <1>1, KeptPlaces, UpKeptBy
<1>3. DownKept(w)
  BY DownEmptied DEF End
<1>4. /\ proc' \in [Worker -> ProcState] /\ job' \in [Worker -> Request \cup {NoReq}]
      /\ proc'[w] = "dead"
      /\ \A v \in Worker \ {w} : proc'[v] = proc[v] /\ job'[v] = job[v]
  BY Channels DEF End, ProcState
<1> QED BY <1>2, <1>3, <1>4 DEF Works, WorkKept
LEMMA SameWorker ==
    ASSUME SystemInv, NEW w \in Worker, UNCHANGED <<proc, job, lead>>
    PROVE  /\ OthersKept(w) /\ proc'[w] = proc[w]
           /\ proc'[w] = "busy" => job'[w] \in Request
           /\ WorkKept(w)
BY DEF SystemInv, BusyHasJob, OthersKept, WorkKept, Works

LEMMA TakeHeartbeatStep ==
    ASSUME SystemInv, NEW w \in Worker, TakeHeartbeat(w)
    PROVE  SystemInv' /\ [Queue!Next]_(Queue!vars)
<1>1. /\ Polling(w) /\ down[w] # <<>> /\ ownUnchanged /\ Beat(w)
      /\ UNCHANGED <<proc, job, lead>> /\ quiet' = [quiet EXCEPT ![w] = FALSE]
      /\ liveness' = [liveness EXCEPT ![w] = Liveness]
      /\ down' = [down EXCEPT ![w] = Tail(@)]
  BY DEF TakeHeartbeat, Receives
<1>2. /\ OthersKept(w) /\ proc'[w] = proc[w] /\ proc'[w] # "dead"
      /\ proc'[w] = "busy" => job'[w] \in Request
      /\ WorkKept(w)
  BY <1>1, SameWorker DEF Polling
<1>3. UpKept(w) /\ beatDue' \in [Worker -> BOOLEAN]
  BY <1>1, BeatKeeps
<1>4. DownKept(w)
  BY <1>1, <1>2, DownTail
<1>5. WorkerTyped'
  BY <1>1, <1>3, WorkerTypedNow, Channels DEF WorkerTyped
<1> QED BY <1>1, <1>2, <1>3, <1>4, <1>5, QuietWorkerKeeps

LEMMA TakeDisconnectStep ==
    ASSUME SystemInv, NEW w \in Worker, TakeDisconnect(w)
    PROVE  SystemInv' /\ [Queue!Next]_(Queue!vars)
<1>1. /\ ownUnchanged /\ Reconnect(w) /\ UNCHANGED <<proc, job, lead>>
      /\ quiet' = [quiet EXCEPT ![w] = FALSE]
  BY DEF TakeDisconnect, Receives
<1>2. /\ OthersKept(w) /\ proc'[w] = proc[w]
      /\ proc'[w] = "busy" => job'[w] \in Request
      /\ WorkKept(w)
  BY <1>1, SameWorker
<1>3. /\ UpKept(w) /\ DownKept(w)
      /\ liveness' \in [Worker -> 0..Liveness] /\ beatDue' \in [Worker -> BOOLEAN]
  BY <1>1, ReconnectKeeps
<1>4. WorkerTyped'
  BY <1>1, <1>3, WorkerTypedNow DEF WorkerTyped
<1> QED BY <1>1, <1>2, <1>3, <1>4, QuietWorkerKeeps

LEMMA WakeStep ==
    ASSUME SystemInv, NEW w \in Worker, Wake(w)
    PROVE  SystemInv' /\ [Queue!Next]_(Queue!vars)
<1>1. /\ ownUnchanged /\ Reconnect(w) /\ UNCHANGED <<proc, job, lead>>
      /\ quiet' = [quiet EXCEPT ![w] = FALSE]
  BY DEF Wake
<1>2. /\ OthersKept(w) /\ proc'[w] = proc[w]
      /\ proc'[w] = "busy" => job'[w] \in Request
      /\ WorkKept(w)
  BY <1>1, SameWorker
<1>3. /\ UpKept(w) /\ DownKept(w)
      /\ liveness' \in [Worker -> 0..Liveness] /\ beatDue' \in [Worker -> BOOLEAN]
  BY <1>1, ReconnectKeeps
<1>4. WorkerTyped'
  BY <1>1, <1>3, WorkerTypedNow DEF WorkerTyped
<1> QED BY <1>1, <1>2, <1>3, <1>4, QuietWorkerKeeps

LEMMA PollEndsStep ==
    ASSUME SystemInv, NEW w \in Worker, PollEnds(w)
    PROVE  SystemInv' /\ [Queue!Next]_(Queue!vars)
<1>1. /\ Polling(w) /\ ~Asleep(w) /\ ownUnchanged /\ UNCHANGED <<proc, job, down, lead>>
      /\ quiet' = [quiet EXCEPT ![w] = FALSE]
      /\ liveness' = [liveness EXCEPT ![w] = @ - 1]
      /\ IF liveness[w] = 1 THEN UNCHANGED <<up, beatDue>> ELSE Beat(w)
  BY DEF PollEnds
<1>2. /\ OthersKept(w) /\ proc'[w] = proc[w] /\ proc'[w] # "dead"
      /\ proc'[w] = "busy" => job'[w] \in Request
      /\ WorkKept(w)
  BY <1>1, SameWorker DEF Polling
<1>3. UpKept(w) /\ beatDue' \in [Worker -> BOOLEAN]
  BY <1>1, UpSame, BeatKeeps, WorkerTypedNow DEF WorkerTyped
<1>4. DownKept(w)
  BY <1>1, <1>2, Channels DEF DownKept, Asked, ToLead
<1>5. liveness' \in [Worker -> 0..Liveness]
  <2>1. liveness \in [Worker -> 0..Liveness] /\ Liveness \in Nat /\ liveness[w] # 0
    BY <1>1, MajordomoAssumption DEF SystemInv, SystemTypeOK, Asleep
  <2> QED BY <1>1, <2>1
<1>6. WorkerTyped'
  BY <1>1, <1>3, <1>5, WorkerTypedNow DEF WorkerTyped
<1> QED BY <1>1, <1>2, <1>3, <1>4, <1>6, QuietWorkerKeeps

LEMMA TakeJobStep ==
    ASSUME SystemInv, NEW w \in Worker, TakeJob(w)
    PROVE  SystemInv' /\ [Queue!Next]_(Queue!vars)
<1> DEFINE m == Head(down[w])
<1>1. /\ Polling(w) /\ down[w] # <<>> /\ ownUnchanged /\ m.kind = "REQUEST"
      /\ quiet' = [quiet EXCEPT ![w] = FALSE] /\ UNCHANGED beatDue
      /\ lead' = [lead EXCEPT ![w] = m.lead]
      /\ liveness' = [liveness EXCEPT ![w] = Liveness]
      /\ IF proc[w] = "idle" /\ m.own
         THEN /\ proc' = [proc EXCEPT ![w] = "busy"]
              /\ job'  = [job EXCEPT ![w] = m.req]
              /\ down' = [down EXCEPT ![w] = Tail(@)]
              /\ UNCHANGED up
         ELSE End(w)
  BY DEF TakeJob, Receives
<1>2. down[w] \in Seq(DownMessage) /\ m \in DownMessage /\ Contains(down[w], m)
  BY <1>1, Channels, ContainsHead
<1>3. PICK x \in Request, own \in BOOLEAN, leads \in BOOLEAN : m = JobMessage(x, own, leads)
  BY <1>1, <1>2, JobMessages
<1>4. m.req = x /\ m.own = own /\ m.lead = leads
  BY <1>3, JobMessages
<1> HIDE DEF m
<1>5. /\ lead' \in [Worker -> BOOLEAN] /\ lead'[w] = leads
      /\ \A v \in Worker \ {w} : lead'[v] = lead[v]
      /\ liveness' \in [Worker -> 0..Liveness] /\ quiet' \in [Worker -> BOOLEAN]
      /\ beatDue' \in [Worker -> BOOLEAN]
  BY <1>1, <1>4, WorkerTypedNow, Channels DEF WorkerTyped
<1>6. CASE proc[w] = "idle" /\ m.own
  <2>1. /\ proc' = [proc EXCEPT ![w] = "busy"] /\ job' = [job EXCEPT ![w] = x]
        /\ down' = [down EXCEPT ![w] = Tail(@)] /\ UNCHANGED up
    BY <1>1, <1>4, <1>6
  <2>2. /\ proc' \in [Worker -> ProcState] /\ job' \in [Worker -> Request \cup {NoReq}]
        /\ proc'[w] = "busy" /\ job'[w] = x
        /\ \A v \in Worker \ {w} : proc'[v] = proc[v] /\ job'[v] = job[v]
    BY <2>1, Channels DEF ProcState
  <2>3. DownKept(w) /\ UpKept(w)
    BY <1>1, <2>1, <2>2, DownTail, UpSame
  <2>4. WorkKept(w)
    <3>1. Asked(w, x) /\ (leads => ToLead(w, x))
      BY <1>2, <1>3 DEF Asked, ToLead
    <3> QED BY <1>5, <1>6, <2>2, <3>1 DEF WorkKept, Works
  <2>5. WorkerTyped' /\ OthersKept(w)
    BY <1>5, <2>2 DEF WorkerTyped, OthersKept
  <2> QED BY <1>1, <1>6, <2>2, <2>3, <2>4, <2>5, QuietWorkerKeeps
<1>7. CASE ~(proc[w] = "idle" /\ m.own)
  <2>1. End(w)
    BY <1>1, <1>7
  <2>2. /\ UpKept(w) /\ DownKept(w) /\ proc'[w] = "dead"
        /\ proc' \in [Worker -> ProcState] /\ job' \in [Worker -> Request \cup {NoReq}]
        /\ \A v \in Worker \ {w} : proc'[v] = proc[v] /\ job'[v] = job[v]
        /\ WorkKept(w)
    BY <2>1, EndKeeps
  <2>3. WorkerTyped' /\ OthersKept(w)
    BY <1>5, <2>2 DEF WorkerTyped, OthersKept
  <2> QED BY <1>1, <2>2, <2>3, QuietWorkerKeeps
<1> QED BY <1>6, <1>7

LEMMA RecvTurnStep ==
    ASSUME SystemInv, NEW w \in Worker, RecvTurn(w)
    PROVE  SystemInv' /\ [Queue!Next]_(Queue!vars)
BY TakeHeartbeatStep, TakeDisconnectStep, TakeJobStep, PollEndsStep, WakeStep
   DEF RecvTurn

LEMMA ReturnsKeeps ==
    ASSUME SystemInv, NEW w \in Worker, UNCHANGED <<down, workerVars>>,
           proc' = [proc EXCEPT ![w] = "done"], job' = [job EXCEPT ![w] = NoReq]
    PROVE  /\ proc'[w] = "done" /\ WorkerTyped' /\ OthersKept(w) /\ DownKept(w)
           /\ WorkKept(w) /\ \A r : ~Works(w, r)'
<1>1. /\ proc' \in [Worker -> ProcState] /\ job' \in [Worker -> Request \cup {NoReq}]
      /\ proc'[w] = "done"
      /\ \A v \in Worker \ {w} : proc'[v] = proc[v] /\ job'[v] = job[v]
  BY Channels DEF ProcState
<1>2. WorkerTyped' /\ OthersKept(w)
  BY <1>1, WorkerTypedNow DEF WorkerTyped, OthersKept, workerVars
<1>3. DownKept(w) /\ WorkKept(w) /\ \A r : ~Works(w, r)'
  BY <1>1, Channels DEF DownKept, Asked, ToLead, WorkKept, Works
<1> QED BY <1>1, <1>2, <1>3

LEMMA WorkStep ==
    ASSUME SystemInv, NEW w \in Worker, Work(w)
    PROVE  SystemInv' /\ [Queue!Next]_(Queue!vars)
<1>1. /\ proc[w] = "busy" /\ ownUnchanged /\ UNCHANGED <<down, workerVars>>
      /\ proc' = [proc EXCEPT ![w] = "done"] /\ job' = [job EXCEPT ![w] = NoReq]
  BY DEF Work, Returns
<1>2. /\ proc'[w] = "done" /\ WorkerTyped' /\ OthersKept(w) /\ DownKept(w)
      /\ WorkKept(w) /\ \A r : ~Works(w, r)'
  BY <1>1, ReturnsKeeps
<1>3. CASE ~Replies(w)
  <2>1. UpKept(w)
    BY <1>3, UpSame DEF Work
  <2> QED BY <1>1, <1>2, <2>1, QuietWorkerKeeps
<1>4. CASE Replies(w)
  <2>1. job[w] \in Request /\ Works(w, job[w]) /\ up[w] \in Seq(UpMessage)
    BY <1>1, Channels DEF SystemInv, BusyHasJob, Works
  <2>2. up' = [up EXCEPT ![w] = Append(@, Reply(job[w]))] /\ Reply(job[w]) \in UpMessage
    BY <1>4, <2>1, MessagesDiffer DEF Work, Reply
  <2>3. /\ Append(up[w], Reply(job[w])) \in Seq(UpMessage)
        /\ Places(up[w], Reply(job[w])) = {} =>
              AtMostOnce(Append(up[w], Reply(job[w])), Reply(job[w]))
        /\ \A r : r # job[w] => Places(Append(up[w], Reply(job[w])), Reply(r))
                                   = Places(up[w], Reply(r))
    BY <2>1, <2>2, AppendPlaces, MessagesDiffer
  <2>4. /\ up' \in [Worker -> Seq(UpMessage)] /\ up'[w] = Append(up[w], Reply(job[w]))
        /\ \A v \in Worker \ {w} : up'[v] = up[v]
    BY <2>2, <2>3, Channels
  <2>5. Places(up[w], Reply(job[w])) = {}
    BY <2>1, OneAnswerNow
  <2>6. lead[w] \/ ReqSvc[job[w]] \in everyone
    <3>1. w \in handed[job[w]].to
      BY <2>1, OneAnswerNow
    <3>2. SvcOf[w] = ReqSvc[job[w]]
      BY <2>1, <3>1 DEF SystemInv, OneLeader, OfService
    <3> QED BY <1>4, <3>2 DEF Replies
  <2>7. ASSUME NEW r \in Request PROVE OneAnswer(w, r)' /\ OnlyLeader(w, r)'
    <3>1. \/ Places(up'[w], Reply(r)) \subseteq Places(up[w], Reply(r))
          \/ /\ Works(w, r) /\ ~Works(w, r)' /\ proc'[w] # "idle"
             /\ AtMostOnce(up'[w], Reply(r)) /\ (lead[w] \/ ReqSvc[r] \in everyone)
      BY <1>2, <2>1, <2>3, <2>4, <2>5, <2>6
    <3> QED BY <1>1, <1>2, <3>1, WorkerOneAnswer
  <2> QED BY <1>1, <1>2, <2>4, <2>7, WorkerKeeps
<1> QED BY <1>3, <1>4

LEMMA FailWorkStep ==
    ASSUME SystemInv, NEW w \in Worker, FailWork(w)
    PROVE  SystemInv' /\ [Queue!Next]_(Queue!vars)
<1>1. /\ ownUnchanged /\ UNCHANGED <<up, down, workerVars>>
      /\ proc' = [proc EXCEPT ![w] = "done"] /\ job' = [job EXCEPT ![w] = NoReq]
  BY DEF FailWork
<1>2. /\ proc'[w] = "done" /\ WorkerTyped' /\ OthersKept(w) /\ DownKept(w)
      /\ WorkKept(w)
  BY <1>1, ReturnsKeeps
<1> QED BY <1>1, <1>2, UpSame, QuietWorkerKeeps

LEMMA ExitStep ==
    ASSUME SystemInv, NEW w \in Worker, Exit(w)
    PROVE  SystemInv' /\ [Queue!Next]_(Queue!vars)
<1>1. End(w) /\ ownUnchanged /\ UNCHANGED workerVars
  BY DEF Exit
<1>2. /\ UpKept(w) /\ DownKept(w) /\ proc'[w] = "dead"
      /\ proc' \in [Worker -> ProcState] /\ job' \in [Worker -> Request \cup {NoReq}]
      /\ \A v \in Worker \ {w} : proc'[v] = proc[v] /\ job'[v] = job[v]
      /\ WorkKept(w)
  BY <1>1, EndKeeps
<1>3. WorkerTyped' /\ OthersKept(w)
  BY <1>1, <1>2, WorkerTypedNow DEF WorkerTyped, OthersKept, workerVars
<1> QED BY <1>1, <1>2, <1>3, QuietWorkerKeeps

LEMMA StartAgainStep ==
    ASSUME SystemInv, NEW w \in Worker, StartAgain(w)
    PROVE  SystemInv' /\ [Queue!Next]_(Queue!vars)
<1>1. /\ ownUnchanged /\ Reconnect(w) /\ UNCHANGED job
      /\ proc' = [proc EXCEPT ![w] = "idle"]
      /\ quiet' = [quiet EXCEPT ![w] = FALSE] /\ lead' = [lead EXCEPT ![w] = FALSE]
  BY DEF StartAgain
<1>2. /\ proc' \in [Worker -> ProcState] /\ proc'[w] = "idle"
      /\ OthersKept(w)
  BY <1>1, Channels, WorkerTypedNow DEF ProcState, WorkerTyped, OthersKept
<1>3. /\ UpKept(w) /\ DownKept(w) /\ \A r : ~Asked(w, r)'
      /\ liveness' \in [Worker -> 0..Liveness] /\ beatDue' \in [Worker -> BOOLEAN]
  BY <1>1, ReconnectKeeps
<1>4. WorkerTyped'
  BY <1>1, <1>2, <1>3, WorkerTypedNow DEF WorkerTyped
<1>5. WorkKept(w)
  BY <1>2 DEF WorkKept, Works
<1> QED BY <1>1, <1>2, <1>3, <1>4, <1>5, QuietWorkerKeeps
-----------------------------------------------------------------------------
(***************************************************************************)
(* The clients, and time.                                                  *)
(***************************************************************************)
LEMMA SameOneAnswer ==
    ASSUME SystemInv, UNCHANGED <<handed, replied, everyone, proc, job, lead, up, down>>
    PROVE  \A w \in Worker, r \in Request : OneAnswer(w, r)' /\ OnlyLeader(w, r)'
<1> SUFFICES ASSUME NEW w \in Worker, NEW r \in Request
             PROVE  OneAnswer(w, r)' /\ OnlyLeader(w, r)'
  OBVIOUS
<1>1. /\ Asked(w, r)' <=> Asked(w, r)
      /\ ToLead(w, r)' <=> ToLead(w, r)
      /\ Works(w, r)' <=> Works(w, r)
      /\ Silent(w, r)' <=> Silent(w, r)
  BY DEF Asked, ToLead, Works, Silent
<1> QED BY <1>1, OneAnswerNow, OneAnswerNext

LEMMA ClientStep ==
    ASSUME SystemInv, NEW r \in Request, ClientSend(r) \/ ClientRecv(r) \/ GiveUp(r)
    PROVE  SystemInv' /\ [Queue!Next]_(Queue!vars)
<1>1. othersUnchanged /\ UNCHANGED overdue
  BY DEF ClientSend, ClientRecv, GiveUp
<1>2. client' \in [Request -> {"new", "waiting", "answered", "gaveup"}]
  BY DEF ClientSend, ClientRecv, GiveUp, SystemInv, SystemTypeOK
<1>3. /\ UNCHANGED <<broker, proc, job, submitted, handed>>
      /\ UNCHANGED <<up, down, liveness, beatDue, quiet, lead, replied, everyone>>
  BY <1>1 DEF othersUnchanged, vars, workerVars
<1>4. UNCHANGED Queue!vars
  BY <1>3 DEF Queue!vars, Running
<1>5. QueueConserved'
  BY <1>4, QueueStepConserves DEF SystemInv, QueueConserved
<1>6. SystemTypeOK'
  BY <1>1, <1>2, <1>3 DEF SystemInv, SystemTypeOK, TypeOK
<1>7. \A w \in Worker, x \in Request : OneAnswer(w, x)' /\ OnlyLeader(w, x)'
  BY <1>3, SameOneAnswer
<1>8. (BusyHasJob /\ OneLeader /\ NoLostWakeup /\ BrokerOK(broker) /\ broker.out = NoOutput)'
  BY <1>3 DEF SystemInv, BusyHasJob, OneLeader, NoLostWakeup, Running, Entries
<1>9. \A w \in Worker : proc'[w] = "dead" => down'[w] = <<>>
  BY <1>3 DEF SystemInv
<1> QED BY <1>4, <1>5, <1>6, <1>7, <1>8, <1>9 DEF SystemInv

LEMMA SystemTickStep ==
    ASSUME SystemInv, SystemTick
    PROVE  SystemInv' /\ [Queue!Next]_(Queue!vars)
<1>1. /\ broker' = [broker EXCEPT !.left = [o \in Obj |-> Pred(@[o])], !.heartbeatDue = TRUE]
      /\ UNCHANGED <<proc, job, submitted, handed, up, down, liveness, lead, client, replied,
                     everyone>>
      /\ BrokerOK(broker) /\ broker.out = NoOutput
  BY DEF SystemTick, SystemInv
<1>2. broker' \in BrokerType
  <2> DEFINE left == [o \in Obj |-> Pred(broker.left[o])]
  <2>1. left \in [Obj -> 0..Lifetime]
    BY <1>1, BrokerAssumption DEF BrokerOK, BrokerType, Pred
  <2>2. broker' = [broker EXCEPT !.left = left, !.heartbeatDue = TRUE]
    BY <1>1
  <2> HIDE DEF left
  <2> QED BY <1>1, <2>1, <2>2 DEF BrokerOK, BrokerType
<1>3. /\ broker'.status = broker.status /\ broker'.requests = broker.requests
      /\ broker'.workers = broker.workers /\ broker'.waiting = broker.waiting
      /\ broker'.svcWaiting = broker.svcWaiting /\ broker'.out = broker.out
  BY <1>1 DEF BrokerOK, BrokerType
<1>4. BrokerOK(broker')
  BY <1>1, <1>2, <1>3 DEF BrokerOK, RegisteredUnderOwner, Covers, QueuedByService
<1>5. UNCHANGED Queue!vars
  BY <1>1, <1>3 DEF Queue!vars, Running
<1>6. QueueConserved'
  BY <1>5, QueueStepConserves DEF SystemInv, QueueConserved
<1>7. /\ beatDue' \in [Worker -> BOOLEAN] /\ quiet' \in [Worker -> BOOLEAN]
      /\ overdue' \in [Request -> BOOLEAN]
  BY DEF SystemTick, Polling
<1>8. SystemTypeOK'
  BY <1>1, <1>2, <1>7 DEF SystemInv, SystemTypeOK, TypeOK
<1>9. \A w \in Worker, x \in Request : OneAnswer(w, x)' /\ OnlyLeader(w, x)'
  BY <1>1, SameOneAnswer
<1>10. (BusyHasJob /\ OneLeader /\ NoLostWakeup)'
  BY <1>1, <1>3 DEF SystemInv, BusyHasJob, OneLeader, NoLostWakeup, Running, Entries
<1>11. \A w \in Worker : proc'[w] = "dead" => down'[w] = <<>>
  BY <1>1 DEF SystemInv
<1> QED BY <1>1, <1>3, <1>4, <1>5, <1>6, <1>8, <1>9, <1>10, <1>11 DEF SystemInv
-----------------------------------------------------------------------------
LEMMA SystemInitInv == SystemInit => SystemInv /\ Queue!Init
<1> SUFFICES ASSUME SystemInit PROVE SystemInv /\ Queue!Init
  OBVIOUS
<1>1. Init /\ broker = NewBroker
  BY DEF SystemInit, Init
<1>2. IndInv /\ QueueConserved /\ Queue!Init
  BY <1>1, InitInv, InitRefines
<1>3. /\ up \in [Worker -> Seq(UpMessage)] /\ down \in [Worker -> Seq(DownMessage)]
      /\ \A w \in Worker : up[w] = <<Ready>> /\ down[w] = <<>>
  BY MessagesDiffer DEF SystemInit
<1>4. SystemTypeOK
  BY <1>2, <1>3, MajordomoAssumption DEF SystemInit, SystemTypeOK, IndInv
<1>5. broker.out = NoOutput /\ NoLostWakeup
  BY <1>1 DEF NewBroker, NoLostWakeup
<1>6. ASSUME NEW w \in Worker, NEW r \in Request PROVE OneAnswer(w, r) /\ OnlyLeader(w, r)
  <2>1. ~Asked(w, r) /\ ~ToLead(w, r) /\ ~Works(w, r)
    BY <1>1, <1>3, ContainsEmpty DEF Asked, ToLead, Works, Init
  <2>2. Answers(w, r) = {}
    <3> SUFFICES ASSUME NEW i \in Answers(w, r) PROVE FALSE
      OBVIOUS
    <3>1. i \in DOMAIN <<Ready>> /\ <<Ready>>[i] = Reply(r)
      BY <1>3 DEF Answers, Reply
    <3>2. Ready = Reply(r)
      BY <3>1
    <3> QED BY <3>2, MessagesDiffer
  <2>3. replied[r][w] = 0
    BY DEF SystemInit
  <2>4. OneAnswer(w, r)
    BY <2>1, <2>2, <2>3 DEF OneAnswer
  <2> QED BY <2>1, <2>2, <2>3, <2>4 DEF OnlyLeader, ToLead
<1>7. \A w \in Worker : proc[w] = "dead" => down[w] = <<>>
  BY <1>3
<1> QED BY <1>2, <1>4, <1>5, <1>6, <1>7 DEF SystemInv, IndInv

LEMMA SystemStep ==
    ASSUME SystemInv, [SystemNext]_systemVars
    PROVE  SystemInv' /\ [Queue!Next]_(Queue!vars)
<1>1. ASSUME NEW w \in Worker,
             \/ TakeUp(w) \/ RecvTurn(w)
             \/ Work(w) \/ FailWork(w) \/ Exit(w) \/ StartAgain(w)
      PROVE  SystemInv' /\ [Queue!Next]_(Queue!vars)
  BY <1>1, TakeUpStep, RecvTurnStep, WorkStep, FailWorkStep, ExitStep, StartAgainStep
<1>2. ASSUME NEW r \in Request, TakeRequest(r) \/ ClientSend(r) \/ ClientRecv(r) \/ GiveUp(r)
      PROVE  SystemInv' /\ [Queue!Next]_(Queue!vars)
  BY <1>2, TakeRequestStep, ClientStep
<1>3. CASE TakeNothing
  BY <1>3, TakeNothingStep
<1>4. CASE SystemTick
  BY <1>4, SystemTickStep
<1>5. CASE UNCHANGED systemVars
  <2>1. /\ UNCHANGED <<broker, proc, job, submitted, handed, up, down>>
        /\ UNCHANGED <<liveness, beatDue, quiet, lead, client, overdue, replied, everyone>>
    BY <1>5 DEF systemVars, vars, workerVars, clientVars
  <2>2. UNCHANGED Queue!vars
    BY <2>1 DEF Queue!vars, Running
  <2>3. QueueConserved'
    BY <2>2, QueueStepConserves DEF SystemInv, QueueConserved
  <2>4. SystemTypeOK'
    BY <2>1 DEF SystemInv, SystemTypeOK, TypeOK
  <2>5. \A w \in Worker, x \in Request : OneAnswer(w, x)' /\ OnlyLeader(w, x)'
    BY <2>1, SameOneAnswer
  <2>6. (BusyHasJob /\ OneLeader /\ NoLostWakeup /\ BrokerOK(broker) /\ broker.out = NoOutput)'
    BY <2>1 DEF SystemInv, BusyHasJob, OneLeader, NoLostWakeup, Running, Entries
  <2>7. \A w \in Worker : proc'[w] = "dead" => down'[w] = <<>>
    BY <2>1 DEF SystemInv
  <2> QED BY <2>2, <2>3, <2>4, <2>5, <2>6, <2>7 DEF SystemInv
<1> QED BY <1>1, <1>2, <1>3, <1>4, <1>5 DEF SystemNext

\* The broker, its queues and the right to reply to each request stay in order
\* in the whole protocol, whichever messages are lost or late and whoever dies.
THEOREM SystemInvariance == SystemSpec => []SystemInv
<1>1. SystemInit => SystemInv
  BY SystemInitInv
<1>2. SystemInv /\ [SystemNext]_systemVars => SystemInv'
  BY SystemStep
<1> QED BY <1>1, <1>2, PTL DEF SystemSpec

\* Of the group that a request is handed to, each worker replies once at most, and
\* nobody else does; where process() looks at leader_bool, only the leader does, so
\* that the client is sent no second reply.
THEOREM AnsweredOnce == SystemSpec => []AnswerOnce
<1>1. SystemInv => AnswerOnce
  <2> SUFFICES ASSUME SystemInv, NEW r \in Request, NEW w \in Worker
               PROVE  /\ replied[r][w] <= 1
                      /\ replied[r][w] > 0 =>
                            /\ w \in handed[r].to
                            /\ ReqSvc[r] \in everyone \/ w = handed[r].leader
    BY DEF AnswerOnce
  <2> QED BY OneAnswerNow DEF Silent
<1> QED BY SystemInvariance, <1>1, PTL

\* Between the workers and clients of the code, too, the broker implements
\* RequestQueue.
THEOREM SystemImplementsRequestQueue == SystemSpec => IsRequestQueue
<1>1. SystemInit => Queue!Init
  BY SystemInitInv
<1>2. SystemInv /\ [SystemNext]_systemVars => [Queue!Next]_(Queue!vars)
  BY SystemStep
<1> QED BY <1>1, <1>2, SystemInvariance, PTL DEF SystemSpec, IsRequestQueue, Queue!Spec
=============================================================================
