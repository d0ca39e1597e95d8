-------------------------- MODULE PeerGatherProofs --------------------------
(***************************************************************************)
(* What the leader of a group learns and replies is right, for groups of   *)
(* any size, any data and targets, and any number of epochs: IndInv is     *)
(* inductive, and KnownIsTrue and GroupAnswer follow from it.              *)
(***************************************************************************)
EXTENDS PeerGather, TLAPS

\* What request, inputs and roles are does not change while a group works.
LEMMA GroupStays ==
  ASSUME Next
  PROVE  UNCHANGED group
BY DEF Next, Lead, Process, Receive, Refuse, Populate, Tie, Follow, Miscall, Ask, Serve,
       Collect, Sum, Train, Inform, Stumble, Die

\* When the leader of a summation works, what it holds is what all were given.
LEMMA HeldIsInput ==
  ASSUME IndInv, at[leader] = "work", service = "sumnums"
  PROVE  Held = input
<1>1. \A a \in Agent : Held[a] = input[a]
  <2> SUFFICES ASSUME NEW a \in Agent, a # leader PROVE known[a] = input[a]
    BY DEF Held
  <2>1. a \in Peers /\ call[a] = "seen"
    BY DEF IndInv, Peers
  <2> QED BY <2>1 DEF IndInv, Answers, Truthful
<1> QED BY <1>1 DEF Held, IndInv, TypeOK

\* A pair that is found is made of data.
LEMMA PairsAreData ==
  ASSUME TypeOK
  PROVE  PairsOf(input) \subseteq {"pair"} \X Datum \X Datum
BY DEF PairsOf, TypeOK

-----------------------------------------------------------------------------
(***************************************************************************)
(* Each action keeps the invariant.  First those before the exchange.      *)
(***************************************************************************)
\* Steps of process() that touch only where it is and the agent's own ports
\* keep the invariant, if they keep what Progress says of that agent.
LEMMA OwnStep ==
  ASSUME IndInv, UNCHANGED <<group, exchange>>, NEW a \in Agent,
         NEW to \in At \ {"work"}, at' = [at EXCEPT ![a] = to],
         port' \in [Agent -> {"none", "bound", "failed"}],
         tied' \in [Agent -> BOOLEAN], space' \in [Agent -> Value],
         \A b \in Agent \ {a} : tied'[b] = tied[b] /\ space'[b] = space[b],
         Progress(a)'
  PROVE  IndInv'
<1> USE DEF IndInv
<1>1. TypeOK'
  BY DEF TypeOK, group, exchange
<1>2. \A b \in Agent : Progress(b)'
  <2> SUFFICES ASSUME NEW b \in Agent, b # a PROVE Progress(b)'
    OBVIOUS
  <2>1. at'[b] = at[b] /\ Progress(b)
    BY DEF TypeOK
  <2> QED BY <2>1 DEF Progress, group
<1>3. \A p \in Peers' : Answers(p)'
  BY DEF Answers, Truthful, Peers, group, exchange
<1>4. at'[leader'] = "work" => \A p \in Peers' : call'[p] = "seen"
  <2>1. at'[leader] = "work" => at[leader] = "work"
    BY DEF TypeOK
  <2> QED BY <2>1 DEF Peers, group, exchange
<1>5. GroupAnswer'
  BY DEF GroupAnswer, PairsOf, group, exchange
<1> QED BY <1>1, <1>2, <1>3, <1>4, <1>5

LEMMA ProcessKeepsInv ==
  ASSUME IndInv, NEW a \in Agent, Process(a) \/ Refuse(a)
  PROVE  IndInv'
<1> USE DEF Goes, At
<1>0. TypeOK /\ Progress(a) /\ input[a] \in Datum /\ input[a] # None
  BY GatherAssumption DEF IndInv, TypeOK
<1>1. CASE Receive(a)
  <2>1. Progress(a)'
    BY <1>0, <1>1 DEF Receive, Progress, TypeOK, group
  <2>2. /\ UNCHANGED <<group, exchange>> /\ UNCHANGED <<tied, space>>
        /\ at' = [at EXCEPT ![a] = "start"]
    BY <1>1 DEF Receive
  <2>3. port' \in [Agent -> {"none", "bound", "failed"}]
    BY <1>0, <1>1 DEF Receive, TypeOK
  <2>4. tied' \in [Agent -> BOOLEAN] /\ space' \in [Agent -> Value]
    BY <1>0, <2>2 DEF TypeOK
  <2> QED BY <2>1, <2>2, <2>3, <2>4, OwnStep
<1>2. CASE Refuse(a)
  <2>1. Progress(a)'
    BY <1>0, <1>2 DEF Refuse, Progress, TypeOK, group, ports
  <2> QED BY <1>0, <1>2, <2>1, OwnStep DEF Refuse, TypeOK, ports
<1>3. CASE Populate(a)
  <2>1. /\ at' = [at EXCEPT ![a] = IF TiesFirst THEN "ready" ELSE "middle"]
        /\ at[a] = IF TiesFirst THEN "middle" ELSE "start"
    BY <1>3 DEF Populate
  <2>2. Progress(a)'
    BY <1>0, <1>3, <2>1 DEF Populate, Progress, TypeOK, TiesFirst, group
  <2>3. space' \in [Agent -> Value]
    BY <1>0, <1>3 DEF Populate, TypeOK, Value
  <2> QED BY <1>0, <1>3, <2>1, <2>2, <2>3, OwnStep DEF Populate, TypeOK
<1>4. CASE Tie(a)
  <2>1. /\ at' = [at EXCEPT ![a] = IF TiesFirst THEN "middle" ELSE "ready"]
        /\ at[a] = IF TiesFirst THEN "start" ELSE "middle"
    BY <1>4 DEF Tie
  <2>2. Progress(a)'
    BY <1>0, <1>4, <2>1 DEF Tie, Progress, TypeOK, TiesFirst, group
  <2> QED BY <1>0, <1>4, <2>1, <2>2, OwnStep DEF Tie, TypeOK
<1>5. CASE Follow(a) \/ Miscall(a)
  <2>1. Progress(a)'
    BY <1>0, <1>5 DEF Follow, Miscall, Progress, TypeOK, group, ports
  <2>2. /\ at' = [at EXCEPT ![a] = "returned"] \/ at' = [at EXCEPT ![a] = "failed"]
        /\ UNCHANGED <<group, ports, exchange>>
    BY <1>5 DEF Follow, Miscall
  <2> QED BY <1>0, <2>1, <2>2, OwnStep DEF TypeOK, ports
<1> QED BY <1>1, <1>2, <1>3, <1>4, <1>5 DEF Process
-----------------------------------------------------------------------------
(***************************************************************************)
(* The exchange, and the leader's work.                                    *)
(***************************************************************************)
\* The progress of every agent is kept by steps that leave the ports alone and
\* in which an agent goes neither to the start nor between populating and tying.
LEMMA ProgressStays ==
  ASSUME IndInv, UNCHANGED <<group, ports>>, at' \in [Agent -> At],
         \A a \in Agent : at'[a] = at[a] \/ at'[a] \notin {"idle", "start", "middle"}
  PROVE  \A a \in Agent : Progress(a)'
BY DEF IndInv, Progress, group, ports

LEMMA AskKeepsInv ==
  ASSUME IndInv, Ask
  PROVE  IndInv'
<1> USE DEF IndInv
<1>1. /\ UNCHANGED <<group, ports, answer, known, round, reply>>
      /\ at' = [at EXCEPT ![leader] = "gather"] /\ leader \in Agent
      /\ call' = [p \in Agent |-> IF p \in Peers THEN "sent" ELSE "none"]
  BY DEF Ask, Goes, TypeOK
<1>2. TypeOK'
  BY <1>1 DEF TypeOK, At, group, ports
<1>3. \A a \in Agent : Progress(a)'
  BY <1>1, <1>2, ProgressStays DEF TypeOK
<1>4. \A p \in Peers' : Answers(p)'
  BY <1>1 DEF Answers, Peers, group
<1>5. at'[leader'] # "work"
  BY <1>1 DEF TypeOK, group
<1>6. GroupAnswer'
  BY <1>1 DEF GroupAnswer, PairsOf, group
<1> QED BY <1>2, <1>3, <1>4, <1>5, <1>6

LEMMA ServeKeepsInv ==
  ASSUME IndInv, NEW a \in Agent, Serve(a)
  PROVE  IndInv'
<1> USE DEF IndInv
<1>1. /\ UNCHANGED <<group, at, ports, known, round, reply>>
      /\ call[a] = "sent" /\ tied[a]
      /\ call' = [call EXCEPT ![a] = "answered"]
      /\ answer' = [answer EXCEPT ![a] = space[a]]
  BY DEF Serve, Serves
<1>2. TypeOK'
  BY <1>1 DEF TypeOK, group, ports
<1>3. \A b \in Agent : Progress(b)'
  BY <1>1, <1>2, ProgressStays DEF TypeOK
<1>4. Truthful(space[a], a)
  BY <1>1 DEF Progress, Truthful
<1>5. ASSUME NEW p \in Peers' PROVE Answers(p)'
  <2>1. p \in Agent /\ p \in Peers
    BY <1>1 DEF Peers, group
  <2>2. CASE p = a
    BY <1>1, <1>4, <2>1, <2>2 DEF Answers, Truthful, TypeOK, group
  <2>3. CASE p # a
    BY <1>1, <2>1, <2>3 DEF Answers, Truthful, TypeOK, group
  <2> QED BY <2>2, <2>3
<1>6. at'[leader'] = "work" => \A p \in Peers' : call'[p] = "seen"
  BY <1>1 DEF TypeOK, Peers, group
<1>7. GroupAnswer'
  BY <1>1 DEF GroupAnswer, PairsOf, group
<1> QED BY <1>2, <1>3, <1>5, <1>6, <1>7

LEMMA CollectKeepsInv ==
  ASSUME IndInv, NEW a \in Agent, Collect(a)
  PROVE  IndInv'
<1> USE DEF IndInv
<1>1. /\ UNCHANGED <<group, ports, answer, round, reply>>
      /\ call[a] = "answered"
      /\ call' = [call EXCEPT ![a] = "seen"]
      /\ known' = [known EXCEPT ![a] = answer[a]]
      /\ at[leader] = "gather" /\ leader \in Agent
      /\ at' = IF \A q \in Peers \ {a} : call[q] = "seen"
               THEN [at EXCEPT ![leader] = "work"] ELSE at
  BY DEF Collect, ProcessReply, TypeOK
<1>2. TypeOK'
  BY <1>1 DEF TypeOK, At, group, ports
<1>3. \A b \in Agent : Progress(b)'
  <2>1. \A b \in Agent : at'[b] = at[b] \/ at'[b] = "work"
    BY <1>1 DEF TypeOK
  <2> QED BY <1>1, <1>2, <2>1, ProgressStays DEF TypeOK
<1>4. ASSUME NEW p \in Peers' PROVE Answers(p)'
  <2>1. p \in Agent /\ p \in Peers
    BY <1>1 DEF Peers, group
  <2>2. CASE p = a
    BY <1>1, <2>1, <2>2 DEF Answers, Truthful, TypeOK, group
  <2>3. CASE p # a
    BY <1>1, <2>1, <2>3 DEF Answers, Truthful, TypeOK, group
  <2> QED BY <2>2, <2>3
<1>5. at'[leader'] = "work" => \A p \in Peers' : call'[p] = "seen"
  <2> SUFFICES ASSUME at'[leader] = "work", NEW p \in Peers PROVE call'[p] = "seen"
    BY <1>1 DEF Peers, group
  <2>1. \A q \in Peers \ {a} : call[q] = "seen"
    BY <1>1
  <2> QED BY <1>1, <2>1 DEF TypeOK, Peers
<1>6. GroupAnswer'
  BY <1>1 DEF GroupAnswer, PairsOf, group
<1> QED BY <1>2, <1>3, <1>4, <1>5, <1>6

\* The leader's steps that only move it on, after its work.
LEMMA LeaderMoves ==
  ASSUME IndInv, UNCHANGED <<group, ports, call, answer, known, reply>>,
         round' \in 1..(Epochs + 1), at[leader] = "work",
         NEW to \in {"ready", "work", "failed"}, at' = [at EXCEPT ![leader] = to]
  PROVE  IndInv'
<1> USE DEF IndInv
<1>1. TypeOK'
  BY DEF TypeOK, At, group, ports
<1>2. \A a \in Agent : Progress(a)'
  <2>1. \A a \in Agent : at'[a] = at[a] \/ at'[a] \in {"ready", "work", "failed"}
    BY DEF TypeOK
  <2> QED BY <1>1, <2>1, ProgressStays DEF TypeOK
<1>3. \A p \in Peers' : Answers(p)'
  BY DEF Answers, Truthful, Peers, group
<1>4. \A p \in Peers' : call'[p] = "seen"
  BY DEF Peers, group
<1>5. GroupAnswer'
  BY DEF GroupAnswer, PairsOf, group
<1> QED BY <1>1, <1>2, <1>3, <1>4, <1>5

LEMMA SumKeepsInv ==
  ASSUME IndInv, Sum
  PROVE  IndInv'
<1> USE DEF IndInv
<1>1. /\ UNCHANGED <<group, ports, call, answer, known, round>>
      /\ at[leader] = "work" /\ service = "sumnums"
      /\ at' = [at EXCEPT ![leader] = "returned"] /\ leader \in Agent
  BY DEF Sum, Goes, TypeOK
<1>2. IF PairsOf(input) = {} THEN reply' = <<"None">> ELSE reply' \in PairsOf(input)
  BY <1>1, HeldIsInput DEF Sum
<1>3. PairsOf(input)' = PairsOf(input)
  BY <1>1 DEF PairsOf, group
<1>4. TypeOK'
  <2>1. reply' \in {<<"None">>} \cup ({"pair"} \X Datum \X Datum)
    BY <1>2, PairsAreData
  <2> QED BY <1>1, <2>1 DEF TypeOK, At, group, ports
<1>5. \A a \in Agent : Progress(a)'
  <2>1. \A a \in Agent : at'[a] = at[a] \/ at'[a] = "returned"
    BY <1>1 DEF TypeOK
  <2> QED BY <1>1, <1>4, <2>1, ProgressStays DEF TypeOK
<1>6. \A p \in Peers' : Answers(p)'
  BY <1>1 DEF Answers, Truthful, Peers, group
<1>7. at'[leader'] # "work"
  BY <1>1 DEF TypeOK, group
<1>8. GroupAnswer'
  <2>1. ASSUME reply' = <<"None">> PROVE PairsOf(input) = {}
    <3> SUFFICES ASSUME <<"None">> \in PairsOf(input) PROVE FALSE
      BY <1>2, <2>1
    <3> QED BY DEF PairsOf
  <2>2. ASSUME reply' \notin {<<"None">>, <<"nothing">>} PROVE reply' \in PairsOf(input)
    BY <1>2, <2>2
  <2> QED BY <1>3, <2>1, <2>2 DEF GroupAnswer
<1> QED BY <1>4, <1>5, <1>6, <1>7, <1>8

LEMMA DieKeepsInv ==
  ASSUME IndInv, NEW a \in Agent, Die(a)
  PROVE  IndInv'
<1> USE DEF IndInv
<1>1. /\ UNCHANGED <<group, ports, answer, known, round, reply>>
      /\ at' = [at EXCEPT ![a] = "gone"]
      /\ \/ UNCHANGED call
         \/ call[a] = "answered" /\ call' = [call EXCEPT ![a] = "lost"]
  BY DEF Die
<1>2. TypeOK'
  BY <1>1 DEF TypeOK, At, group, ports
<1>3. \A b \in Agent : Progress(b)'
  <2>1. \A b \in Agent : at'[b] = at[b] \/ at'[b] = "gone"
    BY <1>1 DEF TypeOK
  <2> QED BY <1>1, <1>2, <2>1, ProgressStays DEF TypeOK
<1>4. ASSUME NEW p \in Peers' PROVE Answers(p)'
  <2>1. p \in Agent /\ p \in Peers
    BY <1>1 DEF Peers, group
  <2>2. call'[p] = call[p] \/ call'[p] = "lost"
    BY <1>1, <2>1 DEF TypeOK
  <2> QED BY <1>1, <2>1, <2>2 DEF Answers, Truthful, group
<1>5. at'[leader'] = "work" => \A p \in Peers' : call'[p] = "seen"
  <2> SUFFICES ASSUME at'[leader] = "work", NEW p \in Peers PROVE call'[p] = "seen"
    BY <1>1 DEF Peers, group
  <2>1. at[leader] = "work"
    BY <1>1 DEF TypeOK
  <2>2. p \in Agent /\ call[p] = "seen"
    BY <2>1 DEF Peers
  <2> QED BY <1>1, <2>2 DEF TypeOK
<1>6. GroupAnswer'
  BY <1>1 DEF GroupAnswer, PairsOf, group
<1> QED BY <1>2, <1>3, <1>4, <1>5, <1>6
-----------------------------------------------------------------------------
LEMMA InitInv ==
  ASSUME Init
  PROVE  IndInv
<1>1. PICK gone \in SUBSET (Agent \ {leader}) :
         /\ at = [a \in Agent |-> IF a \in gone THEN "gone" ELSE "idle"]
         /\ asked \in SUBSET (Agent \ gone)
  BY DEF Init
<1>2. TypeOK
  BY <1>1, GatherAssumption DEF Init, TypeOK, At, Value
<1>3. \A a \in Agent : Progress(a)
  BY <1>1 DEF Init, Progress
<1>4. \A p \in Peers : Answers(p)
  BY DEF Init, Answers, Peers
<1>5. at[leader] # "work"
  BY <1>1 DEF Init
<1>6. GroupAnswer
  <2>1. reply = <<"nothing">> /\ <<"nothing">> # <<"None">>
    BY DEF Init
  <2> QED BY <2>1 DEF GroupAnswer
<1> QED BY <1>2, <1>3, <1>4, <1>5, <1>6 DEF IndInv

LEMMA NextInv ==
  ASSUME IndInv, [Next]_vars
  PROVE  IndInv'
<1>1. CASE UNCHANGED vars
  BY <1>1 DEF vars, group, ports, IndInv, TypeOK, Progress, Answers, Truthful, Peers,
              GroupAnswer, PairsOf
<1>2. CASE Next
  <2>1. ASSUME NEW a \in Agent, Process(a) \/ Refuse(a) PROVE IndInv'
    BY <2>1, ProcessKeepsInv
  <2>2. CASE Ask
    BY <2>2, AskKeepsInv
  <2>3. ASSUME NEW a \in Agent, Serve(a) PROVE IndInv'
    BY <2>3, ServeKeepsInv
  <2>4. ASSUME NEW a \in Agent, Collect(a) PROVE IndInv'
    BY <2>4, CollectKeepsInv
  <2>5. CASE Sum
    BY <2>5, SumKeepsInv
  <2>6. CASE Train
    <3>1. round' \in 1..(Epochs + 1)
      BY <2>6, GatherAssumption DEF Train, IndInv, TypeOK
    <3>2. /\ UNCHANGED <<group, ports, call, answer, known, reply>>
          /\ at[leader] = "work"
          /\ \/ at' = [at EXCEPT ![leader] = "ready"]
             \/ at' = [at EXCEPT ![leader] = "work"]
      BY <2>6 DEF Train, Goes
    <3> QED BY <3>1, <3>2, LeaderMoves
  <2>7. CASE Inform \/ Stumble
    <3>1. /\ UNCHANGED <<group, ports, exchange>>
          /\ at[leader] = "work" /\ at' = [at EXCEPT ![leader] = "failed"]
      BY <2>7 DEF Inform, Stumble, Goes
    <3>2. round' \in 1..(Epochs + 1)
      BY <3>1 DEF IndInv, TypeOK, exchange
    <3> QED BY <3>1, <3>2, LeaderMoves DEF exchange
  <2>8. ASSUME NEW a \in Agent, Die(a) PROVE IndInv'
    BY <2>8, DieKeepsInv
  <2> QED BY <1>2, <2>1, <2>2, <2>3, <2>4, <2>5, <2>6, <2>7, <2>8 DEF Next, Lead
<1> QED BY <1>1, <1>2
-----------------------------------------------------------------------------
\* The state spaces, threads, calls and answers of a group agree with each other
\* in every reachable state (tie_to_peers, command_handler, request_from_peers).
THEOREM Invariance == Spec => []IndInv
<1>1. Init => IndInv
  BY InitInv
<1>2. IndInv /\ [Next]_vars => IndInv'
  BY NextInv
<1> QED BY <1>1, <1>2, PTL DEF Spec

\* What the leader knows of a peer is what that peer was started with; only the
\* federated service, which ties before it populates, may have been told None.
THEOREM KnowsTheTruth == Spec => []KnownIsTrue
<1>1. IndInv => KnownIsTrue
  BY DEF IndInv, KnownIsTrue, Answers, Truthful
<1> QED BY <1>1, Invariance, PTL

\* The reply of the summation is right for the whole group, and nobody who is
\* late, silent or gone is left out of it.
THEOREM AnswersForAll == Spec => []GroupAnswer
<1>1. IndInv => GroupAnswer
  BY DEF IndInv
<1> QED BY <1>1, Invariance, PTL
=============================================================================
