----------------------------- MODULE PeerGather -----------------------------
(***************************************************************************)
(* A group of agents that one REQUEST has brought together, and the        *)
(* exchange of their data over the peer ports (utils/mdpeer.py and         *)
(* request_from_peers of services/service_exe.py), as the summation, the   *)
(* federated and the coloring service use it.                              *)
(*                                                                         *)
(* An agent has two kinds of threads here: that of its service, which runs *)
(* process(), and behind its peer port the receiving threads with their    *)
(* proxy, which answer from state_space.  Only the leader of the group     *)
(* asks, one request to each peer at a time; "call" is what has become of  *)
(* it.  The broker names all the workers it ever knew as peers, but sends  *)
(* the REQUEST only to those waiting, and one may be lost: a peer may be   *)
(* gone from the start, or alive and not asked.                            *)
(*                                                                         *)
(* A datum is a number: the summand, or what stands for the local trainer  *)
(* of the federated service.                                               *)
(***************************************************************************)
EXTENDS Integers, FiniteSets

CONSTANTS
    Agent,     \* the agents the request names as each other's peers
    Datum,     \* what they may put into their state space
    Target,    \* the numbers the client may ask for
    Epochs,    \* rounds of the federated service
    None       \* Python's None

ASSUME GatherAssumption ==
    /\ IsFiniteSet(Agent)
    /\ \A a \in Agent : \E b \in Agent : b # a
    /\ Datum \subseteq Int
    /\ Target \subseteq Int
    /\ Epochs \in Nat \ {0}
    /\ None \notin Datum

VARIABLES
    service,  \* which service's process() they run
    leader,   \* the agent with leader_bool
    input,    \* the datum each agent was started with
    target,   \* the number asked for
    asked,    \* the agents the REQUEST reaches
    at,       \* where each agent's process() is
    port,     \* whether its peer port could be bound
    tied,     \* do its receiving threads and their proxy run?
    space,    \* its own datum in its state space, if it is there yet
    call,     \* the leader's request to each peer
    answer,   \* the datum in the reply
    known,    \* the leader's other_peer_data
    round,    \* of the federated service
    reply     \* what the leader's process() returned

group == <<service, leader, input, target, asked>>
ports == <<port, tied, space>>
vars  == <<group, at, ports, call, answer, known, round, reply>>

Peers == Agent \ {leader}

At == {"idle", "start", "middle", "ready", "gather", "work", "returned", "failed", "gone"}

Value == Datum \cup {None}

TypeOK ==
    /\ service \in {"sumnums", "federatedlearning", "vertexcoloring"}
    /\ leader \in Agent
    /\ input \in [Agent -> Datum]
    /\ target \in Target
    /\ asked \subseteq Agent
    /\ at \in [Agent -> At]
    /\ port \in [Agent -> {"none", "bound", "failed"}]
    /\ tied \in [Agent -> BOOLEAN]
    /\ space \in [Agent -> Value]
    /\ call \in [Agent -> {"none", "sent", "answered", "seen", "lost"}]
    /\ answer \in [Agent -> Value]
    /\ known \in [Agent -> Value]
    /\ round \in 1..(Epochs + 1)
    /\ reply \in {<<"None">>} \cup ({"pair"} \X Datum \X Datum) \cup {<<"nothing">>}

Init ==
    /\ service \in {"sumnums", "federatedlearning", "vertexcoloring"}
    /\ leader \in Agent
    /\ input \in [Agent -> Datum]
    /\ target \in Target
    /\ \E gone \in SUBSET (Agent \ {leader}) :
          /\ at = [a \in Agent |-> IF a \in gone THEN "gone" ELSE "idle"]
          /\ asked \in SUBSET (Agent \ gone) /\ leader \in asked
    /\ port = [a \in Agent |-> "none"]
    /\ tied = [a \in Agent |-> FALSE]
    /\ space = [a \in Agent |-> None]
    /\ call = [a \in Agent |-> "none"]
    /\ answer = [a \in Agent |-> None]
    /\ known = [a \in Agent |-> None]
    /\ round = 1
    /\ reply = <<"nothing">>
-----------------------------------------------------------------------------
(***************************************************************************)
(* process() up to the point where the agent is ready.                     *)
(***************************************************************************)
Goes(a, from, to) == at[a] = from /\ at' = [at EXCEPT ![a] = to]

exchange == <<call, answer, known, round, reply>>

\* A REQUEST arrives and the worker builds the peer port; an agent that is not
\* asked may have got another one.  The error of a bind is passed over: the
\* address may belong to another process.
Receive(a) ==
    /\ Goes(a, "idle", "start")
    /\ \E outcome \in {"bound", "failed"} : port' = [port EXCEPT ![a] = outcome]
    /\ UNCHANGED <<group, tied, space, exchange>>

\* process() gives up before it has tied: an input is missing or not known,
\* or the agent's number is beyond the group's.
Refuse(a) ==
    /\ Goes(a, "start", "failed")
    /\ UNCHANGED <<group, ports, exchange>>

\* Mutant of TiesFirst: the summation ties before it populates.
EveryoneTiesFirst == TRUE

\* The federated service ties to its peers before it populates its state
\* space, the others the other way round.
TiesFirst == service = "federatedlearning"

Populate(a) ==
    /\ IF TiesFirst THEN Goes(a, "middle", "ready") ELSE Goes(a, "start", "middle")
    /\ space' = [space EXCEPT ![a] = input[a]]
    /\ UNCHANGED <<group, port, tied, exchange>>

\* tie_to_peers: one receiving thread per peer, and the proxy.
Tie(a) ==
    /\ IF TiesFirst THEN Goes(a, "start", "middle") ELSE Goes(a, "middle", "ready")
    /\ tied' = [tied EXCEPT ![a] = TRUE]
    /\ UNCHANGED <<group, port, space, exchange>>

\* A follower of the summation returns None.  One of the federated service
\* spins on leader_force_alive, which no code clears: it has no step here.
Follow(a) ==
    /\ a # leader /\ service = "sumnums"
    /\ Goes(a, "ready", "returned")
    /\ UNCHANGED <<group, ports, exchange>>

\* The coloring passes a list to request_from_peers, which wants a dictionary:
\* AttributeError, before anything is sent.
Miscall(a) ==
    /\ service = "vertexcoloring"
    /\ Goes(a, "ready", "failed")
    /\ UNCHANGED <<group, ports, exchange>>
-----------------------------------------------------------------------------
(***************************************************************************)
(* request_from_peers, and the answers.                                    *)
(***************************************************************************)
\* A socket per peer, and the request into each: ZeroMQ keeps it until the
\* peer's port is there.
Ask ==
    /\ service # "vertexcoloring"
    /\ Goes(leader, "ready", "gather")
    /\ call' = [p \in Agent |-> IF p \in Peers THEN "sent" ELSE "none"]
    /\ UNCHANGED <<group, ports, answer, known, round, reply>>

Serves(p) == port[p] = "bound" /\ tied[p] /\ at[p] # "gone"

\* Mutant of Serve: the receiving thread does not loop.
ServeOnce(p) ==
    /\ call[p] = "sent" /\ Serves(p) /\ round = 1
    /\ call' = [call EXCEPT ![p] = "answered"]
    /\ answer' = [answer EXCEPT ![p] = space[p]]
    /\ UNCHANGED <<group, at, ports, known, round, reply>>

\* A receiving thread answers from the state space, with None if nothing is
\* there; it does so whatever has become of process().
Serve(p) ==
    /\ call[p] = "sent" /\ Serves(p)
    /\ call' = [call EXCEPT ![p] = "answered"]
    /\ answer' = [answer EXCEPT ![p] = space[p]]
    /\ UNCHANGED <<group, at, ports, known, round, reply>>

ProcessReply(p) ==
    /\ call[p] = "answered"
    /\ call' = [call EXCEPT ![p] = "seen"]
    /\ known' = [known EXCEPT ![p] = answer[p]]

\* Mutant of Collect: the loop ends with the first answer.
CollectFirst(p) ==
    /\ at[leader] = "gather"
    /\ ProcessReply(p)
    /\ at' = [at EXCEPT ![leader] = "work"]
    /\ UNCHANGED <<group, ports, answer, round, reply>>

\* A turn of the loop, which ends when all peers have been seen.  The poll has a
\* timeout, the loop around it has none.
Collect(p) ==
    /\ at[leader] = "gather"
    /\ ProcessReply(p)
    /\ at' = IF \A q \in Peers \ {p} : call[q] = "seen"
             THEN [at EXCEPT ![leader] = "work"] ELSE at
    /\ UNCHANGED <<group, ports, answer, round, reply>>
-----------------------------------------------------------------------------
(***************************************************************************)
(* What the leader does with the data.                                     *)
(***************************************************************************)
\* Mutant of Held: the leader forgets its own number.
HeldByPeers == [a \in Agent |-> IF a = leader THEN 0 ELSE known[a]]

\* The leader's own datum is one of those it works with.
Held == [a \in Agent |-> IF a = leader THEN input[a] ELSE known[a]]
Complete == \A p \in Peers : known[p] # None

\* find_pair_adding_to_target, by what module FindPair shows of it.
PairsOf(held) ==
    {<<"pair", held[q[1]], held[q[2]]>> :
        q \in {r \in Agent \X Agent : /\ r[1] # r[2]
                                      /\ held[r[1]] <= held[r[2]]
                                      /\ held[r[1]] + held[r[2]] = target}}

Sum ==
    /\ service = "sumnums" /\ Complete
    /\ Goes(leader, "work", "returned")
    /\ IF PairsOf(Held) = {} THEN reply' = <<"None">> ELSE reply' \in PairsOf(Held)
    /\ UNCHANGED <<group, ports, call, answer, known, round>>

\* The leader trains every trainer it holds, and begins the next epoch.
Train ==
    /\ service = "federatedlearning" /\ Complete
    /\ round <= Epochs
    /\ Goes(leader, "work", IF round < Epochs THEN "ready" ELSE "work")
    /\ round' = round + 1
    /\ UNCHANGED <<group, ports, call, answer, known, reply>>

\* inform_peers calls send() with an argument missing.
Inform ==
    /\ service = "federatedlearning" /\ round = Epochs + 1
    /\ Goes(leader, "work", "failed")
    /\ UNCHANGED <<group, ports, exchange>>

\* There is no adding to None, and None has no train().
Stumble ==
    /\ ~Complete
    /\ Goes(leader, "work", "failed")
    /\ UNCHANGED <<group, ports, exchange>>

\* An agent's process ends.  An answer on its way may go with it.
Die(a) ==
    /\ at[a] # "gone"
    /\ at' = [at EXCEPT ![a] = "gone"]
    /\ \/ UNCHANGED call
       \/ call[a] = "answered" /\ call' = [call EXCEPT ![a] = "lost"]
    /\ UNCHANGED <<group, ports, answer, known, round, reply>>

Lead == Ask \/ (\E p \in Agent : Collect(p)) \/ Sum \/ Train \/ Inform \/ Stumble

Process(a) == Receive(a) \/ Populate(a) \/ Tie(a) \/ Follow(a) \/ Miscall(a)

Next ==
    \/ Lead
    \/ \E a \in Agent : Process(a) \/ Refuse(a) \/ Serve(a) \/ Die(a)

Spec == Init /\ [][Next]_vars

\* The threads of a process that lives are scheduled, and process() goes on in
\* the agents the REQUEST reaches.  Nothing says that an agent lives, that it is
\* asked, or that process() gets as far as its peers.
FairSpec ==
    /\ Spec
    /\ WF_vars(Lead)
    /\ \A a \in Agent : WF_vars(a \in asked /\ Process(a)) /\ WF_vars(Serve(a))
-----------------------------------------------------------------------------
\* What the leader knows of a peer is what that peer was started with.  Only in
\* the federated service may it have been told None: the summation populates
\* its state space before its receiving threads run.
KnownIsTrue ==
    \A p \in Peers :
        call[p] = "seen" =>
            known[p] = input[p] \/ (known[p] = None /\ service = "federatedlearning")

\* The reply of the summation is right for the whole group: a pair of summands
\* of two of its members that adds up to the target, or None if there is none.
\* A peer that is late, silent or gone is never left out.
GroupAnswer ==
    /\ reply = <<"None">> => PairsOf(input) = {}
    /\ reply \notin {<<"None">>, <<"nothing">>} => reply \in PairsOf(input)

\* request_from_peers comes to its end, in every epoch, unless there is a peer
\* who cannot answer at all: one that is gone, whose port another process has,
\* whose process() failed before it tied, or who was named but never asked.
\* There is no other way to hang.
Unavailable(p) ==
    \/ at[p] = "gone"
    \/ port[p] = "failed"
    \/ ~tied[p] /\ (at[p] = "failed" \/ p \notin asked)
GatherEnds ==
    at[leader] = "gather" ~> at[leader] # "gather" \/ \E p \in Peers : Unavailable(p)
-----------------------------------------------------------------------------
(***************************************************************************)
(* The inductive invariant.                                                *)
(***************************************************************************)
\* How far process() has come shows in the state space and the threads.
Progress(a) ==
    /\ space[a] # None => space[a] = input[a]
    /\ service # "federatedlearning" /\ tied[a] => space[a] # None
    /\ at[a] \in {"idle", "start"} => ~tied[a]
    /\ service # "federatedlearning" /\ at[a] = "middle" => space[a] # None

\* What a peer has answered, and the leader learned.
Truthful(v, p) == v = input[p] \/ (v = None /\ service = "federatedlearning")
Answers(p) ==
    /\ call[p] \in {"answered", "seen"} => Truthful(answer[p], p)
    /\ call[p] = "seen" => Truthful(known[p], p)

\* The invariant from which KnownIsTrue and GroupAnswer follow.
IndInv ==
    /\ TypeOK
    /\ \A a \in Agent : Progress(a)
    /\ \A p \in Peers : Answers(p)
    /\ at[leader] = "work" => \A p \in Peers : call[p] = "seen"
    /\ GroupAnswer
=============================================================================
