------------------------------ MODULE Majordomo ------------------------------
(***************************************************************************)
(* The whole protocol: the broker of module Broker, the workers of         *)
(* entities/mdwrkapi.py with their liveness, heartbeats and reconnections, *)
(* and the clients of mdclient.py and mdcliapi.py, joined by channels.     *)
(*                                                                         *)
(* A channel is first in first out.  A worker that reconnects closes its   *)
(* socket without linger: what is on its way to it is lost, and any of the *)
(* last messages it has sent may be.  The same happens when it ends.       *)
(*                                                                         *)
(* All timers of the protocol are set to the same 2.5 seconds.  A Tick     *)
(* lets each of them run out: they are not in phase, so a timer may run    *)
(* out earlier than a whole interval after it was set.  Slack is how many  *)
(* messages may be left in a channel by then: with 0 everything due is     *)
(* done within the interval, otherwise workers and messages may be late.   *)
(* The broker, which waits for nothing but its poll, takes a turn in each. *)
(*                                                                         *)
(* Of Broker, this module has the broker itself, its handlers and turns;   *)
(* the actions there in which a worker does what it likes are not used.    *)
(***************************************************************************)
EXTENDS Broker, SequencesExt

CONSTANTS
    Liveness,   \* quiet polls until a worker reconnects
    Mortal,     \* workers that may die and be started again
    Failing,    \* requests on which process() raises
    Slack

ASSUME MajordomoAssumption ==
    /\ Liveness \in Nat \ {0}
    /\ Mortal \subseteq Worker
    /\ Failing \subseteq Request
    /\ Slack \in Nat
    /\ IsFiniteSet(Obj)

VARIABLES
    up,        \* from each worker to the broker
    down,      \* from the broker to each worker
    liveness,  \* the worker's counter; at 0 it sleeps before it reconnects
    beatDue,   \* is it time for its heartbeat?
    quiet,     \* has its poll run out?
    lead,      \* leader_bool of its last REQUEST
    client,    \* the client that sends each request
    overdue,   \* has that client's poll run out?
    replied,   \* replies of each worker that the broker has sent to it
    everyone   \* services whose process() replies in every worker of a group

workerVars == <<liveness, beatDue, quiet, lead>>
clientVars == <<client, overdue>>
systemVars == <<vars, up, down, workerVars, clientVars, replied, everyone>>

Message(kind, r) == [kind |-> kind, req |-> r]
Ready == Message("READY", NoReq)

\* A REQUEST: does it hold the receiver's own endpoint, is the receiver to lead?
JobMessage(r, own, leads) == [kind |-> "REQUEST", req |-> r, own |-> own, lead |-> leads]

Polling(w) == proc[w] \in {"idle", "done"}
Asleep(w)  == Polling(w) /\ liveness[w] = 0

SystemInit ==
    /\ Init
    /\ up       = [w \in Worker |-> <<Ready>>]
    /\ down     = [w \in Worker |-> <<>>]
    /\ liveness = [w \in Worker |-> Liveness]
    /\ beatDue  = [w \in Worker |-> FALSE]
    /\ quiet    = [w \in Worker |-> FALSE]
    /\ lead     = [w \in Worker |-> FALSE]
    /\ client   = [r \in Request |-> "new"]
    /\ overdue  = [r \in Request |-> FALSE]
    /\ replied  = [r \in Request |-> [w \in Worker |-> 0]]
    /\ everyone \in SUBSET Service
-----------------------------------------------------------------------------
(***************************************************************************)
(* The broker: a turn on the message in front of a channel, or on none.    *)
(***************************************************************************)
\* The REQUESTs of one turn to w: one per object and entry, in any order, and of
\* the leader's entries one says to lead.
Batches(w, out) ==
    LET entries == UNION {{o} \X (1..out.copies[o]) : o \in {x \in Obj : OwnerOf[x] = w}}
        request(e) == JobMessage(out.request, w \in out.peers, e = <<out.leader, 1>>)
    IN  {[i \in DOMAIN s |-> request(s[i])] : s \in SetToSeqs(entries)}

\* What a turn may send to w, in the code's order.
Sendings(w, out) ==
    LET first == IF w \in out.disconnect THEN <<Message("DISCONNECT", NoReq)>> ELSE <<>>
        last  == IF w \in out.heartbeat THEN <<Message("HEARTBEAT", NoReq)>> ELSE <<>>
    IN  IF proc[w] = "dead" THEN {<<>>} ELSE {first \o s \o last : s \in Batches(w, out)}

\* What a turn sent is then in the channels, not in "out".  The turn may be on a
\* REPLY, of the worker "from".
BrokerTurn(from, outcomes) ==
    /\ Running(broker)
    /\ \E end \in {EndTurn(b) : b \in outcomes} :
          /\ broker' = [end EXCEPT !.out = NoOutput]
          /\ handed' = HandedAfter(handed, end.out)
          /\ replied' = [r \in Request |-> [w \in Worker |->
                            IF r = end.out.reply /\ w = from
                            THEN replied[r][w] + 1 ELSE replied[r][w]]]
          /\ \E sent \in [Worker -> UNION {Sendings(w, end.out) : w \in Worker}] :
                /\ \A w \in Worker : sent[w] \in Sendings(w, end.out)
                /\ down' = [w \in Worker |-> down[w] \o sent[w]]
    /\ UNCHANGED <<proc, job, workerVars, clientVars, everyone>>

HandleMessage(w, m) ==
    CASE m.kind = "READY"     -> HandleReady(w)
      [] m.kind = "REPLY"     -> HandleReply(w, m.req)
      [] m.kind = "HEARTBEAT" -> HandleHeartbeat(w)

\* A READY for which Obj, being finite, has no object left until one expires.
Stalled(w) ==
    up[w] # <<>> /\ Head(up[w]).kind = "READY" /\ ~Registered(w) /\ Unused(w) = {}

TakeUp(w) ==
    /\ up[w] # <<>>
    /\ ~Stalled(w)
    /\ BrokerTurn(w, HandleMessage(w, Head(up[w])))
    /\ up' = [up EXCEPT ![w] = Tail(@)]
    /\ UNCHANGED submitted

TakeRequest(r) ==
    /\ client[r] # "new" /\ r \notin submitted
    /\ BrokerTurn(NoWorker, HandleClient(r))
    /\ submitted' = submitted \cup {r}
    /\ UNCHANGED up

TakeNothing == BrokerTurn(NoWorker, {Begin}) /\ UNCHANGED <<up, submitted>>
-----------------------------------------------------------------------------
(***************************************************************************)
(* A worker: one turn of recv(), on a message or on a poll that ran out,   *)
(* closed by the heartbeat if it is time.                                  *)
(***************************************************************************)
\* What the broker still gets of what w has sent when its socket is closed.
Kept(w) == {SubSeq(up[w], 1, n) : n \in 0..Len(up[w])}

\* Mutant of Reconnect: READY is said only once.
ReconnectSilently(w) ==
    /\ \E kept \in Kept(w) : up' = [up EXCEPT ![w] = kept]
    /\ down'     = [down EXCEPT ![w] = <<>>]
    /\ liveness' = [liveness EXCEPT ![w] = Liveness]
    /\ beatDue'  = [beatDue EXCEPT ![w] = FALSE]

\* reconnect_to_broker: a new socket, READY, and the counters anew.
Reconnect(w) ==
    /\ \E kept \in Kept(w) : up' = [up EXCEPT ![w] = Append(kept, Ready)]
    /\ down'     = [down EXCEPT ![w] = <<>>]
    /\ liveness' = [liveness EXCEPT ![w] = Liveness]
    /\ beatDue'  = [beatDue EXCEPT ![w] = FALSE]

\* The end of a turn that did not reconnect.
Beat(w) ==
    /\ up' = IF beatDue[w] THEN [up EXCEPT ![w] = Append(@, Message("HEARTBEAT", NoReq))]
             ELSE up
    /\ beatDue' = [beatDue EXCEPT ![w] = FALSE]

\* The thread ends, or the process, and with it the socket.
End(w) ==
    /\ proc' = [proc EXCEPT ![w] = "dead"]
    /\ job'  = [job EXCEPT ![w] = NoReq]
    /\ \E kept \in Kept(w) : up' = [up EXCEPT ![w] = kept]
    /\ down' = [down EXCEPT ![w] = <<>>]

ownUnchanged == UNCHANGED <<broker, submitted, handed, clientVars, replied, everyone>>

Receives(w, kind) ==
    /\ Polling(w) /\ ~Asleep(w)
    /\ down[w] # <<>> /\ Head(down[w]).kind = kind
    /\ quiet' = [quiet EXCEPT ![w] = FALSE]
    /\ ownUnchanged

TakeHeartbeat(w) ==
    /\ Receives(w, "HEARTBEAT")
    /\ liveness' = [liveness EXCEPT ![w] = Liveness]
    /\ down' = [down EXCEPT ![w] = Tail(@)]
    /\ Beat(w)
    /\ UNCHANGED <<proc, job, lead>>

TakeDisconnect(w) ==
    /\ Receives(w, "DISCONNECT")
    /\ Reconnect(w)
    /\ UNCHANGED <<proc, job, lead>>

\* recv returns with the request.  Popping the own endpoint is a KeyError if it
\* is not there, and to a worker that is done the request only says to end.
TakeJob(w) ==
    /\ Receives(w, "REQUEST")
    /\ LET m == Head(down[w])
       IN  /\ lead' = [lead EXCEPT ![w] = m.lead]
           /\ IF proc[w] = "idle" /\ m.own
              THEN /\ proc' = [proc EXCEPT ![w] = "busy"]
                   /\ job'  = [job EXCEPT ![w] = m.req]
                   /\ down' = [down EXCEPT ![w] = Tail(@)]
                   /\ UNCHANGED up
              ELSE End(w)
    /\ liveness' = [liveness EXCEPT ![w] = Liveness]
    /\ UNCHANGED beatDue

\* The last quiet poll sends the worker to sleep, without a heartbeat.
PollEnds(w) ==
    /\ Polling(w) /\ ~Asleep(w)
    /\ quiet[w] /\ down[w] = <<>>
    /\ quiet' = [quiet EXCEPT ![w] = FALSE]
    /\ liveness' = [liveness EXCEPT ![w] = @ - 1]
    /\ IF liveness[w] = 1 THEN UNCHANGED <<up, beatDue>> ELSE Beat(w)
    /\ ownUnchanged /\ UNCHANGED <<proc, job, down, lead>>

\* It reconnects after the sleep; what has arrived meanwhile is lost.
Wake(w) ==
    /\ Asleep(w) /\ quiet[w]
    /\ quiet' = [quiet EXCEPT ![w] = FALSE]
    /\ Reconnect(w)
    /\ ownUnchanged /\ UNCHANGED <<proc, job, lead>>

RecvTurn(w) ==
    TakeHeartbeat(w) \/ TakeDisconnect(w) \/ TakeJob(w) \/ PollEnds(w) \/ Wake(w)

\* Who replies: the leader, or in some services every worker of the group.
Replies(w) == lead[w] \/ SvcOf[w] \in everyone

Returns(w) ==
    /\ proc[w] = "busy" /\ job[w] \notin Failing
    /\ proc' = [proc EXCEPT ![w] = "done"]
    /\ job'  = [job EXCEPT ![w] = NoReq]
    /\ ownUnchanged /\ UNCHANGED <<down, workerVars>>

\* Mutants of Work: the reply is kept, and sent with the next recv() too; or
\* nobody asks who leads.
WorkTwice(w) ==
    /\ Returns(w)
    /\ LET reply == Message("REPLY", job[w])
       IN  up' = IF Replies(w) THEN [up EXCEPT ![w] = @ \o <<reply, reply>>] ELSE up
WorkForAll(w) ==
    /\ Returns(w)
    /\ up' = [up EXCEPT ![w] = Append(@, Message("REPLY", job[w]))]

\* process() returns: a result, which the second recv() sends before it polls,
\* or None.
Work(w) ==
    /\ Returns(w)
    /\ up' = IF Replies(w) THEN [up EXCEPT ![w] = Append(@, Message("REPLY", job[w]))]
             ELSE up

\* process() raises.
FailWork(w) ==
    /\ proc[w] = "busy" /\ job[w] \in Failing
    /\ proc' = [proc EXCEPT ![w] = "done"]
    /\ job'  = [job EXCEPT ![w] = NoReq]
    /\ ownUnchanged /\ UNCHANGED <<up, down, workerVars>>

Exit(w) ==
    /\ w \in Mortal /\ proc[w] # "dead"
    /\ End(w)
    /\ ownUnchanged /\ UNCHANGED workerVars

\* The agent is started again: a new worker connects.
StartAgain(w) ==
    /\ w \in Mortal /\ proc[w] = "dead" /\ Len(up[w]) <= Slack
    /\ proc' = [proc EXCEPT ![w] = "idle"]
    /\ Reconnect(w)
    /\ quiet' = [quiet EXCEPT ![w] = FALSE]
    /\ lead'  = [lead EXCEPT ![w] = FALSE]
    /\ ownUnchanged /\ UNCHANGED job
-----------------------------------------------------------------------------
(***************************************************************************)
(* A client sends one request, and polls once.                             *)
(***************************************************************************)
othersUnchanged == UNCHANGED <<vars, up, down, workerVars, replied, everyone>>

Served(r) == \E w \in Worker : replied[r][w] > 0

ClientSend(r) ==
    /\ client[r] = "new"
    /\ client' = [client EXCEPT ![r] = "waiting"]
    /\ UNCHANGED overdue /\ othersUnchanged

ClientRecv(r) ==
    /\ client[r] = "waiting" /\ Served(r)
    /\ client' = [client EXCEPT ![r] = "answered"]
    /\ UNCHANGED overdue /\ othersUnchanged

\* recv returns None, and run() breaks "on failure to reply".
GiveUp(r) ==
    /\ client[r] = "waiting" /\ ~Served(r) /\ overdue[r]
    /\ client' = [client EXCEPT ![r] = "gaveup"]
    /\ UNCHANGED overdue /\ othersUnchanged
-----------------------------------------------------------------------------
\* With no slack, all that is due is done before the next interval.
AllDone ==
    /\ \A w \in Worker : ~(Polling(w) /\ quiet[w])
    /\ \A r \in Request : client[r] = "new" \/ r \in submitted
    /\ \A r \in Request : client[r] = "waiting" => ~Served(r) /\ ~overdue[r]

SystemTick ==
    /\ Running(broker)
    /\ ~broker.heartbeatDue
    /\ \A w \in Worker : /\ Len(up[w]) <= Slack \/ Stalled(w)
                         /\ Polling(w) /\ (quiet[w] \/ ~Asleep(w)) => Len(down[w]) <= Slack
    /\ Slack = 0 => AllDone
    /\ broker' = [broker EXCEPT !.left = [o \in Obj |-> Pred(@[o])], !.heartbeatDue = TRUE]
    /\ beatDue' = [w \in Worker |-> proc[w] # "dead"]
    /\ quiet'   = [w \in Worker |-> Polling(w)]
    /\ overdue' = [r \in Request |-> client[r] = "waiting"]
    /\ UNCHANGED <<proc, job, submitted, handed, up, down, liveness, lead, client, replied,
                   everyone>>

SystemNext ==
    \/ \E w \in Worker : \/ TakeUp(w) \/ RecvTurn(w)
                         \/ Work(w) \/ FailWork(w) \/ Exit(w) \/ StartAgain(w)
    \/ \E r \in Request : TakeRequest(r) \/ ClientSend(r) \/ ClientRecv(r) \/ GiveUp(r)
    \/ TakeNothing
    \/ SystemTick

SystemSpec == SystemInit /\ [][SystemNext]_systemVars

\* Messages arrive and live threads run.  Time passes: what disables the Tick is
\* a bound of the model, not of time, hence strong fairness.  A client sends when
\* it likes, process() need not end (its wait for peers has no timeout), and
\* nobody has to start an agent again.
FairSystemSpec ==
    /\ SystemSpec
    /\ \A w \in Worker :
          WF_systemVars(TakeUp(w)) /\ WF_systemVars(RecvTurn(w))
    /\ \A r \in Request :
          WF_systemVars(TakeRequest(r)) /\ WF_systemVars(ClientRecv(r) \/ GiveUp(r))
    /\ WF_systemVars(TakeNothing)
    /\ SF_systemVars(SystemTick)
-----------------------------------------------------------------------------
UpMessage ==
    {Ready, Message("HEARTBEAT", NoReq)} \cup {Message("REPLY", r) : r \in Request}
DownMessage ==
    {Message("DISCONNECT", NoReq), Message("HEARTBEAT", NoReq)}
    \cup {JobMessage(r, own, leads) : r \in Request, own \in BOOLEAN, leads \in BOOLEAN}

SystemTypeOK ==
    /\ TypeOK
    /\ up       \in [Worker -> Seq(UpMessage)]
    /\ down     \in [Worker -> Seq(DownMessage)]
    /\ liveness \in [Worker -> 0..Liveness]
    /\ beatDue  \in [Worker -> BOOLEAN]
    /\ quiet    \in [Worker -> BOOLEAN]
    /\ lead     \in [Worker -> BOOLEAN]
    /\ client   \in [Request -> {"new", "waiting", "answered", "gaveup"}]
    /\ overdue  \in [Request -> BOOLEAN]
    /\ replied  \in [Request -> [Worker -> Nat]]
    /\ everyone \subseteq Service

\* The right of w to reply to r is in one of these places: a REQUEST on its way,
\* process(), or its REPLY on the way back.
Asked(w, r)   == \E own, leads \in BOOLEAN : Contains(down[w], JobMessage(r, own, leads))
Works(w, r)   == proc[w] = "busy" /\ job[w] = r
Answers(w, r) == {i \in DOMAIN up[w] : up[w][i] = Message("REPLY", r)}

\* Only a worker of the group has it, in one form at a time: as long as it may
\* still begin to work there is no REPLY yet, and there is at most one.
OneAnswer(w, r) ==
    /\ replied[r][w] <= 1
    /\ Asked(w, r) \/ Works(w, r) \/ Answers(w, r) # {} \/ replied[r][w] > 0 =>
          w \in handed[r].to
    /\ (Asked(w, r) /\ proc[w] = "idle") \/ Works(w, r) =>
          replied[r][w] = 0 /\ Answers(w, r) = {}
    /\ Answers(w, r) # {} => replied[r][w] = 0
    /\ \A i, j \in Answers(w, r) : i = j

\* Where not everyone replies, those who do not lead have nothing to reply.
OnlyLeader(w, r) ==
    ReqSvc[r] \notin everyone /\ w # handed[r].leader =>
        /\ \A own \in BOOLEAN : ~Contains(down[w], JobMessage(r, own, TRUE))
        /\ ~(Works(w, r) /\ lead[w])
        /\ Answers(w, r) = {} /\ replied[r][w] = 0

\* The inductive invariant of the whole protocol.
SystemInv ==
    /\ SystemTypeOK
    /\ BrokerOK(broker) /\ broker.out = NoOutput
    /\ BusyHasJob /\ OneLeader /\ NoLostWakeup /\ QueueConserved
    /\ \A w \in Worker : proc[w] = "dead" => down[w] = <<>>
    /\ \A w \in Worker, r \in Request : OneAnswer(w, r) /\ OnlyLeader(w, r)

\* A client is sent no reply twice, whatever happens to the group that works on
\* its request: a worker may register twice, be sent the request twice, die and be
\* started again, but each one replies at most once, if it was sent the request;
\* and where process() looks at leader_bool, nobody but the leader.
AnswerOnce ==
    \A r \in Request, w \in Worker :
        /\ replied[r][w] <= 1
        /\ replied[r][w] > 0 => /\ w \in handed[r].to
                                /\ ReqSvc[r] \in everyone \/ w = handed[r].leader

\* As long as messages are prompt, no worker dies and none is slow, heartbeats
\* keep every waiting worker from expiring: each one in a service's queue is
\* registered and has time left, and deleting never fails.
LiveKept ==
    /\ broker.status # "KeyError"
    /\ Running(broker) =>
          \A o \in Obj : broker.svcWaiting[o] > 0 =>
              broker.workers[OwnerOf[o]] = o /\ broker.left[o] > 0

\* Messages are prompt: no slack, nobody dies but by what the code does, an expiry and
\* a liveness of more than one interval, and a Worker object for every process.
Timely ==
    /\ Slack = 0 /\ Mortal = {}
    /\ Lifetime > 1 /\ Liveness > 1
    /\ \A w \in Worker : \E o \in Obj : OwnerOf[o] = w

Beats(q)        == \A i \in DOMAIN q : q[i].kind = "HEARTBEAT"
BeatsAnd(q, kind) ==
    /\ q # <<>> /\ q[Len(q)].kind = kind
    /\ \A i \in DOMAIN q : i # Len(q) => q[i].kind = "HEARTBEAT"

\* Where a worker is between its READY and the next, when u is on its way to the
\* broker and d on its way back.
Joining(w, u, d) ==
    Polling(w) /\ u = <<Ready>> /\ d = <<>> /\ liveness[w] = Liveness
Called(w, u, d) ==
    Polling(w) /\ Beats(u) /\ BeatsAnd(d, "REQUEST") /\ liveness[w] # 0
Working(w, u, d) ==
    proc[w] = "busy" /\ Beats(u) /\ d = <<>> /\ liveness[w] = Liveness
Replying(w, u, d) ==
    proc[w] = "done" /\ BeatsAnd(u, "REPLY") /\ d = <<>> /\ liveness[w] = Liveness
Spare(w, u, d)    == proc[w] = "done" /\ Beats(u) /\ d = <<>>  \* asleep at the end
Leaving(w, u, d) ==
    proc[w] = "done" /\ u = <<Ready>> /\ d = <<>> /\ liveness[w] = Liveness
Rejected(w, u, d) ==
    /\ proc[w] = "done" /\ liveness[w] = Liveness
    /\ u = <<>> /\ d = <<Message("DISCONNECT", NoReq)>>
Gone(w, u, d)     == proc[w] = "dead" /\ Beats(u) /\ d = <<>>

\* In the queue.  A heartbeat is due, on its way or in time, in both directions.
Waiting(w, b, u, d) ==
    LET left == b.left[b.workers[w]]
    IN  /\ Polling(w) /\ Beats(u) /\ Beats(d)
        /\ left = Lifetime \/ (left = Lifetime - 1 /\ (quiet[w] \/ u # <<>>))
        /\ liveness[w] \in {Liveness, Liveness - 1}
        /\ quiet[w] => liveness[w] = Liveness
        /\ quiet[w] \/ liveness[w] # Liveness => d # <<>> \/ b.heartbeatDue

Waits(w, b) == b.workers[w] # NoObj /\ b.svcWaiting[b.workers[w]] > 0

Placed(w, b, u, d) ==
    IF b.workers[w] = NoObj THEN Joining(w, u, d) \/ Rejected(w, u, d)
    ELSE IF Waits(w, b) THEN Waiting(w, b, u, d)
    ELSE \/ Called(w, u, d) \/ Working(w, u, d) \/ Replying(w, u, d)
         \/ Spare(w, u, d) \/ Leaving(w, u, d) \/ Gone(w, u, d)

\* The two queues agree, and no object is in them that is not registered.
NoStale(b) ==
    \A o \in Obj : /\ b.waiting[o] = b.svcWaiting[o] /\ b.waiting[o] <= 1
                   /\ b.waiting[o] > 0 => b.workers[OwnerOf[o]] = o

\* The inductive invariant of the protocol without delays and deaths.
PromptInv ==
    /\ broker.status # "KeyError"
    /\ Running(broker) =>
          /\ NoStale(broker)
          /\ \A w \in Worker :
                /\ Placed(w, broker, up[w], down[w])
                /\ quiet[w] => Polling(w) /\ beatDue[w] /\ up[w] = <<>>

\* A worker that polls gets (back) into the queue of its service, whatever the
\* broker took it for: expired, unknown or registered twice.  It may get a
\* request or end instead.  (Liveness, DISCONNECT and READY work together.)
InQueue(w) == \E o \in Obj : OwnerOf[o] = w /\ broker.svcWaiting[o] > 0
Rejoins ==
    \A w \in Worker :
        Polling(w) ~> InQueue(w) \/ proc[w] \in {"busy", "dead"} \/ ~Running(broker)

\* As long as messages are prompt and nobody dies, no request that was handed out
\* is lost on its way, and no reply: each worker that is to reply does, client or
\* no client, unless process() raises, or never ends, or the request has ended the
\* worker, because its own endpoint was not in it or the worker was done.
HandedIsAnswered ==
    \A r \in Request \ Failing, w \in Worker :
        w \in handed[r].to /\ (ReqSvc[r] \in everyone \/ w = handed[r].leader) ~>
            \/ replied[r][w] = 1
            \/ [](proc[w] = "busy" /\ job[w] = r)
            \/ proc[w] = "dead"
            \/ ~Running(broker)
=============================================================================
