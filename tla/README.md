# Verification of the Auxo platform

TLA+ models of the Auxo Olympus platform (`src/auxo_olympus/lib`), the TLC
configurations that check them, and TLAPS proofs about them. `PROJECT.json` lists
every component, run, finding, hazard and theorem with the lines it is about.

## The system

Clients ask a broker for a service; agents offer services through workers; the broker
hands a request to a group of workers and names one of them the leader; the workers of
the group may work together over peer ports, and the leader, or in the echo service each
of the group, replies to the client through the broker.

| component | file | state | operations |
|---|---|---|---|
| broker | `entities/mdbroker.py` | `workers`, `services` (each with `requests` and `waiting`), `waiting`, `worker_endpoints`, `heartbeat_at` | one message per turn of `run()`: READY, REPLY, HEARTBEAT, DISCONNECT, client request, `mmi.` discovery; then `purge_workers`, `send_heartbeats` |
| worker API | `entities/mdwrkapi.py` | socket, liveness, `heartbeat_at`, `reply_to`, `leader_bool`, peers | `recv(reply)`, `command_handler`, `reconnect_to_broker`, `destroy` |
| agent | `entities/mdagent.py`, `services/service_exe.py` | `result_q`, `got_req_q`, the service's thread, `self.worker` | `run`, `cleanup`; in the thread `run`, `process`, `quit` |
| peer port | `utils/mdpeer.py`, `service_exe.request_from_peers` | `state_space`, one receiving thread per peer, a proxy | `tie_to_peers`, `command_handler`, `stop` |
| echo, summation | `serviceExeEcho`, `serviceExeSumNums` | the request and the peers' summands | `process`, `work` |
| federated learning | `serviceExeFederatedLearning` | a trainer in `state_space` | `process`, training, averaging |
| vertex coloring | `serviceExeVertexColoring` | a color in `state_space` | `process` (not complete) |
| hybrid solar | `serviceExeHybridSolar` | a battery's `open_offers`, `commitments` and asks; a panel's `received_asks` and `portfolio` | find batteries, solicit, construct and hand out asks, accept |
| client | `entities/mdclient.py`, `mdcliapi.py` | its socket | `send`, `recv`, give up |

They interact by messages (client, broker and workers over ROUTER/DEALER sockets;
peers over ROUTER/DEALER and an in-process proxy), and inside an agent by two queues
of size one and the attribute `self.worker`, shared by two threads.

What is hard in it, and the properties that make it correct:

* The broker holds a waiting worker in two queues and a table, shortens them
  separately and removes by object identity, while workers expire, restart and
  register twice. The two queues must agree (`WaitingCovers`), or dispatch raises.
* A request must leave its queue exactly once, in order, towards live workers of its
  service with one leader (`RequestConservation`, `IsRequestQueue`, `OneLeader`,
  `OnlyUnexpired`), and must not wait beside a free worker (`NoLostWakeup`).
* A dead worker must be forgotten (`DeadForgotten`).
* Agent and service thread race over two queues, a timeout and a socket: what the
  agent prints must be what happened (`ReportHonest`), cleanup must be final
  but for one race in the code (`NoReplyAfterCleanup`), and the agent must end (`AgentEnds`).
* Heartbeats, expiries, liveness counters and reconnections run on timers that are not
  in phase, over sockets that lose what is in them when they are closed: a live worker
  must not expire while messages are prompt (`LiveKept`) and must get back into its
  queue whatever happened (`Rejoins`); a request that was handed out must be answered
  (`HandedIsAnswered`), by each worker only once and only by those that are to
  (`AnswerOnce`).
* The leader's computation must be right (`Correct`), for what its peers really hold
  (`KnownIsTrue`) and for the whole group (`GroupAnswer`), and the wait for them, which
  has no timeout, must end where it can (`GatherEnds`).
* In the market of the hybrid-solar service, three threads of a battery share its offers,
  asks and commitments without a lock, while panels act on what they were told: both
  sides must agree on every contract (`Agreement`), an offer must be there when it is
  taken up (`OfferOpen`), and a panel must not starve (`Served`).

## Modules

| module | models |
|---|---|
| `Broker` | `mdbroker.py`, with the worker processes reduced to what the broker sees |
| `RequestQueue` | what the broker promises about requests, with no worker queue in it |
| `RequestQueueProofs` | theorems about `RequestQueue` |
| `BrokerProofs` | theorems about `Broker`, and that it implements `RequestQueue` |
| `Agent` | `mdagent.Agent.run` and `service_exe.ServiceExeBase.run` in two threads |
| `AgentProofs` | theorems about `Agent` |
| `FindPair` | `work_functions.find_pair_adding_to_target` |
| `FindPairProofs` | theorems about `FindPair` |
| `Majordomo` | `Broker` composed with the workers of `mdwrkapi.py` and the clients of `mdclient.py`, over channels |
| `MajordomoProofs` | theorems about `Majordomo`, whatever is late, lost or dead |
| `PromptProofs` | theorems about `Majordomo` while messages are prompt |
| `PeerGather` | `mdpeer.py` and `request_from_peers` in a group, as the summation, the federated and the coloring service use them |
| `PeerGatherProofs` | theorems about `PeerGather` |
| `SolarMarket` | the hybrid-solar service, over the same peer ports |
| `SolarMarketProofs` | theorems about `SolarMarket` |
| `MCBroker`, `MCMajordomo`, `MCAgent`, `MCFindPair`, `MCPeerGather`, `MCSolarMarket` | values of the constants for TLC |

**Broker.** One turn of `run()` is one action: the broker is a single thread, and
nothing else touches its state. The variable `broker` is a record with one field per
attribute; each method is an operator from such a record to the record it leaves
(`DeleteWorker`, `PurgeWorkers`, `WorkerWaiting`, `SendHeartbeats`) or to the set of
those it may leave (`Dispatch`, where the leader is drawn at random or the interpreter
may raise). A turn composes them in the code's order: `Begin`, the handler, `EndTurn`,
which purges and heartbeats. An exception sets `status` and no turn follows, as `main`
catches only `KeyboardInterrupt`.

`Obj` is the set of Python `Worker` objects, distinct from the processes `Worker`,
because `list.remove` and the queues work with objects: `waiting` and `svcWaiting`
count how often each is in `self.waiting` and in its service's `waiting`. The order of
the worker queues is abstracted: `purge_workers` sorts, `dispatch` empties the queue,
and the leader is random, so no order is observable. `epBytes` and `epStr` are the keys
of `worker_endpoints`, before and after `strip_of_bytes` has converted them in place.
`GuardedDict` tells whether the interpreter raises when a dictionary's keys are swapped
while it iterates (CPython from 3.8) or only when its size changes. The runs use FALSE,
the interpreter with the larger behaviour; the proofs hold for both.

Time is counted in heartbeat intervals: `Tick` brings every expiry one step nearer and
makes a heartbeat due; `Lifetime` is the broker's `HEARTBEAT_LIVENESS`. A worker
process is idle, busy, done (in the second `recv` of `service_exe.run`) or dead; it
may send READY and HEARTBEAT whenever it lives, REPLY when it is busy, and may die and
be started again at any time.

**Agent.** Each step is one access to something the two threads share: a turn of the
main loop, the `get`, each of the two assertions, the four parts of `cleanup` (the join,
the two statements of `destroy`, `self.worker = None`); in the thread the two calls of
`recv`, the read of `self.worker` for the call of `process`, its assignment inside
`process`, the tie to the peers with the look at `leader_bool` (`Lead`), the computation,
the `put`s. `Interrupt` is Ctrl-C anywhere in the `try`. The socket closed by the other
thread makes `recv` return `None` or raise: both are allowed. `reconnect_to_broker` is three
steps: it tests `ctx` and closes the socket (`Drop`), opens a new one (`Open`) and sends
READY (`Announce`). `destroy` may come between any two of them; `reopened` records that the
new socket was opened after `destroy` had closed the old one and before it cleared `ctx`.
The service's thread runs on beside and after `cleanup`, until the process ends (`Exit`):
it is a daemon, and so are the threads it starts, the proxy of its peer port included,
because a thread inherits that flag.

**FindPair.** One step is one turn of the `while` loop, over any sorted rearrangement
of the list.

**Majordomo.** It extends `Broker` and takes its methods, handlers and turns as they
are; where `Broker` lets workers say what they like, here they run `recv()`. `up[w]` and
`down[w]` are the two directions of a worker's socket. A turn of the broker takes the
message in front of a channel (`TakeUp`), a client's request (`TakeRequest`) or nothing,
and puts what it sends into `down` in the code's order: DISCONNECT, REQUESTs, HEARTBEAT.
A turn of a worker is `TakeHeartbeat`, `TakeDisconnect`, `TakeJob` or a poll that ran out
(`PollEnds`), with the heartbeat at its end (`Beat`). `Reconnect` is
`reconnect_to_broker`: `linger` is 0, so `down` is emptied and any suffix of `up` may be
lost; `End` does the same when the thread or the process ends. Before it reconnects for lack
of liveness a worker sleeps an interval (`Asleep`, `Wake`), and what has arrived by then is
lost. `everyone` is the set of services in which every worker of a group returns a reply,
as echo does; in the others only the leader does (`Replies`). `handed` records whom a
request was sent to, `replied` how many of each worker's replies the broker has sent to
the client, which waits, takes the first reply or gives up after one poll.

All intervals in the code are 2.5 seconds, but the timers of different processes are not
in phase. `SystemTick` therefore makes every timer run out once, at any moment. `Slack`
bounds how late messages and threads may be: with 0 everything due is done within an
interval (the ordinary course of things), with more messages wait through intervals and
workers expire though they live. Two conditions of the tick are bounds of the model, not
of time: channels hold at most `Slack` messages when it comes (that to a worker that has just
gone to sleep may hold more, because nobody reads it), and a READY for which the finite `Obj`
has no object left waits (`Stalled`).

**PeerGather.** One group that a REQUEST has brought together, from any moment on:
`port` tells if the agent's port could be bound (the `except` passes the error over),
`tied` if its receiving threads and proxy run, `space` what is in its `state_space`.
The order of populating and tying is that of each service (`TiesFirst`). `call[p]` is the
leader's request to a peer: ZeroMQ keeps it until the peer's port is there, a receiving
thread answers from `space` whatever has become of `process()`, and the leader's loop
collects the answers. The broker names all the workers in its endpoint table as peers, and
sends the REQUEST to those that wait: an agent may be gone from the start, alive but not
`asked` (it then answers only if another REQUEST makes it tie), may refuse before it ties,
and may die at any time.
A follower of the federated service has no step when it is ready: it spins on a flag no
code clears. The leader's `Inform` always fails, as `inform_peers` calls `send` with an
argument missing, and `Miscall` is the coloring's list where a dictionary is expected.

**SolarMarket.** A panel is one thread that calls `request_from_peers` four times (asset
types, solicitation, asks in a loop, acceptance), each time waiting for all it asked. A
battery is the thread of its service, which makes one pass over the solicitations there
are (`StartPass` ... `EndPass`), and receiving threads, which note solicitations (`Note`),
hand out asks (`HandOut`) and run `ask_accepted`, in two steps because others may come
between: `Check` removes the offer and looks at the commitments, `Commit` appends. A
solicitation during the pass changes the dictionary's size and ends the pass with
RuntimeError (`PassBreaks`); one for more than there is room for ends it too
(`CannotAsk`). An exception in a receiving thread loses what the proxy has already put
into its socket (`ThreadEnds`). Prices are abstracted, so a panel accepts any of its asks;
panels always solicit, as their expected revenue never reaches the threshold.

## Runs

| run | question | bounds |
|---|---|---|
| `MCBrokerPair` | do the queues and tables agree, with stale objects, restarts and double registrations? | 2 workers of one service, 2 objects each, 1 request, lifetime 1 |
| `MCBrokerQueue` | are requests conserved, in order, handed out once and to their own service? | 2 services: 2 objects and 2 requests of one, 1 and 1 of the other, lifetime 1 |
| `MCMajordomoPrompt` | while messages are prompt: are waiting workers kept, does a worker that is done come back, does each worker that is to reply do so, once, whether the leader replies or everyone? | 2 workers, 2 objects each, 2 requests, one of which fails; lifetime 3, liveness 2, slack 0 |
| `MCMajordomoLate` | with late messages and a worker that dies and restarts: do live workers come back, are dead ones forgotten? | 2 workers, 2 objects each, no requests; lifetime 1, liveness 1, slack 1 |
| `MCAgentTimeout` | are the agent's reports true, what can leave after its cleanup, does it end? | 3 REQUESTs |
| `MCFindPair` | is the search right? | lists up to 4 of 4 numbers, 9 targets |
| `MCPeerGather` | what does the leader learn, is its reply right for the group, when does it hang? | 3 agents, each asked or not, 2 data, 1 target, 2 epochs |
| `MCSolarMarket` | do panels and batteries agree, and who gets no contract? | 2 batteries, one of which may die, 2 panels, amounts below and above the room |
| `MCSolarCrowd` | is a panel served when others end receiving threads? | 1 battery, 3 panels |

Two objects of one process are the least with which a stale object and a new
registration coexist; two workers are the least group with a leader and a follower; two
requests of a service the least with an order. A third REQUEST lets the agent's inbox
hold one while two are taken. `MCBrokerEndpoints` has three objects and lifetime 2, so
that a worker is registered, answers and is dispatched again. In `MCMajordomoPrompt` the
lifetime exceeds the liveness by one, as in the code (4 and 3), and both exceed 1. In
`MCMajordomoLate` lifetime and liveness are 1, so that everything that can run out does;
it has no requests, because late messages, requests and fairness together are beyond
TLC, and what becomes of requests when workers die and sockets are lost is proved
instead (`SystemInvariance`). Three agents give a leader two answers that come in either
order; two epochs make it ask again. Two panels solicit before, during and after a
battery's pass; the third panel at one battery is the first whose acceptance finds too
much committed.

Three runs expect a violation: each states what a comment, an assertion or the
documentation says, and TLC shows the behaviour that contradicts it (`PROJECT.json`,
"findings"). The expiry of an object that was deleted before ends the broker with
`KeyError` (`MCBrokerDeletedTwice`); a second heartbeat between two dispatches ends it
with `RuntimeError` (`MCBrokerEndpoints`); a battery accepts more than it has room for,
because it checks before it appends (`MCSolarCapacity`).

More of what the code does can be read off the definitions:

* A request that overtakes a worker's first heartbeat lacks the worker's own endpoint and
  ends its thread (`TakeJob`, `Victims`); the next ones name peers that are dead
  (`StripOfBytes`), and all go to all waiting workers, `multiple_bool` or not (`Entries`).
* A worker that dies while busy is in no queue that is purged and stays registered
  (`Expired`); discovery compares bytes with a string and always answers 501
  (`HandleInternal`).
* The expiry of a stale object takes the new registration of the same process with it
  (`PurgeExpired`), so a worker that waits may be unregistered: `Rejoins` is about the
  queue, and while messages are late it would be false of the table.
* The agent's assertions may fail when its service puts in between (`AssertEmpty`); a
  service that has replied reports only after another request (`Recv2`), and only then
    is its agent done, without a timeout perhaps never.
* In an echo group every worker replies (`Replies`), so the client is sent as many replies
  as there were workers waiting, and reads one: `AnswerOnce` is about each worker.
* `reconnect_to_broker` may open a socket between `destroy`'s close and its `ctx = None`.
  That socket stays, and over it the thread may take a request and reply until the process
  ends: the exception that `NoReplyAfterCleanup` makes, and the only one.
* A worker named as a peer that is alive but was not sent the REQUEST makes the leader wait
  for ever, like a dead one (`Unavailable`).
* A follower that returns without a reply is not queued again until its liveness has run
  out and it has said READY, been disconnected as a double and said READY again: the
  chain that `Rejoins` checks.

Because the broker does end with `KeyError` and `RuntimeError`, the properties that speak
of its work say so: `OnlyUnexpired`, `NoLostWakeup`, `DeadForgotten`, `Rejoins` and
`HandedIsAnswered` are about a broker that runs. `WaitingCovers` is not: it includes that `ValueError` never
occurs. Nor are `RequestConservation` and `AnswerOnce`. `LiveKept` excludes `KeyError` where
messages are prompt; `RuntimeError`, which needs no delay, ends what it says of the queues.

### Fairness

`FairSystemSpec` of `Majordomo` has weak fairness of each kind of turn of the broker
(a poll returns after at most the heartbeat interval, and ZeroMQ takes the senders in
turn), of each worker's `recv()`, and of a client that waits. It has none of `process()`:
`request_from_peers` has no timeout, the hybrid-solar service loops for ever and a federated
follower spins, so `HandedIsAnswered` and `Rejoins` allow for a worker that stays in it.
Nobody has to send a request, to die or to be started again. `SystemTick` has strong fairness: time
always passes, but in the model the tick waits for the channels to be short enough, again
and again, and under weak fairness time could stop.

`PeerGather!FairSpec` and `SolarMarket!FairSpec` have weak fairness of the threads of
processes that live; `Refuse` and `Die` are never due, and in `PeerGather` `process()` is
due only in the agents the REQUEST reaches. `GatherEnds` and `Served` name the
peers that will never answer and so say that there is no other reason to wait for ever.

`Agent!FairSpec` has weak fairness of the main thread, which the interpreter schedules,
and of `Elapse`; none of the service's thread, the broker or a peer. `FindPair!FairSpec`
has a sequential loop take its next turn.

Deadlock is checked for the broker alone, which always has another turn or a worker that
may restart. The agent, the search, a group and a market do stop, and so does the
composition once the broker has ended with an exception; their configurations say so.

## Proofs

For every set of workers, objects, services and requests, every lifetime and liveness and
both kinds of interpreter; for every group, list of peers and datum; and for every number of
panels and batteries, amounts and rooms:

* `RequestQueueProofs`: `Conserves`. A queue that grows at its end and shrinks at its
  front holds each request once, under its service, from submission until it is handed out.
* `BrokerProofs`, the tables: `Invariance`, from `IndInv`. `TypeOK` and `WaitingCovers` are
  not inductive alone: a removal counts one object of the process it is registered under
  (`RegisteredUnderOwner`), a dispatch takes only objects and requests of the same
  service (`QueuedByService`), a REPLY needs a request to answer (`BusyHasJob`). Each
  method has a lemma that it keeps `BrokerOK`; `TurnKeepsInv` composes a handler with the
  end of the turn; `LoopInv` has one step per handler.
  `WaitingAlwaysCovers` and `AlwaysOneLeader` follow.
* `BrokerProofs`, the queues: `NeverLostWakeup` and `SendsOnlyToUnexpired`. Each method is
  shown to leave every service with an empty request queue or no waiting worker; purging
  only shrinks the queues, and what it leaves is unexpired.
* `BrokerProofs`, the refinement: `ImplementsRequestQueue`, and with it
  `QueueAlwaysConserved` and `RequestsConserved`. Every method keeps the request queues
  (`Keeps`) or takes one request from the front of one and sends it (`Hands`); a whole turn
  is then a `Submit`, a `SubmitAndHand`, a `Hand`, a failure or a stutter of
  `RequestQueue`. That a request submitted and handed out in one turn is the same one needs
  `NoLostWakeup`: where a worker waited, the queue was empty. That no turn fails after it
  has sent needs that the dispatch has purged before: `EndTurn` then finds no expired worker
  (in `Hands`). That what is handed out was not handed out before needs `QueueConserved`,
  which is therefore carried along; that it is kept is no new induction but the instance `Q`
  of `RequestQueueProofs`.
* `MajordomoProofs`: `SystemInvariance`, from `SystemInv`, and `AnsweredOnce`, whatever
  is lost, late, dead or started again. A worker's right to reply to a request is a token:
  a REQUEST on its way (`Asked`), `process()` (`Works`), a REPLY on its way back
  (`Answers`). `AnswerOnce` alone says nothing of it. `OneAnswer` says that only the workers
  the request was handed to have a token, that there is no REPLY of a worker as long as
  it may still begin, and at most one later; `OnlyLeader` says that where `process()` looks
  at `leader_bool`, no other worker is told to lead or has a REPLY. A worker sent the same
  request twice takes it once, because it is not idle after, and its death empties its
  channel. A second reply of the same worker comes to be excluded only because the broker
  hands each request out once (`QueueConserved`). `SystemImplementsRequestQueue` shows that the broker
  keeps its promise when the workers are those of the code: one lemma per action gives both
  the invariant and the step of the queue.
* `PromptProofs`: `PromptInvariance` and `HeartbeatsKeepAlive`, under the hypothesis
  `Timely`: no slack, nobody dies but by what the code does, a lifetime and a liveness above
  one interval, an object for each process. The code has 4 and 3, and `MCMajordomoPrompt` is
  an instance. `LiveKept` is about the broker's queues; what it depends on is in two
  channels and four timers. `PromptInv` says in which of nine places a worker
  is (`Placed`: its READY on the way, waiting, called, working, replying, done, which
  includes the sleep before it says READY again, ...), with what may then be in both its
  channels; for one that waits (`Waiting`), that its expiry is renewed
  in time, because a heartbeat is due or on its way whenever it has lost an interval, and the
  same for its liveness and the broker's heartbeats. `NoStale` adds that no object is in a
  queue that is not registered, so that nothing that expires or is deleted is missing.
  For a turn of the broker, the handler's part up to its dispatch (`Starts`), the dispatch,
  which moves workers from waiting to called (`Deals`), and the end of the turn, which only
  sends, are shown to leave every worker placed (`TurnPlaces`); one lemma per handler and per
  step of a worker says what changes place. An expiry loses at most one
  interval before it is renewed, because the tick waits until all that is due is done.
* `AgentProofs`: `HonestReports` and `CleanupIsFinal`, from an invariant that ties the
  status in `result_q` to the thread that ended with it, and says that the worker outlives
  every step of `run()` but the last and that a thread which lives on after `cleanup` has
  neither socket nor context, unless it has reopened the socket (`WorkerOK`).
* `FindPairProofs`: `AlwaysCorrect`, on lists of any length. The invariant: no pair that
  adds up to the target lies outside the two indices.
* `PeerGatherProofs`: `KnowsTheTruth` and `AnswersForAll`, from `IndInv`. How far
  `process()` has come shows in the state space and the threads (`Progress`): where a
  service populates before it ties, what answers is populated. An answer then says what
  the peer was started with (`Answers`), and a leader at work has seen one from every
  peer it was named. One lemma per action.
* `SolarMarketProofs`: `SidesAgree` and `OfferIsOpen`. The invariant follows a deal from
  the solicitation heard, through the ask, the offer and the checked call, to the
  commitment: a commitment is to a panel that was asked and chose this battery, an offer
  goes only when the panel asked has chosen, and a panel has a contract only after an
  answer. It takes three strengthenings that are about neither property: a panel that has
  found its batteries has no call to a panel under way (`ChoiceOK`), there is no ask before
  the pass, and none yet to those the pass still has to do (`PassOK`). `PassBreaks` and
  `ThreadEnds` lose calls, never commitments.

The assumptions are those named `...Assumption` in the modules: the tables that say
which service a worker and a request belong to are functions, the `No...` values are
not members, lifetime and liveness are positive. `Majordomo` adds that `Obj` is
finite: the broker sends one REQUEST for each waiting object, and a sequence of messages that
one turn sends must end. `Timely` is a hypothesis of two theorems only, not an assumption.

Model-checked only: everything under fairness (`DeadForgotten`, `Rejoins`,
`HandedIsAnswered`, `AgentEnds`, `Returns`, `GatherEnds`, `Served`), which the prover
does not reach, and the three runs that expect a violation. Every safety property of a
passing run is proved.

## Not modelled

The learning itself (numerical), the ZeroMQ samples, the tests (scripts that open
terminals), logging, socket monitors, message framing and `verbose` output. `destroy()`
of the broker is never called. A client's request is taken to be a JSON object, as
`mdclient.py` sends it, and a client sends one. Asks have no price and contracts no
expiry: no code between the agents looks at either again. `is_subset_sum`,
`solicitation_accepted`, `compute_reliability` and `get_percent_charge` are called by no
service. `PeerPort.stop` only sets a flag that no thread of the port reads, and clears a
state space that is not used again.

## Plan

1. `WithinCapacity` is false, as more than one acceptance may pass the check before any of
   them is appended. State the bound that the code does keep, by how many receiving threads
   there are; check it, prove it.
2. The safety half of `Rejoins` without promptness: where a live worker can be when the
   broker does not have it in a queue (`Placed`, with losses).
3. `Spec => RequestQueue!Spec` says nothing of replies: an abstract service of which
   `Majordomo` is an implementation, with `AnsweredOnce` as its invariant.
