------------------------------- MODULE Broker -------------------------------
(***************************************************************************)
(* The Majordomo broker of auxo_olympus/lib/entities/mdbroker.py.          *)
(*                                                                         *)
(* The broker is one thread: each turn of its run() loop polls its ROUTER  *)
(* socket, handles at most one message, purges the expired workers and, if *)
(* it is time, heartbeats the waiting ones.  One turn is one action here.  *)
(* Its state is the record "broker"; a method of MajorDomoBroker is an     *)
(* operator from such a record to the record it leaves behind (or, where   *)
(* the code draws a random leader, to the set of records it may leave), so *)
(* that a turn is the composition of the methods the code calls, in the    *)
(* order in which it calls them.                                           *)
(*                                                                         *)
(* A Python Worker object is not the worker process it stands for: the     *)
(* broker may hold several objects of one process, and removes them by     *)
(* object identity.  Obj is the set of those objects.                      *)
(*                                                                         *)
(* The worker processes (mdwrkapi.py under service_exe.py) are reduced to  *)
(* what the broker can tell of them: "proc" and "job" at the end.          *)
(***************************************************************************)
EXTENDS Naturals, Sequences, FiniteSets

CONSTANTS
    Worker,       \* worker identities, "A01.echo": an agent and its service
    Service,      \* service names
    Request,      \* client requests, each sent once
    Obj,          \* Worker objects the broker can create
    SvcOf,        \* the service a worker registers for
    ReqSvc,       \* the service a request asks for
    OwnerOf,      \* the worker process a Worker object stands for
    Lifetime,     \* ticks from a sign of life to the expiry
    GuardedDict,  \* does the interpreter refuse a key swap during iteration?
    NoObj, NoReq, NoWorker

ASSUME BrokerAssumption ==
    /\ SvcOf \in [Worker -> Service]
    /\ ReqSvc \in [Request -> Service]
    /\ OwnerOf \in [Obj -> Worker]
    /\ Lifetime \in Nat \ {0}
    /\ GuardedDict \in BOOLEAN
    /\ NoObj \notin Obj
    /\ NoReq \notin Request
    /\ NoWorker \notin Worker

VARIABLES
    broker,     \* the broker process, see BrokerType
    proc,       \* what each worker process is doing
    job,        \* the request a busy process works on
    submitted,  \* requests the clients have sent
    handed      \* to whom each request was dispatched, and who leads

vars == <<broker, proc, job, submitted, handed>>
-----------------------------------------------------------------------------
(***************************************************************************)
(* What a turn of the loop sends.  Every field but "copies" is empty when  *)
(* nothing of its kind was sent; copies[o] is the number of times the      *)
(* request was sent on account of object o.                                *)
(***************************************************************************)
NoOutput ==
    [ disconnect |-> {}, heartbeat |-> {}, reply |-> NoReq,
      request |-> NoReq, copies |-> [o \in Obj |-> 0], leader |-> NoObj,
      peers |-> {}, mmi |-> "none" ]

OutputType ==
    [ disconnect : SUBSET Worker, heartbeat : SUBSET Worker,
      reply : Request \cup {NoReq}, request : Request \cup {NoReq},
      copies : [Obj -> Nat], leader : Obj \cup {NoObj},
      peers : SUBSET Worker, mmi : {"none", "200", "404", "501"} ]

\* "running", or the exception that ended the broker: main() only catches
\* KeyboardInterrupt, so whatever a method raises stops the process.
Status == {"running", "KeyError", "ValueError", "RuntimeError", "TypeError"}

BrokerType ==
    [ status       : Status,
      services     : SUBSET Service,
      workers      : [Worker -> Obj \cup {NoObj}],
      left         : [Obj -> 0..Lifetime],   \* ticks to expiry
      waiting      : [Obj -> Nat],           \* occurrences in self.waiting
      svcWaiting   : [Obj -> Nat],           \* and in service.waiting
      requests     : [Service -> Seq(Request)],
      epBytes      : SUBSET Worker,          \* worker_endpoints, bytes keys
      epStr        : SUBSET Worker,          \* worker_endpoints, str keys
      heartbeatDue : BOOLEAN,
      out          : OutputType ]

NewBroker ==
    [ status       |-> "running",
      services     |-> {},
      workers      |-> [w \in Worker |-> NoObj],
      left         |-> [o \in Obj |-> 0],
      waiting      |-> [o \in Obj |-> 0],
      svcWaiting   |-> [o \in Obj |-> 0],
      requests     |-> [s \in Service |-> <<>>],
      epBytes      |-> {},
      epStr        |-> {},
      heartbeatDue |-> FALSE,
      out          |-> NoOutput ]

Running(b) == b.status = "running"
Raise(b, exception) == [b EXCEPT !.status = exception]

ObjSvc(o) == SvcOf[OwnerOf[o]]
OfService(s) == {w \in Worker : SvcOf[w] = s}
Pred(n) == IF n = 0 THEN 0 ELSE n - 1
-----------------------------------------------------------------------------
(***************************************************************************)
(* delete_worker: the object leaves its service's queue (once), the table  *)
(* of workers and, under its bytes key, the endpoints.  It stays in        *)
(* self.waiting.  This is the call made for the registered object of w.    *)
(***************************************************************************)
Disconnect(b, w) == [b EXCEPT !.out.disconnect = @ \cup {w}]

\* Mutant of DeleteWorker: the object leaves the broker's list instead.
DeleteFromOtherQueue(b, w) ==
    [b EXCEPT !.waiting[b.workers[w]] = Pred(@),
              !.workers[w] = NoObj,
              !.epBytes = @ \ {w}]

DeleteWorker(b, w) ==
    [b EXCEPT !.svcWaiting[b.workers[w]] = Pred(@),
              !.workers[w] = NoObj,
              !.epBytes = @ \ {w}]

(***************************************************************************)
(* purge_workers sorts self.waiting by expiry and deletes from the front   *)
(* as long as the front is expired: it deletes every expired occurrence.   *)
(* delete_worker pops the identity of the object, whichever object is      *)
(* registered under it, and raises KeyError when none is: when the object  *)
(* was deleted before, or for the second expired occurrence of a worker.   *)
(***************************************************************************)
\* Mutant of Expired: without the sort, a live worker in front hides the rest.
ExpiredInFront(b) ==
    IF \E o \in Obj : b.waiting[o] > 0 /\ b.left[o] > 0 THEN {}
    ELSE {o \in Obj : b.waiting[o] > 0}

Expired(b) == {o \in Obj : b.waiting[o] > 0 /\ b.left[o] = 0}

ExpiredOwners(b) == {OwnerOf[o] : o \in Expired(b)}

PurgeFails(b) ==
    \E o \in Expired(b) :
        \/ b.workers[OwnerOf[o]] = NoObj
        \/ b.waiting[o] > 1
        \/ \E p \in Expired(b) \ {o} : OwnerOf[p] = OwnerOf[o]

\* Mutant of PurgeExpired: the object stays in the queue of its service.
PurgeFromListOnly(b) ==
    [b EXCEPT
       !.workers = [w \in Worker |-> IF w \in ExpiredOwners(b) THEN NoObj ELSE b.workers[w]],
       !.waiting = [o \in Obj |-> IF o \in Expired(b) THEN 0 ELSE b.waiting[o]],
       !.epBytes = @ \ ExpiredOwners(b)]

PurgeExpired(b) ==
    [b EXCEPT
       !.workers    = [w \in Worker |-> IF w \in ExpiredOwners(b)
                                        THEN NoObj ELSE b.workers[w]],
       !.waiting    = [o \in Obj |-> IF o \in Expired(b)
                                     THEN 0 ELSE b.waiting[o]],
       !.svcWaiting = [o \in Obj |-> IF o \in Expired(b)
                                     THEN Pred(b.svcWaiting[o])
                                     ELSE b.svcWaiting[o]],
       !.epBytes    = @ \ ExpiredOwners(b)]

PurgeWorkers(b) ==
    IF ~Running(b) THEN b
    ELSE IF PurgeFails(b) THEN Raise(b, "KeyError")
    ELSE PurgeExpired(b)
-----------------------------------------------------------------------------
(***************************************************************************)
(* strip_of_bytes(worker_endpoints[service]) turns the bytes keys of the   *)
(* dictionary into str keys, in place, while it iterates over it.  An      *)
(* interpreter that guards the iteration (CPython 3.8 on) refuses at once. *)
(* One that does not refuses when the dictionary shrinks, which it does    *)
(* when a worker is there under both keys; and from two bytes keys on the  *)
(* layout of the table may make the iteration skip one, which json.dumps   *)
(* then refuses.                                                           *)
(***************************************************************************)
StripFailures(b, s) ==
    LET bytes == b.epBytes \cap OfService(s)
        strs  == b.epStr \cap OfService(s)
    IN  (IF (GuardedDict /\ bytes # {}) \/ bytes \cap strs # {}
         THEN {"RuntimeError"} ELSE {})
        \cup
        (IF ~GuardedDict /\ (\E v, w \in bytes : v # w)
         THEN {"TypeError"} ELSE {})

MustFail(b, s) ==
    LET bytes == b.epBytes \cap OfService(s)
    IN  (GuardedDict /\ bytes # {}) \/ bytes \cap b.epStr # {}

StripOfBytes(b, s) ==
    [b EXCEPT !.epStr   = @ \cup (b.epBytes \cap OfService(s)),
              !.epBytes = @ \ OfService(s)]

(***************************************************************************)
(* The body of dispatch's loop: the oldest request goes to every worker in *)
(* the service's queue, multiple_bool or not, and each one also leaves     *)
(* self.waiting.  The queue is then empty, so the loop ends.               *)
(***************************************************************************)
\* Mutant of Entries: the broker's list is used for every service.
EntriesOfAnyService(b, s) == {o \in Obj : b.svcWaiting[o] > 0}

Entries(b, s) == {o \in Obj : ObjSvc(o) = s /\ b.svcWaiting[o] > 0}

DispatchReady(b, s) == Running(b) /\ b.requests[s] # <<>> /\ Entries(b, s) # {}

TakeWorkers(b, s) ==
    [b EXCEPT
       !.waiting    = [o \in Obj |-> IF o \in Entries(b, s)
                                     THEN b.waiting[o] - b.svcWaiting[o]
                                     ELSE b.waiting[o]],
       !.svcWaiting = [o \in Obj |-> IF o \in Entries(b, s)
                                     THEN 0 ELSE b.svcWaiting[o]]]

Copies(b, s) == [o \in Obj |-> IF o \in Entries(b, s) THEN b.svcWaiting[o] ELSE 0]

\* Mutants of Assign: the newest request is taken; or none leaves the queue.
AssignNewest(b, s, leader) ==
    LET q == b.requests[s]
    IN  [TakeWorkers(b, s) EXCEPT
           !.requests[s] = SubSeq(@, 1, Len(@) - 1), !.out.request = q[Len(q)],
           !.out.copies  = Copies(b, s), !.out.leader = leader]
AssignWithoutPop(b, s, leader) ==
    [TakeWorkers(b, s) EXCEPT
       !.out.request = Head(b.requests[s]),
       !.out.copies  = Copies(b, s), !.out.leader = leader]

Assign(b, s, leader) ==
    LET stripped == StripOfBytes(b, s)
    IN  [TakeWorkers(stripped, s) EXCEPT
           !.requests[s] = Tail(@),
           !.out.request = Head(b.requests[s]),
           !.out.copies  = Copies(b, s),
           !.out.leader  = leader,
           !.out.peers   = stripped.epStr \cap OfService(s)]

\* Mutant of Dispatch: it does not purge first.
DispatchWithoutPurge(b, s) ==
    IF ~DispatchReady(b, s) THEN {b}
    ELSE {Assign(b, s, leader) : leader \in Entries(b, s)}

\* What dispatch() may leave behind: one outcome per leader, or an exception.
DispatchTo(p, s) ==
    IF ~DispatchReady(p, s) THEN {p}
    ELSE IF \E o \in Entries(p, s) : p.svcWaiting[o] > p.waiting[o]
         THEN {Raise(p, "ValueError")}
    ELSE {Raise(p, e) : e \in StripFailures(p, s)}
         \cup (IF MustFail(p, s) THEN {}
               ELSE {Assign(p, s, leader) : leader \in Entries(p, s)})

\* (A union over the one broker there is after the purge: TLC evaluates it once.)
Dispatch(b, s) == UNION {DispatchTo(p, s) : p \in {PurgeWorkers(x) : x \in {b}}}

\* Mutant of WorkerWaiting: the worker is queued and nothing dispatched.
WorkerWaitingOnly(b, o) ==
    {[b EXCEPT !.waiting[o]    = @ + 1,
               !.svcWaiting[o] = @ + 1,
               !.left[o]       = Lifetime]}

WorkerWaiting(b, o) ==
    Dispatch([b EXCEPT !.waiting[o]    = @ + 1,
                       !.svcWaiting[o] = @ + 1,
                       !.left[o]       = Lifetime],
             ObjSvc(o))

SendHeartbeats(b) ==
    IF Running(b) /\ b.heartbeatDue
    THEN [b EXCEPT !.heartbeatDue  = FALSE,
                   !.out.heartbeat = {OwnerOf[o] : o \in {x \in Obj : b.waiting[x] > 0}}]
    ELSE b
-----------------------------------------------------------------------------
(***************************************************************************)
(* A turn of run(): Begin forgets what the last turn sent and the objects  *)
(* nothing refers to any more, a handler runs, EndTurn is what follows it. *)
(***************************************************************************)
Referenced(b, o) == b.workers[OwnerOf[o]] = o \/ b.waiting[o] > 0 \/ b.svcWaiting[o] > 0

Begin == [broker EXCEPT
            !.out  = NoOutput,
            !.left = [o \in Obj |-> IF Referenced(broker, o) THEN @[o] ELSE 0]]

EndTurn(b) == SendHeartbeats(PurgeWorkers(b))

Unused(w) == {o \in Obj : OwnerOf[o] = w /\ ~Referenced(broker, o)}
Registered(w) == broker.workers[w] # NoObj

HandleReady(w) ==
    IF Registered(w) THEN {Disconnect(DeleteWorker(Begin, w), w)}
    ELSE LET o == CHOOSE x \in Unused(w) : TRUE
         IN  WorkerWaiting([Begin EXCEPT !.workers[w] = o,
                                         !.services = @ \cup {SvcOf[w]}], o)

\* Mutant of HandleReply: the worker is queued, the reply goes nowhere.
HandleReplyUnsent(w, r) ==
    IF Registered(w) THEN WorkerWaiting(Begin, broker.workers[w])
    ELSE {Disconnect(Begin, w)}

\* A message of an unknown worker is answered with DISCONNECT; the object
\* require_worker made for it is deleted again before the turn ends.
HandleReply(w, r) ==
    IF Registered(w)
    THEN WorkerWaiting([Begin EXCEPT !.out.reply = r], broker.workers[w])
    ELSE {Disconnect(Begin, w)}

\* Mutant of HandleHeartbeat: the expiry stays as it was.
HandleHeartbeatEndpoint(w) ==
    IF Registered(w) THEN {[Begin EXCEPT !.epBytes = @ \cup {w}]}
    ELSE {Disconnect(Begin, w)}

HandleHeartbeat(w) ==
    IF Registered(w)
    THEN {[Begin EXCEPT !.left[broker.workers[w]] = Lifetime,
                        !.epBytes = @ \cup {w}]}
    ELSE {Disconnect(Begin, w)}

HandleDisconnect(w) ==
    IF Registered(w) THEN {DeleteWorker(Begin, w)} ELSE {Begin}

HandleClient(r) ==
    Dispatch([Begin EXCEPT !.services = @ \cup {ReqSvc[r]},
                           !.requests[ReqSvc[r]] = Append(@, r)],
             ReqSvc[r])

\* service_internal compares the service frame, which is bytes, with a str.
Frame(type, text) == [type |-> type, text |-> text]
HandleInternal(s) ==
    {[Begin EXCEPT
        !.out.mmi = IF Frame("bytes", "mmi.service") = Frame("str", "mmi.service")
                    THEN IF s \in broker.services THEN "200" ELSE "404"
                    ELSE "501"]}
-----------------------------------------------------------------------------
(***************************************************************************)
(* The worker processes, as far as the broker's traffic shows them.  One   *)
(* is "idle" until the first REQUEST reaches it, "busy" while its service  *)
(* runs, "done" when it sits in the second recv() of service_exe.run, and  *)
(* "dead" when its thread has ended, until the agent is started again.     *)
(*                                                                         *)
(* An idle process that does not find its own endpoint in a REQUEST dies   *)
(* of the KeyError of peers_endpoints.pop; a process that is done takes    *)
(* the next REQUEST for the sign to finish, and ends.                      *)
(***************************************************************************)
ProcState == {"idle", "busy", "done", "dead"}

Sent(out)       == {o \in Obj : out.copies[o] > 0}
Recipients(out) == {OwnerOf[o] : o \in Sent(out)}
Takers(p, out)  == {w \in Recipients(out) \cap out.peers : p[w] = "idle"}
Victims(p, out) == {w \in Recipients(out) \ Takers(p, out) : p[w] # "busy"}

AfterDelivery(p, out) ==
    [w \in Worker |-> IF w \in Takers(p, out) THEN "busy"
                      ELSE IF w \in Victims(p, out) THEN "dead"
                      ELSE p[w]]

JobAfter(p, j, out) ==
    [w \in Worker |-> IF w \in Takers(p, out) THEN out.request
                      ELSE IF p[w] = "busy" THEN j[w]
                      ELSE NoReq]

\* The record kept of a request: who received it, and who was told to lead.
Handover == [to : SUBSET Worker, leader : Worker \cup {NoWorker}]
NotHanded == [to |-> {}, leader |-> NoWorker]

HandedAfter(h, out) ==
    IF out.request = NoReq THEN h
    ELSE [h EXCEPT ![out.request] = [to     |-> Recipients(out),
                                     leader |-> OwnerOf[out.leader]]]

\* A turn whose handler may leave the broker in any of "outcomes", when the
\* processes are as in p by the time its messages arrive.
Turn(outcomes, p) ==
    /\ Running(broker)
    /\ \E b \in outcomes :
          LET end == EndTurn(b)
          IN  /\ broker' = end
              /\ proc'   = AfterDelivery(p, end.out)
              /\ job'    = JobAfter(p, job, end.out)
              /\ handed' = HandedAfter(handed, end.out)
-----------------------------------------------------------------------------
Init ==
    /\ broker    = NewBroker
    /\ proc      = [w \in Worker |-> "idle"]
    /\ job       = [w \in Worker |-> NoReq]
    /\ submitted = {}
    /\ handed    = [r \in Request |-> NotHanded]

\* A worker says READY when it connects and whenever it reconnects.
RecvReady(w) ==
    /\ proc[w] # "dead"
    /\ Registered(w) \/ Unused(w) # {}
    /\ Turn(HandleReady(w), proc)
    /\ UNCHANGED submitted

RecvReply(w) ==
    /\ proc[w] = "busy"
    /\ Turn(HandleReply(w, job[w]), [proc EXCEPT ![w] = "done"])
    /\ UNCHANGED submitted

RecvHeartbeat(w) ==
    /\ proc[w] # "dead"
    /\ Turn(HandleHeartbeat(w), proc)
    /\ UNCHANGED submitted

RecvDisconnect(w) ==
    /\ proc[w] # "dead"
    /\ Turn(HandleDisconnect(w), proc)
    /\ UNCHANGED submitted

RecvRequest(r) ==
    /\ r \notin submitted
    /\ Turn(HandleClient(r), proc)
    /\ submitted' = submitted \cup {r}

RecvInternal(s) ==
    /\ Turn(HandleInternal(s), proc)
    /\ UNCHANGED submitted

\* The poll timed out, or the message had a header the broker ignores.
Idle ==
    /\ Turn({Begin}, proc)
    /\ UNCHANGED submitted

\* A heartbeat interval passes between two turns.
Tick ==
    /\ Running(broker)
    /\ broker' = [broker EXCEPT !.left         = [o \in Obj |-> Pred(@[o])],
                                !.heartbeatDue = TRUE,
                                !.out          = NoOutput]
    /\ UNCHANGED <<proc, job, submitted, handed>>

\* The service of w ends without a reply: w does not lead, or it failed.
Finish(w) ==
    /\ proc[w] = "busy"
    /\ proc' = [proc EXCEPT ![w] = "done"]
    /\ job'  = [job EXCEPT ![w] = NoReq]
    /\ UNCHANGED <<broker, submitted, handed>>

Die(w) ==
    /\ proc[w] # "dead"
    /\ proc' = [proc EXCEPT ![w] = "dead"]
    /\ job'  = [job EXCEPT ![w] = NoReq]
    /\ UNCHANGED <<broker, submitted, handed>>

\* The agent is started again under the same name.
Restart(w) ==
    /\ proc[w] = "dead"
    /\ proc' = [proc EXCEPT ![w] = "idle"]
    /\ UNCHANGED <<broker, job, submitted, handed>>

Loop ==
    \/ \E w \in Worker : \/ RecvReady(w)
                         \/ RecvReply(w)
                         \/ RecvHeartbeat(w)
                         \/ RecvDisconnect(w)
    \/ \E r \in Request : RecvRequest(r)
    \/ \E s \in Service : RecvInternal(s)
    \/ Idle

Next ==
    \/ Loop
    \/ Tick
    \/ \E w \in Worker : Finish(w) \/ Die(w) \/ Restart(w)

Spec == Init /\ [][Next]_vars
-----------------------------------------------------------------------------
TypeOK ==
    /\ broker \in BrokerType
    /\ proc \in [Worker -> ProcState]
    /\ job \in [Worker -> Request \cup {NoReq}]
    /\ submitted \subseteq Request
    /\ handed \in [Request -> Handover]

\* Every entry of a service's queue has its entry in self.waiting, which
\* purge_workers, delete_worker and dispatch shorten separately.  It is what
\* keeps self.waiting.remove(worker) in dispatch from raising ValueError.
WaitingCovers ==
    /\ \A o \in Obj : broker.svcWaiting[o] <= broker.waiting[o]
    /\ broker.status # "ValueError"

\* Between two turns no request sits in a service's queue beside a waiting
\* worker: dispatch is called at every point where either queue grows.
NoLostWakeup ==
    Running(broker) =>
        \A s \in Service : broker.requests[s] = <<>> \/ Entries(broker, s) = {}

\* dispatch purges first: it gives no request to a worker whose time was up
\* when the turn began, and send_heartbeats writes to none.
OnlyUnexpired ==
    Running(broker) =>
        /\ \A o \in Sent(broker.out) : broker.left[o] > 0
        /\ \A w \in broker.out.heartbeat :
              \E o \in Obj : OwnerOf[o] = w /\ broker.waiting[o] > 0 /\ broker.left[o] > 0

\* No request is lost or duplicated inside the broker: a submitted request
\* waits once in the queue of its service, or was handed out, never both.
Queued(r) == {i \in DOMAIN broker.requests[ReqSvc[r]] :
                  broker.requests[ReqSvc[r]][i] = r}
RequestConservation ==
    \A r \in Request :
        IF r \in submitted /\ handed[r].to = {}
        THEN Cardinality(Queued(r)) = 1
        ELSE Queued(r) = {}

\* A request is handed to workers of its own service, one of them its leader.
OneLeader ==
    \A r \in Request :
        handed[r].to # {} => /\ handed[r].leader \in handed[r].to
                             /\ handed[r].to \subseteq OfService(ReqSvc[r])

\* Seen through its request queues the broker is a RequestQueue: first in
\* first out, each request handed out at most once, to a group with a leader.
Queue == INSTANCE RequestQueue WITH queue <- broker.requests, up <- Running(broker)
IsRequestQueue == Queue!Spec

\* The inductive invariant of RequestQueue, of the broker: every request that was
\* submitted and not handed out is in the queue of its service, once.
QueueConserved == Queue!Conservation

\* Unless the broker fails, it forgets a worker that stays dead: no object of
\* its process remains in self.waiting.  (purge_workers after every turn.)
DeadForgotten ==
    \A w \in Worker :
        <>[](proc[w] = "dead") =>
            <>[](~Running(broker)
                 \/ \A o \in Obj : OwnerOf[o] = w => broker.waiting[o] = 0)
-----------------------------------------------------------------------------
(***************************************************************************)
(* The inductive invariant: what the methods preserve of the broker, the   *)
(* job of a busy process, and how each request was handed out.             *)
(***************************************************************************)
RegisteredUnderOwner(b) ==
    \A w \in Worker : b.workers[w] # NoObj => OwnerOf[b.workers[w]] = w

Covers(b) ==
    /\ \A o \in Obj : b.svcWaiting[o] <= b.waiting[o]
    /\ b.status # "ValueError"

QueuedByService(b) ==
    \A s \in Service : \A i \in DOMAIN b.requests[s] : ReqSvc[b.requests[s][i]] = s

LedGroup(out) ==
    IF out.request = NoReq THEN Sent(out) = {}
    ELSE /\ out.leader \in Sent(out)
         /\ \A o \in Sent(out) : ObjSvc(o) = ReqSvc[out.request]

BrokerOK(b) ==
    /\ b \in BrokerType
    /\ RegisteredUnderOwner(b)
    /\ Covers(b)
    /\ QueuedByService(b)
    /\ LedGroup(b.out)

BusyHasJob == \A w \in Worker : proc[w] = "busy" => job[w] \in Request

\* The invariant from which the theorems of BrokerProofs follow: the tables
\* and queues of the broker agree with each other, and a process that works
\* has a request to answer, when REPLY comes from it.
IndInv ==
    /\ TypeOK
    /\ BrokerOK(broker)
    /\ BusyHasJob
    /\ OneLeader
-----------------------------------------------------------------------------
(***************************************************************************)
(* What the comments and the documentation say, and the code does not do.  *)
(***************************************************************************)

\* Deleting a worker that is gone already is passed over in silence: it is
\* never the end of the broker.
DeletedTwiceIsSilent == broker.status # "KeyError"

\* The endpoints the workers' heartbeats brought can always be passed on with
\* a request: strip_of_bytes converts the keys of the table.
EndpointsPassedOn == broker.status # "RuntimeError"
=============================================================================
