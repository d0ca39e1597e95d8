---------------------------- MODULE RequestQueue ----------------------------
(***************************************************************************)
(* What the broker promises about requests, with no worker queue, expiry   *)
(* or heartbeat in it: a request waits in the queue of its service, first  *)
(* in first out, until it is handed, once and for all, to a group of       *)
(* workers of which one leads.  One that finds the queue empty may be      *)
(* handed on at once.  The queue may fail, and then nothing moves.         *)
(***************************************************************************)
EXTENDS Sequences

CONSTANTS Worker, Service, Request, ReqSvc, NoWorker

VARIABLES
    queue,      \* the requests that wait, by service
    submitted,  \* the requests that came in
    handed,     \* who received each request, and who leads
    up          \* has the queue not failed?

vars == <<queue, submitted, handed, up>>

NotHanded == [to |-> {}, leader |-> NoWorker]

Init ==
    /\ queue     = [s \in Service |-> <<>>]
    /\ submitted = {}
    /\ handed    = [r \in Request |-> NotHanded]
    /\ up        = TRUE

Enqueue(r) == queue' = [queue EXCEPT ![ReqSvc[r]] = Append(@, r)]

HandTo(r, group, leader) ==
    /\ handed[r] = NotHanded
    /\ leader \in group
    /\ handed' = [handed EXCEPT ![r] = [to |-> group, leader |-> leader]]

Submit(r) ==
    /\ up
    /\ r \notin submitted
    /\ submitted' = submitted \cup {r}
    /\ Enqueue(r)
    /\ UNCHANGED <<handed, up>>

SubmitAndHand(r) ==
    /\ up
    /\ r \notin submitted
    /\ submitted' = submitted \cup {r}
    /\ queue[ReqSvc[r]] = <<>>
    /\ \E group \in SUBSET Worker, leader \in Worker : HandTo(r, group, leader)
    /\ UNCHANGED <<queue, up>>

Hand(s) ==
    /\ up
    /\ queue[s] # <<>>
    /\ queue' = [queue EXCEPT ![s] = Tail(@)]
    /\ \E group \in SUBSET Worker, leader \in Worker :
          HandTo(Head(queue[s]), group, leader)
    /\ UNCHANGED <<submitted, up>>

Fail ==
    /\ up
    /\ up' = FALSE
    /\ UNCHANGED <<queue, submitted, handed>>

FailOnSubmit(r) ==
    /\ up
    /\ r \notin submitted
    /\ up' = FALSE
    /\ submitted' = submitted \cup {r}
    /\ Enqueue(r)
    /\ UNCHANGED handed

Next ==
    \/ \E r \in Request : Submit(r) \/ SubmitAndHand(r) \/ FailOnSubmit(r)
    \/ \E s \in Service : Hand(s)
    \/ Fail

Spec == Init /\ [][Next]_vars
-----------------------------------------------------------------------------
TypeOK ==
    /\ queue \in [Service -> Seq(Request)]
    /\ submitted \subseteq Request
    /\ handed \in [Request -> [to : SUBSET Worker, leader : Worker \cup {NoWorker}]]
    /\ up \in BOOLEAN

\* What is in a queue was submitted for that service, was handed to nobody, and
\* is there once.
QueueSound ==
    \A s \in Service : \A i \in DOMAIN queue[s] :
        /\ ReqSvc[queue[s][i]] = s
        /\ queue[s][i] \in submitted
        /\ handed[queue[s][i]] = NotHanded
        /\ \A j \in DOMAIN queue[s] : queue[s][j] = queue[s][i] => j = i

\* What was submitted and handed to nobody is in its queue.
QueueComplete ==
    \A r \in Request :
        /\ r \notin submitted => handed[r] = NotHanded
        /\ handed[r].to = {} => handed[r] = NotHanded
        /\ r \in submitted /\ handed[r] = NotHanded =>
              \E i \in DOMAIN queue[ReqSvc[r]] : queue[ReqSvc[r]][i] = r

\* The inductive invariant: the queues hold the requests that were submitted and
\* not handed on, each of them once.
Conservation == TypeOK /\ QueueSound /\ QueueComplete
=============================================================================
