------------------------------- MODULE Agent -------------------------------
(***************************************************************************)
(* One agent process: Agent.run of mdagent.py in the main thread, and      *)
(* ServiceExeBase.run of service_exe.py in the daemon thread it starts.    *)
(* The two share result_q and got_req_q (queues of size 1), the service's  *)
(* attribute self.worker, and the socket and context of that worker, which *)
(* the main thread closes and clears in cleanup() while the other may be   *)
(* using them or opening the socket anew.                                  *)
(*                                                                         *)
(* Of the broker only the REQUESTs it puts in the socket are here; of the  *)
(* service's computation, whether it returns a reply, returns none, raises *)
(* or goes on for ever.  Each step is one access to what is shared.        *)
(***************************************************************************)
EXTENDS Naturals, Sequences

CONSTANTS
    HasTimeout,   \* is the agent's TIMEOUT finite (option --t)?
    MaxRequests   \* bound on the REQUESTs the broker sends to this worker

ASSUME AgentAssumption == HasTimeout \in BOOLEAN /\ MaxRequests \in Nat

VARIABLES
    service,   \* "echo", or "sumnums": it signals got_req_q and needs peers
    main,      \* where Agent.run is; "over" when the process has ended
    late,      \* has t_end passed?
    reported,  \* the status the agent printed
    thread,    \* where ServiceExeBase.run is
    worker,    \* is self.worker set?
    request,   \* did the first recv() return a request?
    arg,       \* was self.worker set when it was passed to process()?
    status,    \* the status the thread will report
    reply,     \* has process() returned a reply to send?
    processed, \* has process() returned?
    replied,   \* REPLYs sent
    socket,    \* "open" or "closed"
    ctx,       \* is the worker's ZeroMQ context set?
    reconnecting, \* what is next in reconnect_to_broker, or "no"
    reopened,  \* has it opened a socket that destroy() had just closed?
    inbox,     \* REQUESTs waiting in the socket
    sent,      \* REQUESTs the broker has sent
    resultQ, gotReqQ

mainVars   == <<main, late, reported>>
callVars   == <<request, arg, status, reply, processed>>
brokerVars == <<inbox, sent>>
reopening  == <<reconnecting, reopened>>
queues     == <<resultQ, gotReqQ>>
vars == <<service, mainVars, thread, worker, callVars, replied, socket, ctx, reopening,
          brokerVars, queues>>

MainAt   == {"loop", "take", "assertResult", "assertGotReq", "cleanup", "close", "unset",
             "clear", "done", "failed", "over"}
ThreadAt == {"recv1", "call", "enter", "signal", "lead", "work", "call2", "recv2", "put",
             "ended", "raised"}
ThreadEnded == thread \in {"ended", "raised"}

TypeOK ==
    /\ service \in {"echo", "sumnums"}
    /\ main \in MainAt /\ late \in BOOLEAN
    /\ reported \in {"none", "SUCCESS", "FAIL", "TIMEOUT"}
    /\ thread \in ThreadAt
    /\ worker \in BOOLEAN /\ request \in BOOLEAN /\ arg \in BOOLEAN
    /\ status \in {"SUCCESS", "FAIL"}
    /\ reply \in BOOLEAN /\ processed \in BOOLEAN
    /\ replied \in Nat
    /\ socket \in {"open", "closed"} /\ ctx \in BOOLEAN
    /\ reconnecting \in {"no", "open", "announce"} /\ reopened \in BOOLEAN
    /\ sent \in 0..MaxRequests /\ inbox \in 0..sent
    /\ resultQ \in Seq({"SUCCESS", "FAIL"}) /\ Len(resultQ) <= 1
    /\ gotReqQ \in Seq({"ADD"}) /\ Len(gotReqQ) <= 1

\* The thread has started, set self.worker and entered the first recv().
Init ==
    /\ service \in {"echo", "sumnums"}
    /\ main = "loop" /\ late = FALSE /\ reported = "none"
    /\ thread = "recv1" /\ worker = TRUE
    /\ request = FALSE /\ arg = FALSE
    /\ status = "SUCCESS" /\ reply = FALSE /\ processed = FALSE
    /\ replied = 0
    /\ socket = "open" /\ ctx = TRUE /\ reconnecting = "no" /\ reopened = FALSE
    /\ inbox = 0 /\ sent = 0
    /\ resultQ = <<>> /\ gotReqQ = <<>>
-----------------------------------------------------------------------------
(***************************************************************************)
(* The main thread.                                                        *)
(***************************************************************************)
MainGoes(at, to) == main = at /\ main' = to

\* What the main thread's steps leave alone.
MainLeaves == UNCHANGED <<service, thread, callVars, replied, reopening, sent>>
connection == <<socket, ctx, inbox>>

\* A turn of the while loop that finds a signal: t_end starts again.
Signalled ==
    /\ main = "loop"
    /\ resultQ = <<>> /\ ~late
    /\ gotReqQ # <<>>
    /\ gotReqQ' = <<>>
    /\ UNCHANGED <<mainVars, worker, connection, resultQ>>
    /\ MainLeaves

\* Mutant of LeaveLoop: the time is not looked at.
LeaveLoopOnResult ==
    /\ MainGoes("loop", "take")
    /\ resultQ # <<>>
    /\ UNCHANGED <<late, reported, worker, connection, queues>>
    /\ MainLeaves

LeaveLoop ==
    /\ MainGoes("loop", "take")
    /\ resultQ # <<>> \/ late
    /\ UNCHANGED <<late, reported, worker, connection, queues>>
    /\ MainLeaves

Take ==
    /\ MainGoes("take", "assertResult")
    /\ reported' = IF resultQ = <<>> THEN "TIMEOUT" ELSE Head(resultQ)
    /\ resultQ' = <<>>
    /\ UNCHANGED <<late, worker, connection, gotReqQ>>
    /\ MainLeaves

\* The two assertions after the loop; a failure leaves run() at once.
AssertEmpty(q, at, next) ==
    /\ MainGoes(at, IF q = <<>> THEN next ELSE "failed")
    /\ UNCHANGED <<late, reported, worker, connection, queues>>
    /\ MainLeaves

\* Ctrl-C inside the try statement: straight to cleanup.
Interrupt ==
    /\ main \in {"loop", "take", "assertResult", "assertGotReq"}
    /\ main' = "cleanup"
    /\ UNCHANGED <<late, reported, worker, connection, queues>>
    /\ MainLeaves

\* Mutant of Cleanup: the service is dropped without being joined.
CleanupUnjoined ==
    /\ MainGoes("cleanup", "done")
    /\ UNCHANGED <<late, reported, worker, connection, queues>>
    /\ MainLeaves

\* cleanup joins a live thread without waiting for it; join() first quits.
Cleanup ==
    /\ MainGoes("cleanup", IF ThreadEnded \/ ~worker THEN "done" ELSE "close")
    /\ UNCHANGED <<late, reported, worker, connection, queues>>
    /\ MainLeaves

\* Mutant of Close: quit() forgets the worker without destroying it.
CloseNothing ==
    /\ MainGoes("close", "unset")
    /\ UNCHANGED <<late, reported, worker, connection, queues>>
    /\ MainLeaves

\* quit(): worker.destroy() closes the socket there is, with what is in it ...
Close ==
    /\ MainGoes("close", "unset")
    /\ socket' = "closed" /\ inbox' = 0
    /\ UNCHANGED <<late, reported, worker, ctx, queues>>
    /\ MainLeaves

\* ... and clears the context; then self.worker is cleared.
Unset ==
    /\ MainGoes("unset", "clear")
    /\ ctx' = FALSE
    /\ UNCHANGED <<late, reported, worker, socket, inbox, queues>>
    /\ MainLeaves

Clear ==
    /\ MainGoes("clear", "done")
    /\ worker' = FALSE
    /\ UNCHANGED <<late, reported, connection, queues>>
    /\ MainLeaves

\* The interpreter ends the process.  All other threads are daemons: that of
\* the service is one, and those it starts inherit it.
Exit ==
    /\ main \in {"done", "failed"}
    /\ main' = "over"
    /\ UNCHANGED <<late, reported, worker, connection, queues>>
    /\ MainLeaves

MainStep ==
    \/ Signalled
    \/ LeaveLoop
    \/ Take
    \/ AssertEmpty(resultQ, "assertResult", "assertGotReq")
    \/ AssertEmpty(gotReqQ, "assertGotReq", "cleanup")
    \/ Cleanup
    \/ Close
    \/ Unset
    \/ Clear
    \/ Exit

\* t_end passes.
Elapse ==
    /\ HasTimeout /\ main = "loop" /\ ~late
    /\ late' = TRUE
    /\ UNCHANGED <<main, reported, worker, connection, queues>>
    /\ MainLeaves
-----------------------------------------------------------------------------
(***************************************************************************)
(* The service's thread.  It runs until the process is over, whether or    *)
(* not the main thread has come to its end.                                *)
(***************************************************************************)
At(step) == thread = step /\ main # "over"

\* What the thread's steps leave alone.
ThreadLeaves == UNCHANGED <<service, mainVars, socket, reopening, sent>>

TakeRequest ==
    /\ socket = "open" /\ inbox > 0
    /\ inbox' = inbox - 1

SocketGone == socket = "closed" /\ UNCHANGED inbox

\* A turn of the loop of recv(), at the first or the second call of it.
Receiving(step) == At(step) /\ reconnecting = "no"

\* recv() returns a request, or dies of the KeyError of a REQUEST without the
\* worker's own endpoint.  With the socket closed under it recv() destroys the
\* worker itself and returns None (the poll fails), or dies (a heartbeat is due,
\* and send fails).
Recv1 ==
    /\ Receiving("recv1")
    /\ \/ TakeRequest /\ thread' = "call" /\ request' = TRUE /\ UNCHANGED ctx
       \/ SocketGone  /\ thread' = "call" /\ request' = FALSE /\ ctx' = FALSE
       \/ (TakeRequest \/ SocketGone) /\ thread' = "raised" /\ UNCHANGED <<request, ctx>>
    /\ UNCHANGED <<worker, arg, status, reply, processed, replied, queues>>
    /\ ThreadLeaves

\* self.worker is read once more for the call of process().
Call ==
    /\ At("call")
    /\ arg' = worker
    /\ thread' = "enter"
    /\ UNCHANGED <<worker, request, status, reply, processed, replied, ctx, inbox, queues>>
    /\ ThreadLeaves

Fails == thread' = "call2" /\ status' = "FAIL"

\* process() decodes the request and sets self.worker to its argument; the
\* summation refuses to go on without a worker, or without peers.
Enter ==
    /\ At("enter")
    /\ IF ~request THEN Fails /\ UNCHANGED worker
       ELSE /\ worker' = arg
            /\ \/ service = "echo" /\ thread' = "work" /\ UNCHANGED status
               \/ service = "sumnums" /\ arg /\ thread' = "signal" /\ UNCHANGED status
               \/ service = "sumnums" /\ Fails
    /\ UNCHANGED <<request, arg, reply, processed, replied, ctx, inbox, queues>>
    /\ ThreadLeaves

\* got_req_q.put blocks while the queue is full.
Signal ==
    /\ At("signal")
    /\ gotReqQ = <<>>
    /\ gotReqQ' = <<"ADD">>
    /\ thread' = "lead"
    /\ UNCHANGED <<worker, callVars, replied, ctx, inbox, resultQ>>
    /\ ThreadLeaves

\* The summation ties to its peers and looks whether its worker, if it is still
\* there, leads.  If not, process() returns None.
Lead ==
    /\ At("lead")
    /\ \/ worker /\ thread' = "work" /\ UNCHANGED <<status, processed>>
       \/ thread' = "call2" /\ processed' = TRUE /\ UNCHANGED status
       \/ Fails /\ UNCHANGED processed
    /\ UNCHANGED <<worker, request, arg, reply, replied, ctx, inbox, queues>>
    /\ ThreadLeaves

\* process() returns a reply.
Returns == thread' = "call2" /\ processed' = TRUE /\ reply' = TRUE /\ UNCHANGED status

\* Mutant of Work: the exception is logged, the status stays SUCCESS.
WorkIgnoringFailure ==
    /\ At("work")
    /\ Returns \/ (thread' = "call2" /\ UNCHANGED <<status, reply, processed>>)
    /\ UNCHANGED <<worker, request, arg, replied, ctx, inbox, queues>>
    /\ ThreadLeaves

\* The computation, which for the leader of a summation includes the wait for
\* its peers, without a timeout: nothing says that this step is ever taken.
Work ==
    /\ At("work")
    /\ Returns \/ (Fails /\ UNCHANGED <<reply, processed>>)
    /\ UNCHANGED <<worker, request, arg, replied, ctx, inbox, queues>>
    /\ ThreadLeaves

\* self.worker.recv(reply) sends the reply first: AttributeError if quit()
\* has cleared self.worker, ZMQError if it has closed the socket.
Call2 ==
    /\ At("call2")
    /\ IF ~worker \/ (reply /\ socket = "closed")
       THEN thread' = "raised" /\ UNCHANGED replied
       ELSE /\ thread' = "recv2"
            /\ replied' = IF reply THEN replied + 1 ELSE replied
    /\ UNCHANGED <<worker, callVars, ctx, inbox, queues>>
    /\ ThreadLeaves

\* The second recv() comes back with a second REQUEST, which is dropped, or
\* when the socket is gone.
Recv2 ==
    /\ Receiving("recv2")
    /\ \/ TakeRequest /\ thread' = "put" /\ UNCHANGED ctx
       \/ SocketGone  /\ thread' = "put" /\ ctx' = FALSE
       \/ (TakeRequest \/ SocketGone) /\ thread' = "raised" /\ UNCHANGED ctx
    /\ UNCHANGED <<worker, callVars, replied, queues>>
    /\ ThreadLeaves

Put ==
    /\ At("put")
    /\ resultQ = <<>>
    /\ resultQ' = <<status>>
    /\ thread' = "ended"
    /\ UNCHANGED <<worker, callVars, replied, ctx, inbox, gotReqQ>>
    /\ ThreadLeaves
-----------------------------------------------------------------------------
(***************************************************************************)
(* reconnect_to_broker, called by recv() when the liveness has run out or  *)
(* the broker said DISCONNECT; destroy() may come in between.              *)
(***************************************************************************)
ReconnectLeaves ==
    UNCHANGED <<service, mainVars, worker, callVars, replied, ctx, sent, queues>>

\* With a context, the socket is closed; what is in it is lost.
Drop ==
    /\ Receiving("recv1") \/ Receiving("recv2")
    /\ ctx
    /\ reconnecting' = "open"
    /\ socket' = "closed" /\ inbox' = 0
    /\ UNCHANGED <<thread, reopened>>
    /\ ReconnectLeaves

\* The context makes a new socket: AttributeError if it has been cleared.
Open ==
    /\ At("recv1") \/ At("recv2")
    /\ reconnecting = "open"
    /\ IF ctx
       THEN /\ reconnecting' = "announce" /\ socket' = "open"
            /\ reopened' = (reopened \/ main = "unset")
            /\ UNCHANGED thread
       ELSE reconnecting' = "no" /\ thread' = "raised" /\ UNCHANGED <<socket, reopened>>
    /\ UNCHANGED inbox
    /\ ReconnectLeaves

\* READY is sent over it: ZMQError if it has been closed.
Announce ==
    /\ At("recv1") \/ At("recv2")
    /\ reconnecting = "announce" /\ reconnecting' = "no"
    /\ IF socket = "open" THEN UNCHANGED thread ELSE thread' = "raised"
    /\ UNCHANGED <<socket, reopened, inbox>>
    /\ ReconnectLeaves

ThreadStep ==
    \/ Recv1 \/ Call \/ Enter \/ Signal \/ Lead \/ Work \/ Call2 \/ Recv2 \/ Put
    \/ Drop \/ Open \/ Announce
-----------------------------------------------------------------------------
\* The broker sends a REQUEST.
Send ==
    /\ socket = "open" /\ sent < MaxRequests /\ ~ThreadEnded
    /\ inbox' = inbox + 1
    /\ sent' = sent + 1
    /\ UNCHANGED <<service, mainVars, thread, worker, callVars, replied, socket, ctx,
                   reopening, queues>>

Next == MainStep \/ Elapse \/ Interrupt \/ ThreadStep \/ Send

Spec == Init /\ [][Next]_vars

\* The interpreter runs the main thread, and time does not stop.  Nothing is
\* asked of the service's thread: process() may go on for ever.
FairSpec == Spec /\ WF_vars(MainStep) /\ WF_vars(Elapse)
-----------------------------------------------------------------------------
\* What the agent prints is what happened in the other thread: successfully
\* completed only if process() returned and the reply it made was sent, failed
\* only if it raised, timed out only if the time is over.
ReportHonest ==
    /\ reported = "SUCCESS" => processed /\ status = "SUCCESS" /\ (reply => replied = 1)
    /\ reported = "FAIL" => ~processed /\ replied = 0 /\ thread = "ended"
    /\ reported = "TIMEOUT" => late

\* No reply leaves for the broker after cleanup(), although the service's thread
\* may be anywhere when its socket is closed and its worker cleared, and process()
\* sets self.worker again.  There is one way around it, and no other: that
\* reconnect_to_broker opened a socket between the two statements of destroy().
NoReplyAfterCleanup == [][main = "done" /\ replied' # replied => reopened]_vars

\* With a timeout the agent comes to an end, whatever its service does: a lost
\* REQUEST, an exception in recv(), a peer that never answers, a process() that
\* never returns.
AgentEnds == <>(main \in {"done", "failed", "over"})
-----------------------------------------------------------------------------
(***************************************************************************)
(* The inductive invariant.                                                *)
(***************************************************************************)
Finishing == thread \in {"call2", "recv2", "put", "ended", "raised"}

\* What the thread has got so far, from where it is.
ThreadOK ==
    /\ status = "FAIL" => Finishing /\ ~processed
    /\ processed => Finishing
    /\ reply => processed
    /\ Finishing /\ thread # "raised" /\ status = "SUCCESS" => processed
    /\ ~reply \/ thread = "call2" \/ ~Finishing => replied = 0
    /\ reply /\ thread \in {"recv2", "put", "ended"} => replied = 1

\* What the thread reported, and what the agent has made of it.
ResultOK ==
    /\ resultQ # <<>> => thread = "ended" /\ resultQ = <<status>>
    /\ reported \in {"SUCCESS", "FAIL"} => thread = "ended" /\ reported = status
    /\ reported = "TIMEOUT" => late
    /\ main = "take" => resultQ # <<>> \/ late

\* self.worker is set until cleanup() clears it.  By then a thread that still
\* runs has neither socket nor context, unless it reopened the socket in between.
WorkerOK ==
    /\ main \notin {"done", "over"} => worker /\ (thread = "enter" => arg)
    /\ main \in {"unset", "clear", "done"} => ThreadEnded \/ socket = "closed" \/ reopened
    /\ main \in {"clear", "done"} => ThreadEnded \/ ~ctx

\* The invariant from which the theorems of AgentProofs follow: what the main
\* thread finds in result_q is what the service's thread ended with, and the
\* worker outlives every step of run() but the last.
IndInv == TypeOK /\ ThreadOK /\ ResultOK /\ WorkerOK
=============================================================================
