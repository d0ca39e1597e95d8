---------------------------- MODULE AgentProofs ----------------------------
(***************************************************************************)
(* Proofs about Agent, for every number of REQUESTs and with or without a  *)
(* timeout: the inductive invariant IndInv, what the agent reports, and    *)
(* that cleanup() is final.                                                *)
(***************************************************************************)
EXTENDS Agent, TLAPS

LEMMA EmptyQueue == \A S : <<>> \in Seq(S) /\ Len(<<>>) <= 1
  OBVIOUS

LEMMA InitInv == Init => IndInv
<1> SUFFICES ASSUME Init PROVE IndInv
  OBVIOUS
<1> USE DEF Init
<1>1. TypeOK
  <2>1. sent \in 0..MaxRequests /\ inbox \in 0..sent
    BY AgentAssumption
  <2> QED BY <2>1, EmptyQueue DEF TypeOK, MainAt, ThreadAt
<1>2. ThreadOK BY DEF ThreadOK, Finishing
<1>3. ResultOK BY DEF ResultOK
<1>4. WorkerOK BY DEF WorkerOK
<1> QED BY <1>1, <1>2, <1>3, <1>4 DEF IndInv

\* The main thread's steps do not touch what ThreadOK speaks of.
LEMMA MainKeepsThread ==
  ASSUME IndInv, MainLeaves
  PROVE  ThreadOK'
  BY DEF IndInv, MainLeaves, callVars, ThreadOK, Finishing

LEMMA MainInv ==
  ASSUME IndInv, MainStep \/ Elapse \/ Interrupt
  PROVE  IndInv'
<1> USE AgentAssumption DEF IndInv, MainLeaves, MainGoes, callVars, mainVars, connection,
        reopening, queues, ThreadEnded
<1>1. CASE Signalled
  <2>1. TypeOK' BY <1>1 DEF Signalled, TypeOK
  <2>2. ThreadOK' BY <1>1, MainKeepsThread DEF Signalled
  <2>3. ResultOK' /\ WorkerOK' BY <1>1 DEF Signalled, ResultOK, WorkerOK
  <2> QED BY <2>1, <2>2, <2>3
<1>2. CASE LeaveLoop
  <2>1. TypeOK' BY <1>2 DEF LeaveLoop, TypeOK, MainAt
  <2>2. ThreadOK' BY <1>2, MainKeepsThread DEF LeaveLoop
  <2>3. ResultOK' /\ WorkerOK' BY <1>2 DEF LeaveLoop, ResultOK, WorkerOK
  <2> QED BY <2>1, <2>2, <2>3
<1>3. CASE Take
  <2>1. TypeOK' BY <1>3 DEF Take, TypeOK, MainAt
  <2>2. ThreadOK' BY <1>3, MainKeepsThread DEF Take
  <2>3. ResultOK'
    <3>1. CASE resultQ = <<>> BY <1>3, <3>1 DEF Take, ResultOK
    <3>2. CASE resultQ # <<>>
      <4>1. Head(resultQ) = status /\ status \in {"SUCCESS", "FAIL"}
        BY <3>2 DEF ResultOK, TypeOK
      <4> QED BY <1>3, <3>2, <4>1 DEF Take, ResultOK
    <3> QED BY <3>1, <3>2
  <2>4. WorkerOK' BY <1>3 DEF Take, WorkerOK
  <2> QED BY <2>1, <2>2, <2>3, <2>4
<1>4. ASSUME NEW q \in {resultQ, gotReqQ}, NEW at \in {"assertResult", "assertGotReq"},
             NEW next \in {"assertGotReq", "cleanup"}, AssertEmpty(q, at, next)
      PROVE  IndInv'
  <2>1. TypeOK' BY <1>4 DEF AssertEmpty, TypeOK, MainAt
  <2>2. ThreadOK' BY <1>4, MainKeepsThread DEF AssertEmpty
  <2>3. ResultOK' /\ WorkerOK' BY <1>4 DEF AssertEmpty, ResultOK, WorkerOK
  <2> QED BY <2>1, <2>2, <2>3
<1>5. CASE Cleanup
  <2>1. TypeOK' BY <1>5 DEF Cleanup, TypeOK, MainAt
  <2>2. ThreadOK' BY <1>5, MainKeepsThread DEF Cleanup
  <2>3. ResultOK' /\ WorkerOK' BY <1>5 DEF Cleanup, ResultOK, WorkerOK
  <2> QED BY <2>1, <2>2, <2>3
<1>6. CASE Close
  <2>1. TypeOK'
    <3>1. inbox' \in 0..sent' BY <1>6 DEF Close, TypeOK
    <3> QED BY <1>6, <3>1 DEF Close, TypeOK, MainAt
  <2>2. ThreadOK' BY <1>6, MainKeepsThread DEF Close
  <2>3. ResultOK' /\ WorkerOK' BY <1>6 DEF Close, ResultOK, WorkerOK
  <2> QED BY <2>1, <2>2, <2>3
<1>7. CASE Clear
  <2>1. TypeOK'
    <3>1. worker' \in BOOLEAN BY <1>7, Zenon DEF Clear
    <3> QED BY <1>7, <3>1 DEF Clear, TypeOK, MainAt
  <2>2. ThreadOK' BY <1>7, MainKeepsThread DEF Clear
  <2>3. ResultOK' /\ WorkerOK' BY <1>7 DEF Clear, ResultOK, WorkerOK
  <2> QED BY <2>1, <2>2, <2>3
<1>10. CASE Unset
  <2>1. TypeOK'
    <3>1. ctx' \in BOOLEAN BY <1>10, Zenon DEF Unset
    <3> QED BY <1>10, <3>1 DEF Unset, TypeOK, MainAt
  <2>2. ThreadOK' BY <1>10, MainKeepsThread DEF Unset
  <2>3. ResultOK' /\ WorkerOK' BY <1>10 DEF Unset, ResultOK, WorkerOK
  <2> QED BY <2>1, <2>2, <2>3
<1>11. CASE Exit
  <2>1. TypeOK' BY <1>11 DEF Exit, TypeOK, MainAt
  <2>2. ThreadOK' BY <1>11, MainKeepsThread DEF Exit
  <2>3. ResultOK' /\ WorkerOK' BY <1>11 DEF Exit, ResultOK, WorkerOK
  <2> QED BY <2>1, <2>2, <2>3
<1>8. CASE Elapse
  <2>1. TypeOK' BY <1>8 DEF Elapse, TypeOK
  <2>2. ThreadOK' BY <1>8, MainKeepsThread DEF Elapse
  <2>3. ResultOK' /\ WorkerOK' BY <1>8 DEF Elapse, ResultOK, WorkerOK
  <2> QED BY <2>1, <2>2, <2>3
<1>9. CASE Interrupt
  <2>1. TypeOK' BY <1>9 DEF Interrupt, TypeOK, MainAt
  <2>2. ThreadOK' BY <1>9, MainKeepsThread DEF Interrupt
  <2>3. ResultOK' /\ WorkerOK' BY <1>9 DEF Interrupt, ResultOK, WorkerOK
  <2> QED BY <2>1, <2>2, <2>3
<1> QED BY <1>1, <1>2, <1>3, <1>4, <1>5, <1>6, <1>7, <1>8, <1>9,
          <1>10, <1>11 DEF MainStep

LEMMA InboxType ==
  ASSUME TypeOK, TakeRequest \/ SocketGone
  PROVE  inbox' \in 0..sent
  BY AgentAssumption DEF TypeOK, TakeRequest, SocketGone

LEMMA ThreadInv ==
  ASSUME IndInv, ThreadStep
  PROVE  IndInv'
<1> USE AgentAssumption DEF IndInv, ThreadLeaves, At, Receiving, callVars, mainVars, queues,
        reopening, ThreadEnded, Finishing
<1>1. CASE Recv1
  <2>1. TypeOK'
    <3>1. inbox' \in 0..sent BY <1>1, InboxType DEF Recv1
    <3>2. request' \in BOOLEAN /\ ctx' \in BOOLEAN /\ thread' \in ThreadAt
      BY <1>1 DEF Recv1, TypeOK, ThreadAt
    <3> QED BY <1>1, <3>1, <3>2 DEF Recv1, TypeOK
  <2>2. ThreadOK' BY <1>1 DEF Recv1, ThreadOK
  <2>3. ResultOK' /\ WorkerOK' BY <1>1 DEF Recv1, ResultOK, WorkerOK
  <2> QED BY <2>1, <2>2, <2>3
<1>2. CASE Call
  <2>1. TypeOK' BY <1>2 DEF Call, TypeOK, ThreadAt
  <2>2. ThreadOK' BY <1>2 DEF Call, ThreadOK
  <2>3. ResultOK' /\ WorkerOK' BY <1>2 DEF Call, ResultOK, WorkerOK
  <2> QED BY <2>1, <2>2, <2>3
<1>3. CASE Enter
  <2>1. TypeOK' BY <1>3 DEF Enter, Fails, TypeOK, ThreadAt
  <2>2. ThreadOK' BY <1>3 DEF Enter, Fails, ThreadOK, TypeOK
  <2>3. ResultOK'
    <3>1. thread = "enter" /\ resultQ = <<>> BY <1>3 DEF Enter, ResultOK
    <3> QED BY <1>3, <3>1 DEF Enter, ResultOK
  <2>4. WorkerOK' BY <1>3 DEF Enter, Fails, WorkerOK
  <2> QED BY <2>1, <2>2, <2>3, <2>4
<1>4. CASE Signal
  <2>1. TypeOK' BY <1>4 DEF Signal, TypeOK, ThreadAt
  <2>2. ThreadOK' BY <1>4 DEF Signal, ThreadOK
  <2>3. ResultOK' /\ WorkerOK' BY <1>4 DEF Signal, ResultOK, WorkerOK
  <2> QED BY <2>1, <2>2, <2>3
<1>5. CASE Work
  <2>1. /\ thread = "work" /\ thread' = "call2"
        /\ status = "SUCCESS" /\ ~processed /\ ~reply /\ replied = 0 /\ resultQ = <<>>
        /\ UNCHANGED <<worker, request, arg, replied, ctx, inbox, queues>>
    BY <1>5 DEF Work, Returns, Fails, ThreadOK, TypeOK, ResultOK
  <2>2. CASE Returns
    <3>1. TypeOK' BY <1>5, <2>1, <2>2 DEF Work, Returns, TypeOK, ThreadAt
    <3>2. ThreadOK' BY <1>5, <2>1, <2>2 DEF Work, Returns, ThreadOK
    <3>3. ResultOK' /\ WorkerOK' BY <1>5, <2>1, <2>2 DEF Work, Returns, ResultOK, WorkerOK
    <3> QED BY <3>1, <3>2, <3>3
  <2>3. CASE Fails /\ UNCHANGED <<reply, processed>>
    <3>1. TypeOK' BY <1>5, <2>1, <2>3 DEF Work, Fails, TypeOK, ThreadAt
    <3>2. ThreadOK' BY <1>5, <2>1, <2>3 DEF Work, Fails, ThreadOK
    <3>3. ResultOK' /\ WorkerOK' BY <1>5, <2>1, <2>3 DEF Work, Fails, ResultOK, WorkerOK
    <3> QED BY <3>1, <3>2, <3>3
  <2> QED BY <1>5, <2>2, <2>3 DEF Work
<1>9. CASE Lead
  <2>1. /\ thread = "lead" /\ thread' \in {"work", "call2"}
        /\ status = "SUCCESS" /\ ~processed /\ ~reply /\ replied = 0 /\ resultQ = <<>>
        /\ UNCHANGED <<worker, request, arg, reply, replied, ctx, inbox, queues>>
    BY <1>9 DEF Lead, Fails, ThreadOK, TypeOK, ResultOK
  <2>2. status' \in {"SUCCESS", "FAIL"} /\ processed' \in BOOLEAN
    BY <1>9 DEF Lead, Fails, TypeOK
  <2>3. TypeOK' BY <1>9, <2>1, <2>2 DEF TypeOK, ThreadAt, Lead
  <2>4. ThreadOK' BY <1>9, <2>1 DEF Lead, Fails, ThreadOK
  <2>5. ResultOK' /\ WorkerOK' BY <1>9, <2>1 DEF Lead, ResultOK, WorkerOK
  <2> QED BY <2>3, <2>4, <2>5
<1>6. CASE Call2
  <2>1. TypeOK' BY <1>6 DEF Call2, TypeOK, ThreadAt
  <2>2. ThreadOK' BY <1>6 DEF Call2, ThreadOK
  <2>3. ResultOK' /\ WorkerOK' BY <1>6 DEF Call2, ResultOK, WorkerOK
  <2> QED BY <2>1, <2>2, <2>3
<1>7. CASE Recv2
  <2>1. TypeOK'
    <3>1. inbox' \in 0..sent BY <1>7, InboxType DEF Recv2
    <3>2. ctx' \in BOOLEAN /\ thread' \in ThreadAt
      BY <1>7 DEF Recv2, TypeOK, ThreadAt
    <3> QED BY <1>7, <3>1, <3>2 DEF Recv2, TypeOK
  <2>2. ThreadOK' BY <1>7 DEF Recv2, ThreadOK
  <2>3. ResultOK' /\ WorkerOK' BY <1>7 DEF Recv2, ResultOK, WorkerOK
  <2> QED BY <2>1, <2>2, <2>3
<1>8. CASE Put
  <2>1. TypeOK' BY <1>8 DEF Put, TypeOK, ThreadAt
  <2>2. ThreadOK' BY <1>8 DEF Put, ThreadOK
  <2>3. ResultOK' /\ WorkerOK' BY <1>8 DEF Put, ResultOK, WorkerOK
  <2> QED BY <2>1, <2>2, <2>3
<1>10. CASE Drop \/ Open \/ Announce
  <2>1. TypeOK'
    <3>1. CASE Drop
      <4>1. inbox' \in 0..sent' BY <3>1 DEF Drop, ReconnectLeaves, TypeOK
      <4> QED BY <3>1, <4>1 DEF Drop, ReconnectLeaves, TypeOK
    <3>2. CASE Open
      <4>1. reopened' \in BOOLEAN BY <3>2, Zenon DEF Open, TypeOK
      <4> QED BY <3>2, <4>1 DEF Open, ReconnectLeaves, TypeOK, ThreadAt
    <3>3. CASE Announce BY <3>3 DEF Announce, ReconnectLeaves, TypeOK, ThreadAt
    <3> QED BY <1>10, <3>1, <3>2, <3>3
  <2>2. ThreadOK' BY <1>10 DEF Drop, Open, Announce, ReconnectLeaves, ThreadOK
  <2>3. ResultOK' BY <1>10 DEF Drop, Open, Announce, ReconnectLeaves, ResultOK
  <2>4. WorkerOK'
    <3>1. CASE Drop BY <3>1 DEF Drop, ReconnectLeaves, WorkerOK
    <3>2. CASE Open BY <3>2 DEF Open, ReconnectLeaves, WorkerOK
    <3>3. CASE Announce BY <3>3 DEF Announce, ReconnectLeaves, WorkerOK
    <3> QED BY <1>10, <3>1, <3>2, <3>3
  <2> QED BY <2>1, <2>2, <2>3, <2>4
<1> QED BY <1>1, <1>2, <1>3, <1>4, <1>5, <1>6, <1>7, <1>8, <1>9, <1>10 DEF ThreadStep

LEMMA SendInv ==
  ASSUME IndInv, Send
  PROVE  IndInv'
<1> USE AgentAssumption DEF IndInv, mainVars, callVars, reopening, queues, ThreadEnded,
        Finishing
<1>1. TypeOK' BY DEF Send, TypeOK
<1>2. ThreadOK' BY DEF Send, ThreadOK
<1>3. ResultOK' BY DEF Send, ResultOK
<1>4. WorkerOK' BY DEF Send, WorkerOK
<1> QED BY <1>1, <1>2, <1>3, <1>4

LEMMA StutterInv ==
  ASSUME IndInv, UNCHANGED vars
  PROVE  IndInv'
  BY DEF IndInv, vars, TypeOK, ThreadOK, ResultOK, WorkerOK, Finishing, ThreadEnded,
      mainVars, callVars, reopening, brokerVars, queues

\* IndInv holds in every reachable state.
THEOREM Invariance == Spec => []IndInv
<1>1. IndInv /\ [Next]_vars => IndInv'
  BY MainInv, ThreadInv, SendInv, StutterInv DEF Next
<1> QED BY InitInv, <1>1, PTL DEF Spec

\* The queues of size one never hold more, and every attribute keeps its type,
\* although two threads put, get and assign in any order.
THEOREM TypeCorrect == Spec => []TypeOK
<1>1. IndInv => TypeOK
  BY DEF IndInv
<1> QED BY Invariance, <1>1, PTL

\* What the agent prints is what happened in its service's thread.
THEOREM HonestReports == Spec => []ReportHonest
<1>1. IndInv => ReportHonest
  BY DEF IndInv, TypeOK, ThreadOK, ResultOK, Finishing, ReportHonest
<1> QED BY Invariance, <1>1, PTL

\* cleanup() is final: nothing is sent to the broker after it, except over a socket
\* that was opened while destroy() ran.
THEOREM CleanupIsFinal == Spec => NoReplyAfterCleanup
<1>1. IndInv /\ [Next]_vars => [main = "done" /\ replied' # replied => reopened]_vars
  <2> SUFFICES ASSUME IndInv, Next, main = "done", replied' # replied
               PROVE  reopened
    BY DEF vars
  <2>1. Call2
    BY DEF Next, MainStep, Signalled, LeaveLoop, Take, AssertEmpty, Cleanup, Close, Unset,
        Clear, Exit, MainGoes, MainLeaves, Elapse, Interrupt, ThreadStep, Recv1, Call,
        Enter, Signal, Lead, Work, Recv2, Put, Drop, Open, Announce, ReconnectLeaves, Send
  <2> QED BY <2>1 DEF Call2, At, IndInv, TypeOK, WorkerOK, ThreadEnded
<1> QED BY Invariance, <1>1, PTL DEF Spec, NoReplyAfterCleanup
=============================================================================
