------------------------------- MODULE Kernel -------------------------------
(***************************************************************************)
(* The whole external: the Lifecycle of the Max object composed with the   *)
(* Bridge that runs while its worker thread serves requests.  They share   *)
(* impl->alive and impl->timeout (variables of both modules), the qelem    *)
(* (Lifecycle frees it, Bridge sets and services it) and the impl          *)
(* allocation itself, which every worker step of execute_request_impl      *)
(* dereferences through m_impl.                                            *)
(*                                                                         *)
(* A worker step that dereferences freed memory is recorded in freedRead   *)
(* and otherwise behaves as if the freed block still held its old         *)
(* contents, the outcome a freed-but-not-reused block gives.               *)
(***************************************************************************)
EXTENDS Integers, Sequences

CONSTANTS MaxRequests, MaxResults, TimeoutChoices, MaxArgs, MaxOps

VARIABLES
    outletQueue, resultQueue, qelemSet, alive, timeout, serving, wpc, req,
    waited, deadline, nextReq, hpc, hostSeen, dispatched, submitted, replies,
    attrTimeout, objMem, xImpl, implMem, interp, kernel, server, stopFlag,
    handle, worker, connFile, fileOnDisk, qelem, log, freedRead

B == INSTANCE Bridge
L == INSTANCE Lifecycle

\* Variables of one module the other does not share.
bridgeOnly == <<outletQueue, resultQueue, qelemSet, serving, wpc, req,
                waited, deadline, nextReq, hpc, hostSeen, dispatched,
                submitted, replies>>
lifeOnly == <<attrTimeout, objMem, xImpl, implMem, interp, kernel, server,
              stopFlag, handle, worker, connFile, fileOnDisk, qelem, log>>
vars == <<bridgeOnly, lifeOnly, alive, timeout, freedRead>>

Init == L!Init /\ B!Init

-----------------------------------------------------------------------------
(* Main thread: the lifecycle methods.  start, stop and @timeout may also  *)
(* arrive from the patch while an outlet call of the drain is running;    *)
(* kernel_free never runs inside the object's own drain.                   *)

KSetTimeout(t) == L!SetTimeout(t) /\ UNCHANGED bridgeOnly
KStartRefused == L!StartRefused /\ UNCHANGED bridgeOnly
KStartAttempt(f) == L!StartAttempt(f) /\ UNCHANGED bridgeOnly
KStopNotRunning == L!StopNotRunning /\ UNCHANGED bridgeOnly
KStop == L!Stop /\ UNCHANGED bridgeOnly
KEval == L!Eval /\ UNCHANGED bridgeOnly
KInfo == L!Info /\ UNCHANGED bridgeOnly

\* qelem_free also discards a pending qelem_set.
KFreeRelease ==
    /\ hpc = "idle"
    /\ L!FreeRelease
    /\ qelemSet' = FALSE
    /\ UNCHANGED <<outletQueue, resultQueue, serving, wpc, req, waited,
                   deadline, nextReq, hpc, hostSeen, dispatched, submitted,
                   replies>>

KFreeDelete == L!FreeDelete /\ UNCHANGED bridgeOnly

(* Main thread: the bridge methods, on a live object with an impl.  The    *)
(* qelem callback only runs while the qelem exists.                        *)

KDrainBegin == qelem = "live" /\ B!DrainBegin /\ UNCHANGED <<lifeOnly, freedRead>>
KDrainPop == B!DrainPop /\ UNCHANGED <<lifeOnly, freedRead>>
KDrainEnd == B!DrainEnd /\ UNCHANGED <<lifeOnly, freedRead>>

KSubmitResult(args) ==
    objMem = "live" /\ xImpl /\ B!SubmitResult(args)
    /\ UNCHANGED <<lifeOnly, freedRead>>

KSubmitDict ==
    objMem = "live" /\ xImpl /\ B!SubmitDict
    /\ UNCHANGED <<lifeOnly, freedRead>>

-----------------------------------------------------------------------------
(* Worker thread.                                                          *)

KThreadRun == L!ThreadRun /\ UNCHANGED bridgeOnly

\* The serve loop leaves only between requests.
KServeExit == wpc = "idle" /\ L!ServeExit /\ UNCHANGED bridgeOnly

\* A worker step through m_impl; `touched` says whether what it
\* dereferences has been freed.
Through(touched) == freedRead' = (freedRead \/ touched)

KExecuteRequest(silent) ==
    worker = "serving" /\ B!ExecuteRequest(silent)
    /\ UNCHANGED <<lifeOnly, freedRead>>

KExecPush ==
    B!ExecPush /\ Through(implMem = "deleted") /\ UNCHANGED lifeOnly

\* qelem_set(m_impl->qelem) after qelem_free is a use of the freed qelem.
KExecWake ==
    B!ExecWake /\ Through(implMem = "deleted" \/ qelem = "freed")
    /\ UNCHANGED lifeOnly

KPollResult ==
    B!PollResult /\ Through(implMem = "deleted") /\ UNCHANGED lifeOnly

KPollWait ==
    B!PollWait /\ Through(implMem = "deleted") /\ UNCHANGED lifeOnly

KPollTimeout ==
    B!PollTimeout /\ Through(implMem = "deleted") /\ UNCHANGED lifeOnly

\* shutdown_request_impl stores m_impl->alive = false; xeus then ends the
\* serve loop and the thread returns.
KShutdownRequest ==
    /\ worker = "serving"
    /\ B!ShutdownRequest
    /\ worker' = "exited"
    /\ Through(implMem = "deleted")
    /\ UNCHANGED <<attrTimeout, objMem, xImpl, implMem, interp, kernel,
                   server, stopFlag, handle, connFile, fileOnDisk, qelem,
                   log>>

-----------------------------------------------------------------------------
Next ==
    \/ \E t \in TimeoutChoices : KSetTimeout(t)
    \/ KStartRefused
    \/ \E f \in L!StartOutcomes : KStartAttempt(f)
    \/ KStopNotRunning
    \/ KStop
    \/ KEval
    \/ KInfo
    \/ KFreeRelease
    \/ KFreeDelete
    \/ KDrainBegin
    \/ KDrainPop
    \/ KDrainEnd
    \/ \E args \in B!ResultArgs : KSubmitResult(args)
    \/ KSubmitDict
    \/ KThreadRun
    \/ KServeExit
    \/ \E silent \in BOOLEAN : KExecuteRequest(silent)
    \/ KExecPush
    \/ KExecWake
    \/ KPollResult
    \/ KPollWait
    \/ KPollTimeout
    \/ KShutdownRequest

\* The OS runs the worker thread, Max services a set qelem and finishes a
\* kernel_free it began.  Users, the patch, the frontend and the network
\* owe nothing.
Fairness ==
    /\ WF_vars(KExecPush) /\ WF_vars(KExecWake)
    /\ WF_vars(KPollResult) /\ WF_vars(KPollWait) /\ WF_vars(KPollTimeout)
    /\ WF_vars(KDrainBegin) /\ WF_vars(KDrainPop) /\ WF_vars(KDrainEnd)
    /\ WF_vars(KThreadRun) /\ WF_vars(KFreeDelete)

Spec == Init /\ [][Next]_vars /\ Fairness

-----------------------------------------------------------------------------
(* Properties.                                                             *)

TypeOK == L!TypeOK /\ B!TypeOK

\* The worker thread never dereferences memory kernel_free has freed: not
\* the t_kernel read by kernel_thread_func, not impl through m_impl in
\* execute_request_impl or shutdown_request_impl, and not the qelem.
NoUseAfterFree == ~freedRead

\* The spec's cooperative cancellation: stop flips the liveness flag, so
\* a request polling when kernel_stop runs leaves its poll loop at the
\* next check instead of waiting out its deadline.
StopCancelsPoll == (stopFlag /\ wpc = "poll") => ~B!Polling

\* The spec's per-request deadline: each execute_request computes its
\* deadline from the timeout setting current when the request starts.
DeadlineFromCurrentTimeout ==
    [][(wpc = "wake" /\ wpc' = "poll") => deadline' = attrTimeout]_vars

=============================================================================
