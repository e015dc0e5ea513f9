------------------------------- MODULE Bridge -------------------------------
(***************************************************************************)
(* The execution bridge of the Max kernel external while the kernel runs:  *)
(*                                                                         *)
(*  - the xeus worker thread, running max_interpreter::                    *)
(*    execute_request_impl (interpreter.cpp), which pushes an              *)
(*    OutletMessage, sets the qelem, and polls result_queue until a        *)
(*    result arrives, the deadline passes or impl->alive drops;            *)
(*  - the Max main thread, which drains outlet_queue in the qelem callback *)
(*    kernel_outlet_drain and pushes ResultMessages from the `result` and  *)
(*    `dict` methods (external.cpp).                                       *)
(*                                                                         *)
(* The two threads share only the two ThreadSafeQueues, the qelem and the  *)
(* atomic alive flag (types.h), so every step below touches at most one    *)
(* of them.  Time is counted in poll iterations: one PollWait is one       *)
(* 10 ms sleep, and timeout is given in those units.                       *)
(***************************************************************************)
EXTENDS Integers, SequencesExt, MessageQueue

CONSTANTS
    MaxRequests,    \* execute_requests the frontend sends in one behaviour
    MaxResults,     \* `result` and `dict` messages the patch sends
    TimeoutChoices, \* values impl->timeout may hold, in poll iterations
    MaxArgs         \* longest argument list of a `result` message

ASSUME /\ MaxRequests \in Nat \ {0}
       /\ MaxResults \in Nat
       /\ TimeoutChoices \subseteq Int /\ TimeoutChoices # {}
       /\ MaxArgs \in Nat

VARIABLES
    outletQueue,  \* impl->outlet_queue: OutletMessages for the main thread
    resultQueue,  \* impl->result_queue: ResultMessages for the worker
    qelemSet,     \* the outlet qelem is set and not yet serviced
    alive,        \* impl->alive
    timeout,      \* impl->timeout
    serving,      \* the xeus serve loop still dispatches requests
    wpc,          \* worker thread: where it is in execute_request_impl
    req,          \* worker thread: the request being executed
    waited,       \* worker thread: poll iterations slept so far
    deadline,     \* worker thread: poll iterations allowed (local copy)
    nextReq,      \* the next request's execution counter
    hpc,          \* main thread: idle, or inside kernel_outlet_drain
    hostSeen,     \* ghost: last execution counter the patch received
    dispatched,   \* history: messages sent out of an outlet, in order
    submitted,    \* history: every ResultMessage pushed, in push order
    replies       \* history: every reply callback, with what was published

vars == <<outletQueue, resultQueue, qelemSet, alive, timeout, serving, wpc,
          req, waited, deadline, nextReq, hpc, hostSeen, dispatched,
          submitted, replies>>
workerVars == <<wpc, req, waited, deadline, nextReq>>
historyVars == <<hostSeen, dispatched, submitted, replies>>

-----------------------------------------------------------------------------
(* Messages.  Code text, selectors and atom payloads carry nothing a       *)
(* property tells apart: an OutletMessage is its execution counter and     *)
(* outlet index, a ResultMessage its classification fields.  `oid` is the *)
(* ResultMessage's position in submission order and `answers` the counter *)
(* of the code the patch had last received when it sent it; both are      *)
(* ghosts (the code's execution_counter field is left 0 by kernel_result). *)

Directive == [exec : 1..MaxRequests, outlet : {0, 1}]

Outcome == [error : BOOLEAN, stream : BOOLEAN, mime : {"", "application/json"},
            oid : Nat, answers : 0..MaxRequests]

\* What a request published before its reply: the outcome's category, the
\* "no response" stdout notice, or nothing (a silent request that timed out).
Shown == {"error", "stream", "text/plain", "application/json",
          "noresponse", "nothing"}

Reply == [exec : 1..MaxRequests, status : {"ok", "error"}, shown : Shown,
          oid : Nat]

\* Kinds of atom in a `result` message: the symbol `error`, any other
\* symbol, and a number (A_LONG and A_FLOAT are handled alike).
AtomKinds == {"error", "sym", "num"}

ResultArgs == UNION {[1..n -> AtomKinds] : n \in 1..MaxArgs}

\* kernel_result: `result error <ename> <evalue...>` with at least three
\* atoms is the error form; error_name is set only when <ename> is a
\* symbol, and ResultMessage::is_error() is !error_name.empty().  Any other
\* list becomes result.text.
ResultFromArgs(args, oid) ==
    [error   |-> Len(args) >= 3 /\ args[1] = "error"
                 /\ args[2] \in {"error", "sym"},
     stream  |-> FALSE,
     mime    |-> "",
     oid     |-> oid,
     answers |-> hostSeen]

\* kernel_dict: the dictionary's text with mime_type "application/json".
DictResult(oid) ==
    [error |-> FALSE, stream |-> FALSE, mime |-> "application/json",
     oid |-> oid, answers |-> hostSeen]

\* execute_request_impl's choice of what to publish for a popped result:
\* an error first, then a stream chunk, then execute_result under its mime
\* type or text/plain.
Classify(r) ==
    CASE r.error  -> "error"
      [] r.stream -> "stream"
      [] OTHER    -> IF r.mime = "" THEN "text/plain" ELSE r.mime

\* kernel_outlet_drain's outlet choice from OutletMessage::outlet_index.
OutletFor(i) == IF i = 0 THEN "left" ELSE "right"

-----------------------------------------------------------------------------
(* The kernel has just started: kernel_new created both queues empty, the  *)
(* qelem unset and alive true; kernel_start copied the timeout attribute.  *)
Init ==
    /\ outletQueue = <<>>
    /\ resultQueue = <<>>
    /\ qelemSet = FALSE
    /\ alive = TRUE
    /\ timeout \in TimeoutChoices
    /\ serving = TRUE
    /\ wpc = "idle"
    /\ req = [exec |-> 1, silent |-> FALSE]
    /\ waited = 0
    /\ deadline = 0
    /\ nextReq = 1
    /\ hpc = "idle"
    /\ hostSeen = 0
    /\ dispatched = <<>>
    /\ submitted = <<>>
    /\ replies = <<>>

-----------------------------------------------------------------------------
(* Worker thread.  The xeus serve loop handles one shell request at a time *)
(* on this thread, so at most one execute_request_impl runs.              *)

\* xeus hands an execute_request to execute_request_impl.
ExecuteRequest(silent) ==
    /\ serving
    /\ wpc = "idle"
    /\ nextReq <= MaxRequests
    /\ req' = [exec |-> nextReq, silent |-> silent]
    /\ nextReq' = nextReq + 1
    /\ wpc' = "push"
    /\ UNCHANGED <<outletQueue, resultQueue, qelemSet, alive, timeout,
                   serving, waited, deadline, hpc, historyVars>>

\* Step 1: build the "code execute <code>" OutletMessage for outlet 0 and
\* push it.
ExecPush ==
    /\ wpc = "push"
    /\ outletQueue' = Push(outletQueue, [exec |-> req.exec, outlet |-> 0])
    /\ wpc' = "wake"
    /\ UNCHANGED <<resultQueue, qelemSet, alive, timeout, serving, req,
                   waited, deadline, nextReq, hpc, historyVars>>

\* qelem_set wakes the main thread; publish_execution_input goes to IOPub;
\* the deadline is computed from impl->timeout read now.
ExecWake ==
    /\ wpc = "wake"
    /\ qelemSet' = TRUE
    /\ deadline' = timeout
    /\ waited' = 0
    /\ wpc' = "poll"
    /\ UNCHANGED <<outletQueue, resultQueue, alive, timeout, serving, req,
                   nextReq, hpc, historyVars>>

\* The poll loop's condition: now < deadline && alive.
Polling == waited < deadline /\ alive

\* A result is popped: an error is published and answered with an error
\* reply and an early return; a stream chunk or execute_result is
\* published, the loop breaks with got_result and the reply is "ok".
PollResult ==
    /\ wpc = "poll"
    /\ Polling
    /\ ~IsEmpty(resultQueue)
    /\ LET r == TryPop(resultQueue).item
       IN  /\ resultQueue' = TryPop(resultQueue).rest
           /\ replies' = Append(replies,
                  [exec   |-> req.exec,
                   status |-> IF r.error THEN "error" ELSE "ok",
                   shown  |-> Classify(r),
                   oid    |-> r.oid])
    /\ wpc' = "idle"
    /\ UNCHANGED <<outletQueue, qelemSet, alive, timeout, serving, req,
                   waited, deadline, nextReq, hpc, hostSeen, dispatched,
                   submitted>>

\* Faulty variant of the sleep: one that sleeps past the deadline (a loop
\* on alive alone).
PollWaitPastDeadline ==
    /\ wpc = "poll"
    /\ alive
    /\ IsEmpty(resultQueue)
    /\ waited' = waited + 1
    /\ UNCHANGED <<outletQueue, resultQueue, qelemSet, alive, timeout,
                   serving, wpc, req, deadline, nextReq, hpc, historyVars>>

\* Nothing to pop: sleep 10 ms and test the loop condition again.
PollWait ==
    /\ wpc = "poll"
    /\ Polling
    /\ IsEmpty(resultQueue)
    /\ waited' = waited + 1
    /\ UNCHANGED <<outletQueue, resultQueue, qelemSet, alive, timeout,
                   serving, wpc, req, deadline, nextReq, hpc, historyVars>>

\* Faulty variant: the "no response" notice without the `!config.silent`
\* test.
PollTimeoutIgnoresSilent ==
    /\ wpc = "poll"
    /\ ~Polling
    /\ replies' = Append(replies,
           [exec |-> req.exec, status |-> "ok", shown |-> "noresponse", oid |-> 0])
    /\ wpc' = "idle"
    /\ UNCHANGED <<outletQueue, resultQueue, qelemSet, alive, timeout,
                   serving, req, waited, deadline, nextReq, hpc, hostSeen,
                   dispatched, submitted>>

\* The loop ends without a result (deadline reached or alive false): the
\* "no response" notice unless silent, then the "ok" reply.
PollTimeout ==
    /\ wpc = "poll"
    /\ ~Polling
    /\ replies' = Append(replies,
           [exec   |-> req.exec,
            status |-> "ok",
            shown  |-> IF req.silent THEN "nothing" ELSE "noresponse",
            oid    |-> 0])
    /\ wpc' = "idle"
    /\ UNCHANGED <<outletQueue, resultQueue, qelemSet, alive, timeout,
                   serving, req, waited, deadline, nextReq, hpc, hostSeen,
                   dispatched, submitted>>

\* shutdown_request_impl stores alive = false; xeus then leaves its serve
\* loop, so no further request is dispatched.
ShutdownRequest ==
    /\ serving
    /\ wpc = "idle"
    /\ alive' = FALSE
    /\ serving' = FALSE
    /\ UNCHANGED <<outletQueue, resultQueue, qelemSet, timeout, workerVars,
                   hpc, historyVars>>

-----------------------------------------------------------------------------
(* Main thread.                                                            *)

\* Max's scheduler services the set qelem: kernel_outlet_drain starts.
DrainBegin ==
    /\ qelemSet
    /\ hpc = "idle"
    /\ qelemSet' = FALSE
    /\ hpc' = "draining"
    /\ UNCHANGED <<outletQueue, resultQueue, alive, timeout, serving,
                   workerVars, historyVars>>

\* Faulty variant: one message per qelem service (`if` for `while`).
DrainPopOnce ==
    /\ hpc = "draining"
    /\ ~IsEmpty(outletQueue)
    /\ LET m == TryPop(outletQueue).item
       IN  /\ outletQueue' = TryPop(outletQueue).rest
           /\ dispatched' = Append(dispatched,
                                    [exec |-> m.exec, outlet |-> OutletFor(m.outlet)])
           /\ hostSeen' = m.exec
    /\ hpc' = "idle"
    /\ UNCHANGED <<resultQueue, qelemSet, alive, timeout, serving,
                   workerVars, submitted, replies>>

\* One iteration of the drain loop: pop an OutletMessage and send it out of
\* the outlet its index selects; the patch now knows that code.
DrainPop ==
    /\ hpc = "draining"
    /\ ~IsEmpty(outletQueue)
    /\ LET m == TryPop(outletQueue).item
       IN  /\ outletQueue' = TryPop(outletQueue).rest
           /\ dispatched' = Append(dispatched,
                                    [exec |-> m.exec, outlet |-> OutletFor(m.outlet)])
           /\ hostSeen' = m.exec
    /\ UNCHANGED <<resultQueue, qelemSet, alive, timeout, serving,
                   workerVars, hpc, submitted, replies>>

\* try_pop found the queue empty: the drain loop breaks.
DrainEnd ==
    /\ hpc = "draining"
    /\ IsEmpty(outletQueue)
    /\ hpc' = "idle"
    /\ UNCHANGED <<outletQueue, resultQueue, qelemSet, alive, timeout,
                   serving, workerVars, historyVars>>

\* The patch sends `result <args>`, possibly from inside an outlet call of
\* the drain: kernel_result builds a ResultMessage and pushes it.  An empty
\* argument list is rejected before anything is pushed.
SubmitResult(args) ==
    /\ Len(submitted) < MaxResults
    /\ Len(args) >= 1
    /\ LET r == ResultFromArgs(args, Len(submitted) + 1)
       IN  /\ resultQueue' = Push(resultQueue, r)
           /\ submitted' = Append(submitted, r)
    /\ UNCHANGED <<outletQueue, qelemSet, alive, timeout, serving,
                   workerVars, hpc, hostSeen, dispatched, replies>>

\* The patch sends `dict <name>` for a registered dictionary that
\* serializes: kernel_dict pushes its text as an application/json result.
SubmitDict ==
    /\ Len(submitted) < MaxResults
    /\ LET r == DictResult(Len(submitted) + 1)
       IN  /\ resultQueue' = Push(resultQueue, r)
           /\ submitted' = Append(submitted, r)
    /\ UNCHANGED <<outletQueue, qelemSet, alive, timeout, serving,
                   workerVars, hpc, hostSeen, dispatched, replies>>

-----------------------------------------------------------------------------
Worker ==
    \/ ExecPush
    \/ ExecWake
    \/ PollResult
    \/ PollWait
    \/ PollTimeout

Frontend ==
    \/ \E silent \in BOOLEAN : ExecuteRequest(silent)
    \/ ShutdownRequest

MainThread ==
    \/ DrainBegin
    \/ DrainPop
    \/ DrainEnd
    \/ \E args \in ResultArgs : SubmitResult(args)
    \/ SubmitDict

Next == Worker \/ Frontend \/ MainThread

\* The worker thread is scheduled by the OS and Max services a set qelem on
\* its main thread; the frontend and the patch owe nothing.
Fairness ==
    /\ WF_vars(ExecPush) /\ WF_vars(ExecWake)
    /\ WF_vars(PollResult) /\ WF_vars(PollWait) /\ WF_vars(PollTimeout)
    /\ WF_vars(DrainBegin) /\ WF_vars(DrainPop) /\ WF_vars(DrainEnd)

Spec == Init /\ [][Next]_vars /\ Fairness


-----------------------------------------------------------------------------
(* The abstract request/reply service this bridge implements.  The        *)
(* outstanding request is the worker's while it is inside the handler;    *)
(* the answer pool is result_queue; a reply's answer is the ResultMessage  *)
(* it published, found by its position in submission order.               *)

Answers == [error : BOOLEAN, stream : BOOLEAN, mime : {"", "application/json"},
            oid : 1..MaxResults, answers : 0..MaxRequests]

RR == INSTANCE RequestReply WITH
        current <- IF wpc = "idle" THEN [exec |-> 0, silent |-> FALSE] ELSE req,
        nextId  <- nextReq,
        pool    <- resultQueue,
        replies <- [i \in DOMAIN replies |->
                      [exec   |-> replies[i].exec,
                       status |-> replies[i].status,
                       shown  |-> replies[i].shown,
                       answer |-> IF replies[i].oid = 0 THEN "none"
                                  ELSE submitted[replies[i].oid]]],
        open    <- serving

-----------------------------------------------------------------------------
(* Properties.                                                             *)

MaxTimeout == CHOOSE t \in TimeoutChoices : \A u \in TimeoutChoices : u <= t

TypeOK ==
    /\ outletQueue \in Seq(Directive)
    /\ resultQueue \in Seq(Outcome)
    /\ qelemSet \in BOOLEAN /\ alive \in BOOLEAN /\ serving \in BOOLEAN
    /\ timeout \in TimeoutChoices
    /\ wpc \in {"idle", "push", "wake", "poll"}
    /\ req \in [exec : 1..MaxRequests, silent : BOOLEAN]
    /\ waited \in 0..MaxTimeout
    /\ deadline \in TimeoutChoices \cup {0}
    /\ nextReq \in 1..MaxRequests + 1
    /\ hpc \in {"idle", "draining"}
    /\ hostSeen \in 0..MaxRequests
    /\ dispatched \in Seq([exec : 1..MaxRequests, outlet : {"left", "right"}])
    /\ submitted \in Seq(Outcome)
    /\ replies \in Seq(Reply)

\* Every OutletMessage pushed by the worker is eventually sent out of its
\* outlet by the main thread: the qelem is set after the push and the drain
\* loop empties the queue, even when several requests' messages are queued
\* behind a single qelem service.
DirectiveDelivered ==
    \A id \in 1..MaxRequests :
        (\E i \in DOMAIN outletQueue : outletQueue[i].exec = id)
            ~> (\E i \in DOMAIN dispatched : dispatched[i].exec = id)

\* The bridge implements the abstract service: with its threads, queues,
\* qelem and poll loop, every step of execute_request_impl, the drain and
\* the result methods is a step of RequestReply or leaves it unchanged,
\* and the scheduling the code gets makes every request answered.
ImplementsRequestReply == RR!Spec

\* The outcome a request publishes is the answer the patch gave to that
\* request's code: a ResultMessage sent while the patch held the code of
\* execution counter n is published for request n and no other.  (A
\* result sent before any code arrived answers nothing and is exempt.)
ResultMatchesRequest ==
    \A i \in DOMAIN replies :
        LET oid == replies[i].oid
        IN  (oid # 0 /\ submitted[oid].answers # 0)
                => submitted[oid].answers = replies[i].exec

=====
