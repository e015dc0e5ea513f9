---------------------------- MODULE LegacyKernel ----------------------------
(***************************************************************************)
(* The earlier single-file external, kernel.cpp.  It keeps every C++       *)
(* member directly in the Max-allocated t_kernel, has no queues and no     *)
(* qelem, and its max_interpreter (holding m_max_obj = x) sends the code   *)
(* out of the Max outlet from the xeus worker thread and replies at once.  *)
(*                                                                         *)
(* The lifecycle follows the same plan as external.cpp: the interpreter is *)
(* moved into the xkernel, stop signals and detaches, free leaks the       *)
(* xkernel and context.  Unlike external.cpp, kernel_free runs and Max     *)
(* frees the object in one main-thread step here: nothing the worker reads *)
(* changes in between.                                                     *)
(***************************************************************************)
EXTENDS Integers, Sequences

CONSTANTS
    MaxOps,       \* start/stop/info/eval messages the patch sends
    MaxRequests   \* messages the frontend sends to the serve loop

ASSUME MaxOps \in Nat /\ MaxRequests \in Nat

VARIABLES
    objMem,       \* the t_kernel: live or freed
    interp,       \* x->interpreter: null, held, or moved-from (empty)
    kernel,       \* x->kernel is non-null
    stopFlag,     \* xkernel::stop has been called
    handle,       \* x->kernel_thread: null or a joinable std::thread
    worker,       \* the worker thread: none, starting, serving, exited
    connFile,     \* x->connection_file is non-empty
    fileOnDisk,   \* the connection file exists
    requests,     \* messages the frontend has sent
    log,          \* history: what each patch message reported
    freedRead,    \* ghost: the worker thread read the freed t_kernel
    workerOutlet  \* ghost: the worker thread called into a Max outlet

vars == <<objMem, interp, kernel, stopFlag, handle, worker, connFile,
          fileOnDisk, requests, log, freedRead, workerOutlet>>

\* write_connection_file's throws: port parse, the ofstream that did not
\* open, and the failed write after the ofstream had created the file.
WriteSteps == <<"ports", "open", "write">>

\* kernel_start's statements that can throw, in order: configuration and
\* context, the xkernel constructor (the interpreter moved out before it),
\* the connection file, new std::thread.
StartSteps == <<"config", "kernel">> \o WriteSteps \o <<"thread">>

StartOutcomes == {StartSteps[i] : i \in 1..Len(StartSteps)} \cup {"none"}

Completed(f, s) ==
    \/ f = "none"
    \/ \E i, j \in 1..Len(StartSteps) :
          StartSteps[i] = s /\ StartSteps[j] = f /\ i < j

Log(op, msg) == log' = Append(log, [op |-> op, msg |-> msg])

\* Patch messages are bounded by MaxOps.
PatchMessage == objMem = "live" /\ Len(log) < MaxOps

-----------------------------------------------------------------------------
\* kernel_new: the interpreter allocation may throw, leaving it null.
Init ==
    /\ objMem = "live"
    /\ interp \in {"held", "null"}
    /\ kernel = FALSE
    /\ stopFlag = FALSE
    /\ handle = "null"
    /\ worker = "none"
    /\ connFile = FALSE
    /\ fileOnDisk = FALSE
    /\ requests = 0
    /\ log = <<>>
    /\ freedRead = FALSE
    /\ workerOutlet = FALSE

-----------------------------------------------------------------------------
(* Main thread.                                                            *)

\* kernel_start's early returns.
StartRefused ==
    /\ PatchMessage
    /\ \/ kernel /\ Log("start", "already_running")
       \/ ~kernel /\ interp # "held"
          /\ Log("start", "interpreter_not_initialized")
    /\ UNCHANGED <<objMem, interp, kernel, stopFlag, handle, worker, connFile,
                   fileOnDisk, requests, freedRead, workerOutlet>>

\* kernel_start's try block ending with outcome f.  The catch deletes (and
\* nulls) x->kernel, but a failed xkernel constructor never assigned it.
StartAttempt(f) ==
    /\ PatchMessage
    /\ ~kernel /\ interp = "held"
    /\ interp' = IF Completed(f, "config") THEN "moved" ELSE "held"
    /\ kernel' = (f = "none")
    /\ connFile' = (connFile \/ Completed(f, "write"))
    /\ fileOnDisk' = (fileOnDisk \/ Completed(f, "open"))
    /\ handle' = IF f = "none" THEN "joinable" ELSE handle
    /\ worker' = IF f = "none" THEN "starting" ELSE worker
    /\ Log("start", IF f = "none" THEN "started" ELSE "start_error")
    /\ UNCHANGED <<objMem, stopFlag, requests, freedRead, workerOutlet>>

\* kernel_stop: with a kernel, signal it, detach and delete the thread
\* handle, remove the file and clear its path, leaving x->kernel set;
\* otherwise report "not running".
Stop ==
    /\ PatchMessage
    /\ \/ /\ kernel
          /\ stopFlag' = TRUE
          /\ handle' = "null"
          /\ fileOnDisk' = (fileOnDisk /\ ~connFile)
          /\ connFile' = FALSE
          /\ Log("stop", "stopped")
       \/ /\ ~kernel
          /\ Log("stop", "not_running")
          /\ UNCHANGED <<stopFlag, handle, fileOnDisk, connFile>>
    /\ UNCHANGED <<objMem, interp, kernel, worker, requests, freedRead, workerOutlet>>

\* kernel_eval: refused unless *x->interpreter still holds the interpreter;
\* otherwise it joins the atoms into code and sends `eval` with the atoms
\* out of the right outlet (from the main thread).
Eval ==
    /\ PatchMessage
    /\ Log("eval", IF interp = "held" THEN "ok" ELSE "interpreter_not_initialized")
    /\ UNCHANGED <<objMem, interp, kernel, stopFlag, handle, worker, connFile,
                   fileOnDisk, requests, freedRead, workerOutlet>>

\* kernel_info: the same check, then the interpreter's kernel_info_request
\* posted and sent out of the right outlet.
Info ==
    /\ PatchMessage
    /\ Log("info", IF interp = "held" THEN "ok" ELSE "interpreter_not_initialized")
    /\ UNCHANGED <<objMem, interp, kernel, stopFlag, handle, worker, connFile,
                   fileOnDisk, requests, freedRead, workerOutlet>>

\* kernel_free, then Max frees the object: stop a set kernel, detach and
\* delete the thread handle, delete the interpreter wrapper, remove the
\* connection file if a path is recorded; the xkernel and context leak.
Free ==
    /\ objMem = "live"
    /\ stopFlag' = (stopFlag \/ kernel)
    /\ handle' = "null"
    /\ interp' = "null"
    /\ fileOnDisk' = (fileOnDisk /\ ~connFile)
    /\ objMem' = "freed"
    /\ UNCHANGED <<kernel, worker, connFile, requests, log, freedRead, workerOutlet>>

-----------------------------------------------------------------------------
(* Worker thread.                                                          *)

\* kernel_thread_func reads x->kernel and, if set, runs xkernel::start,
\* whose interpreter configure_impl reads m_max_obj->debug.  After Max
\* freed the object these are reads of freed memory.
ThreadRun ==
    /\ worker = "starting"
    /\ freedRead' = (freedRead \/ objMem = "freed")
    /\ worker' = IF objMem = "live" /\ kernel THEN "serving" ELSE "exited"
    /\ UNCHANGED <<objMem, interp, kernel, stopFlag, handle, connFile,
                   fileOnDisk, requests, log, workerOutlet>>

\* The serve loop handles one frontend message, then tests the stop flag;
\* `shutdown` ends it.  execute_request_impl reads m_max_obj->debug and
\* m_max_obj->outlet_left and calls outlet_anything on this thread, then
\* replies at once; shutdown_request_impl reads m_max_obj->debug; the
\* other handlers (complete, inspect, is_complete, kernel_info) return a
\* constant reply and read nothing of the object.
MessageKinds == {"execute", "shutdown", "other"}

HandleMessage(kind) ==
    /\ worker = "serving"
    /\ requests < MaxRequests
    /\ requests' = requests + 1
    /\ freedRead' = (freedRead \/ (objMem = "freed" /\ kind # "other"))
    /\ workerOutlet' = (workerOutlet \/ kind = "execute")
    /\ worker' = IF stopFlag \/ kind = "shutdown" THEN "exited" ELSE "serving"
    /\ UNCHANGED <<objMem, interp, kernel, stopFlag, handle, connFile,
                   fileOnDisk, log>>

-----------------------------------------------------------------------------
Next ==
    \/ StartRefused
    \/ \E f \in StartOutcomes : StartAttempt(f)
    \/ Stop
    \/ Eval
    \/ Info
    \/ Free
    \/ ThreadRun
    \/ \E kind \in MessageKinds : HandleMessage(kind)

\* The OS eventually runs a launched thread; users and frontends owe nothing.
Spec == Init /\ [][Next]_vars /\ WF_vars(ThreadRun)

-----------------------------------------------------------------------------
(* Properties.                                                             *)

\* The spec's host dispatch runs only on the host thread: no Max outlet is
\* ever called from the xeus worker thread.  The legacy execute handler
\* calls outlet_anything from the serve loop, concurrently with whatever
\* the main thread is running.
OutletsOnMainThread == ~workerOutlet

\* The worker thread never reads the t_kernel after Max freed it: not in
\* kernel_thread_func, nor through the interpreter's m_max_obj while the
\* serve loop, stopped by kernel_free but still waiting for its next
\* message, handles that message.
NoUseAfterFree == ~freedRead

=============================================================================
