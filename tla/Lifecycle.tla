------------------------------ MODULE Lifecycle ------------------------------
(***************************************************************************)
(* Lifecycle of one `kernel` Max object (external.cpp): kernel_new,        *)
(* kernel_start, kernel_stop and kernel_free on the Max main thread, the   *)
(* @timeout attribute setter, and the life of the xeus worker thread that  *)
(* kernel_start launches (kernel_thread_func and xkernel::start's serve     *)
(* loop).                                                                  *)
(*                                                                         *)
(* The source's design choices are all here: the interpreter is moved into *)
(* the xkernel, kernel_stop signals and detaches instead of joining and    *)
(* leaves impl->kernel set, kernel_free and the start error path release   *)
(* the xkernel instead of destroying it.  What the worker does while it    *)
(* serves requests is the Bridge module; Kernel composes the two.          *)
(***************************************************************************)
EXTENDS Integers, Sequences

CONSTANTS
    TimeoutChoices, \* values the @timeout attribute may be given
    MaxOps          \* start/stop/eval/info messages the patch sends

ASSUME /\ TimeoutChoices \subseteq Int /\ TimeoutChoices # {}
       /\ MaxOps \in Nat

VARIABLES
    attrTimeout, \* x->timeout, the @timeout attribute
    timeout,     \* impl->timeout, read by the worker's poll loop
    alive,       \* impl->alive
    objMem,      \* the t_kernel object: live, inside kernel_free, freed
    xImpl,       \* x->impl is non-null
    implMem,     \* the t_kernel_impl allocation: none, live, deleted
    interp,      \* impl->interpreter is non-null
    kernel,      \* impl->kernel is non-null
    server,      \* the xkernel object: none yet, or constructed and bound
    stopFlag,    \* xkernel::stop has been called
    handle,      \* impl->kernel_thread: null, or a joinable std::thread
    worker,      \* the worker thread: none, starting, serving, exited
    connFile,    \* impl->connection_file is non-empty
    fileOnDisk,  \* the connection file exists
    qelem,       \* x->outlet_qelem: none, live, freed
    log,         \* history: each start/stop call and what it reported
    freedRead    \* ghost: the worker read memory kernel_free had freed

lifeVars == <<attrTimeout, timeout, alive, objMem, xImpl, implMem, interp,
              kernel, server, stopFlag, handle, worker, connFile, fileOnDisk,
              qelem, log, freedRead>>

\* What start, stop, eval and info report to the Max console or the right
\* outlet ("ok": eval or info sent its message out of the right outlet).
Messages == {"started", "already_running", "not_initialized",
             "interpreter_not_initialized", "start_error", "stopped",
             "not_running", "ok"}

\* write_connection_file's throws (connection.cpp), in order: the port
\* parse, the ofstream that did not open, and the failed write after the
\* ofstream had created the file.
WriteSteps == <<"ports", "open", "write">>

\* The statements of kernel_start's try block that can throw, in order:
\* create_kernel_configuration and make_zmq_context (nothing changed yet),
\* the xkernel constructor binding its sockets (the interpreter has been
\* moved out), write_connection_file, and new std::thread.  "none" is a
\* start that throws nothing.
StartSteps == <<"config", "kernel">> \o WriteSteps \o <<"thread">>
StartOutcomes == {StartSteps[i] : i \in 1..Len(StartSteps)} \cup {"none"}

\* Completed(f, s): statement s ran to completion when the start ended
\* with outcome f.
Completed(f, s) ==
    \/ f = "none"
    \/ \E i, j \in 1..Len(StartSteps) :
          StartSteps[i] = s /\ StartSteps[j] = f /\ i < j

Log(op, msg) == log' = Append(log, [op |-> op, msg |-> msg])

-----------------------------------------------------------------------------
(* kernel_new: outlets and attributes, then a try block allocating impl,   *)
(* the qelem and the interpreter.  If it throws after `new                 *)
(* t_kernel_impl` the impl is lost and x->impl stays null.                 *)
Init ==
    /\ attrTimeout \in TimeoutChoices
    /\ timeout = attrTimeout
    /\ alive = TRUE
    /\ objMem = "live"
    /\ \/ /\ xImpl = TRUE /\ implMem = "live" /\ interp = TRUE
          /\ qelem = "live"
       \/ /\ xImpl = FALSE /\ implMem = "none" /\ interp = FALSE
          /\ qelem \in {"none", "live"}
    /\ kernel = FALSE
    /\ server = "none"
    /\ stopFlag = FALSE
    /\ handle = "null"
    /\ worker = "none"
    /\ connFile = FALSE
    /\ fileOnDisk = FALSE
    /\ log = <<>>
    /\ freedRead = FALSE

-----------------------------------------------------------------------------
(* Main thread.                                                            *)

\* Setting @timeout writes x->timeout only.
SetTimeout(t) ==
    /\ objMem = "live"
    /\ attrTimeout' = t
    /\ UNCHANGED <<timeout, alive, objMem, xImpl, implMem, interp, kernel,
                   server, stopFlag, handle, worker, connFile, fileOnDisk,
                   qelem, log, freedRead>>

\* kernel_start's early returns: no impl, impl->kernel already set, or no
\* interpreter left to move into a kernel.
StartRefused ==
    /\ objMem = "live"
    /\ Len(log) < MaxOps
    /\ \/ ~xImpl /\ Log("start", "not_initialized")
       \/ xImpl /\ kernel /\ Log("start", "already_running")
       \/ xImpl /\ ~kernel /\ ~interp
          /\ Log("start", "interpreter_not_initialized")
    /\ UNCHANGED <<attrTimeout, timeout, alive, objMem, xImpl, implMem,
                   interp, kernel, server, stopFlag, handle, worker,
                   connFile, fileOnDisk, qelem, freedRead>>

\* kernel_start's try block, ending with outcome f.  impl->timeout is
\* synced first.  The interpreter is moved out once configuration and
\* context exist; the xkernel exists (sockets bound) once its constructor
\* returns; the ofstream creates the file, and only a write_connection_file
\* that returns records its path in impl->connection_file; the worker
\* thread is launched last.  The catch block releases impl->kernel without
\* destroying it and leaves everything else as the exception found it.
StartAttempt(f) ==
    /\ objMem = "live"
    /\ Len(log) < MaxOps
    /\ xImpl /\ ~kernel /\ interp
    /\ timeout' = attrTimeout
    /\ interp' = ~Completed(f, "config")
    /\ server' = IF Completed(f, "kernel") THEN "bound" ELSE server
    /\ connFile' = (connFile \/ Completed(f, "write"))
    /\ fileOnDisk' = (fileOnDisk \/ Completed(f, "open"))
    /\ kernel' = (f = "none")
    /\ handle' = IF f = "none" THEN "joinable" ELSE handle
    /\ worker' = IF f = "none" THEN "starting" ELSE worker
    /\ Log("start", IF f = "none" THEN "started" ELSE "start_error")
    /\ UNCHANGED <<attrTimeout, alive, objMem, xImpl, implMem, stopFlag,
                   qelem, freedRead>>

StopNotRunning ==
    /\ objMem = "live"
    /\ Len(log) < MaxOps
    /\ ~xImpl \/ ~kernel
    /\ Log("stop", "not_running")
    /\ UNCHANGED <<attrTimeout, timeout, alive, objMem, xImpl, implMem,
                   interp, kernel, server, stopFlag, handle, worker,
                   connFile, fileOnDisk, qelem, freedRead>>

\* kernel_stop with a kernel: xkernel::stop only sets the serve loop's stop
\* flag; a joinable thread is detached, never joined, and its handle
\* deleted; the connection file is removed and the path cleared.
\* impl->kernel is left set.
Stop ==
    /\ objMem = "live"
    /\ Len(log) < MaxOps
    /\ xImpl /\ kernel
    /\ stopFlag' = TRUE
    /\ handle' = "null"
    /\ fileOnDisk' = (fileOnDisk /\ ~connFile)
    /\ connFile' = FALSE
    /\ Log("stop", "stopped")
    /\ UNCHANGED <<attrTimeout, timeout, alive, objMem, xImpl, implMem,
                   interp, kernel, server, worker, qelem, freedRead>>

\* kernel_eval: without impl or impl->interpreter it reports "interpreter
\* not initialized"; otherwise it joins the atoms into code (only the debug
\* post reads it) and sends `eval` with the atoms out of the right outlet.
Eval ==
    /\ objMem = "live"
    /\ Len(log) < MaxOps
    /\ Log("eval", IF xImpl /\ interp THEN "ok" ELSE "interpreter_not_initialized")
    /\ UNCHANGED <<attrTimeout, timeout, alive, objMem, xImpl, implMem,
                   interp, kernel, server, stopFlag, handle, worker,
                   connFile, fileOnDisk, qelem, freedRead>>

\* kernel_info: without impl it reports "not initialized"; otherwise it
\* posts the static kernel info and sends it out of the right outlet.
Info ==
    /\ objMem = "live"
    /\ Len(log) < MaxOps
    /\ Log("info", IF xImpl THEN "ok" ELSE "not_initialized")
    /\ UNCHANGED <<attrTimeout, timeout, alive, objMem, xImpl, implMem,
                   interp, kernel, server, stopFlag, handle, worker,
                   connFile, fileOnDisk, qelem, freedRead>>

\* kernel_free up to `delete impl`: stop the kernel if set, detach and
\* delete the thread handle, free the qelem, remove the connection file,
\* release (leak) impl->kernel and impl->context, store alive = false.
FreeRelease ==
    /\ objMem = "live"
    /\ stopFlag' = (stopFlag \/ (xImpl /\ kernel))
    /\ handle' = "null"
    /\ qelem' = IF qelem = "live" THEN "freed" ELSE qelem
    /\ fileOnDisk' = (fileOnDisk /\ ~(xImpl /\ connFile))
    /\ kernel' = FALSE
    /\ alive' = (alive /\ ~xImpl)
    /\ objMem' = "freeing"
    /\ UNCHANGED <<attrTimeout, timeout, xImpl, implMem, interp, server,
                   worker, connFile, log, freedRead>>

\* `delete impl` runs ~t_kernel_impl (an xkernel still owned there would be
\* destroyed, joining xeus threads blocked in their poll), then Max frees
\* the t_kernel itself.
FreeDelete ==
    /\ objMem = "freeing"
    /\ implMem' = IF xImpl THEN "deleted" ELSE implMem
    /\ xImpl' = FALSE
    /\ objMem' = "freed"
    /\ UNCHANGED <<attrTimeout, timeout, alive, interp, kernel, server,
                   stopFlag, handle, worker, connFile, fileOnDisk, qelem,
                   log, freedRead>>

-----------------------------------------------------------------------------
(* Worker thread.                                                          *)

\* kernel_thread_func: read x->impl and impl->kernel, and enter
\* xkernel::start's serve loop if both are set.  Run after Max has freed
\* the object, the first read is of freed memory (and what it yields is
\* undefined: the thread may as well find nothing and return).
ThreadRun ==
    /\ worker = "starting"
    /\ freedRead' = (freedRead \/ objMem = "freed")
    /\ worker' = IF objMem # "freed" /\ xImpl /\ kernel
                 THEN "serving" ELSE "exited"
    /\ UNCHANGED <<attrTimeout, timeout, alive, objMem, xImpl, implMem,
                   interp, kernel, server, stopFlag, handle, connFile,
                   fileOnDisk, qelem, log>>

\* The serve loop tests the stop flag only after poll_channels returns, so
\* it leaves once a message arrives after stop; none may ever arrive.
ServeExit ==
    /\ worker = "serving"
    /\ stopFlag
    /\ worker' = "exited"
    /\ UNCHANGED <<attrTimeout, timeout, alive, objMem, xImpl, implMem,
                   interp, kernel, server, stopFlag, handle, connFile,
                   fileOnDisk, qelem, log, freedRead>>

-----------------------------------------------------------------------------
MainThread ==
    \/ \E t \in TimeoutChoices : SetTimeout(t)
    \/ StartRefused
    \/ \E f \in StartOutcomes : StartAttempt(f)
    \/ StopNotRunning
    \/ Stop
    \/ Eval
    \/ Info
    \/ FreeRelease
    \/ FreeDelete

WorkerThread == ThreadRun \/ ServeExit

Next == MainThread \/ WorkerThread

\* Max finishes a kernel_free it has begun; the OS eventually runs a
\* launched thread.  The user, the frontend and the network owe nothing.
Fairness == WF_lifeVars(FreeDelete) /\ WF_lifeVars(ThreadRun)

Spec == Init /\ [][Next]_lifeVars /\ Fairness

-----------------------------------------------------------------------------
(* Properties.                                                             *)

TypeOK ==
    /\ attrTimeout \in TimeoutChoices /\ timeout \in TimeoutChoices
    /\ alive \in BOOLEAN
    /\ objMem \in {"live", "freeing", "freed"}
    /\ xImpl \in BOOLEAN
    /\ implMem \in {"none", "live", "deleted"}
    /\ interp \in BOOLEAN /\ kernel \in BOOLEAN
    /\ server \in {"none", "bound"}
    /\ stopFlag \in BOOLEAN
    /\ handle \in {"null", "joinable"}
    /\ worker \in {"none", "starting", "serving", "exited"}
    /\ connFile \in BOOLEAN /\ fileOnDisk \in BOOLEAN
    /\ qelem \in {"none", "live", "freed"}
    /\ log \in Seq([op : {"start", "stop", "eval", "info"}, msg : Messages])
    /\ freedRead \in BOOLEAN

\* The spec's cleanup: no connection file outlives the object, whatever
\* the start that wrote it did next, so no frontend is pointed at a
\* kernel that is gone.
NoFileAfterFree == objMem = "freed" => ~fileOnDisk

\* The spec's idempotent stop: a stop that follows a successful stop
\* reports "not running".
StopTwiceReportsNotRunning ==
    \A i \in 1..Len(log) - 1 :
        (log[i] = [op |-> "stop", msg |-> "stopped"] /\ log[i + 1].op = "stop")
            => log[i + 1].msg = "not_running"

\* The spec's NotInitialized is an operation attempted before setup
\* completed: once a start has succeeded, kernel_eval is never refused as
\* "interpreter not initialized".
EvalAfterStart ==
    \A i, j \in 1..Len(log) :
        (i < j /\ log[i].msg = "started" /\ log[j].op = "eval")
            => log[j].msg = "ok"

\* The spec's rollback of a failed start: an exception inside kernel_start
\* leaves the object as it was before (Ready, usable for a retry), with no
\* bound server and no connection file left behind.
StartFailureLeavesReady ==
    (Len(log) > 0 /\ log[Len(log)].msg = "start_error")
        => /\ interp /\ ~kernel
           /\ server = "none"
           /\ ~fileOnDisk

=============================================================================
