# TLA+ models of the mx-kernel Max external

This directory holds TLA+ specifications of the `kernel` Max/MSP external
(`src/source/projects/kernel/`), which embeds a xeus Jupyter kernel in a Max
object. The modules model the code's threads, the queues between them, and the
object's lifecycle. TLC checks them for the properties below.

## The system

Two threads share one `t_kernel_impl` (`types.h`):

- **Worker thread.** `kernel_start` launches it (`kernel_thread_func`,
  `external.cpp`). It runs xeus's serve loop. For each `execute_request`, the
  loop calls `max_interpreter::execute_request_impl` (`interpreter.cpp`), which:
  1. pushes an `OutletMessage` on `outlet_queue`;
  2. sets the qelem;
  3. copies `impl->timeout` into a deadline;
  4. polls `result_queue` every 10 ms until a result arrives, the deadline passes or `impl->alive` drops;
  5. publishes what it got (error, stream, execute_result under a mime type, or a "no response" notice) and calls the reply callback exactly once.

  `shutdown_request_impl` stores `alive = false`.
- **Max main thread.** It runs:
  - the qelem callback `kernel_outlet_drain`, which pops every queued `OutletMessage` and sends it out of an outlet;
  - the patch's `result` and `dict` messages (`kernel_result`, `kernel_dict`), which push `ResultMessage`s;
  - the lifecycle: `kernel_new`, `kernel_start`, `kernel_stop`, `kernel_free` and the `@timeout` attribute;
  - `kernel_eval` and `kernel_info`, which report to the right outlet.

What the threads share:

| Shared state | What it is |
|---|---|
| `outlet_queue`, `result_queue` | `ThreadSafeQueue`s: a deque under one mutex (`message_queue.h`) |
| `alive` | an atomic |
| `timeout` | a plain long |
| qelem pointer | used by `qelem_set` |
| `impl` | the allocation itself, which `kernel_free` deletes |

## Inventory

| Component | Source | State | Operations | Status |
|---|---|---|---|---|
| Mailbox | `message_queue.h` `ThreadSafeQueue` | a deque | push, try_pop (empty/size/clear unused) | modelled: `MessageQueue` |
| Messages | `message_queue.h` | `OutletMessage`, `ResultMessage` | `is_error` | modelled, payload abstracted: `Bridge` |
| Execution bridge | `interpreter.cpp` | worker's program counter, request, deadline, poll count | execute_request_impl, shutdown_request_impl | modelled: `Bridge`, `Kernel` |
| Query stubs | `interpreter.cpp` | none | complete, inspect, is_complete, kernel_info | not modelled: constant replies, no state |
| Main-thread bridge | `external.cpp` | drain in progress, qelem set | kernel_outlet_drain, kernel_result, kernel_dict | modelled: `Bridge`, `Kernel` |
| Lifecycle | `external.cpp`, `types.h` | x->timeout, impl, interpreter, kernel, thread handle, worker, connection file, qelem, memory of object and impl | kernel_new, @timeout, kernel_start, kernel_stop, kernel_free, kernel_thread_func, serve-loop exit | modelled: `Lifecycle`, `Kernel` |
| Connection file | `connection.cpp` | the file on disk, its recorded path | write_connection_file, generate_random_key | partly: `Lifecycle` (the three throw points and what each leaves on disk), `RuntimeDir` (the path from `@name` or the object's address, shared by every object of the process); generate_random_key hex-encodes random bytes nothing decodes, and create_kernel_configuration only sets constant fields |
| Output-only methods | `external.cpp` | none shared | bang, eval, info, install, assist, ext_main | partly: eval and info are `Lifecycle`'s `Eval` and `Info` (their guards on impl and the interpreter); bang, install, assist and ext_main only print, write the kernelspec or register the class |
| Legacy external | `kernel.cpp` | the same members held directly in `t_kernel` | kernel_new, kernel_start, kernel_stop, kernel_free, kernel_info, kernel_eval, kernel_thread_func, the interpreter's handlers with their reads of the object and outlet calls | modelled: `LegacyKernel`. It is an earlier single-file version that defines the same class as `external.cpp`, so the two are never built together |

What makes this code hard to test:

- **Two threads interleave** through the queues, the qelem and `alive`.
- **The poll deadline races late results.**
- **Results carry no request identity**, so a late result can be taken for another request's.
- **Teardown is deliberately non-blocking.** `kernel_stop` and `kernel_free` detach the thread and leak the xkernel, because destroying it would join xeus threads that block forever. As a result, the worker can outlive the memory it uses.
- **`kernel_start` has six throw points**, each after a different part of its work; three of them are inside `write_connection_file`.

## Modules

### `MessageQueue`

`ThreadSafeQueue`. Each member function holds the lock for exactly one deque
operation, so it is one atomic step. The queue is a sequence:

- `Push` is `push`;
- `IsEmpty` and `TryPop` are `try_pop`'s two outcomes.

### `Bridge`

`execute_request_impl` and the main thread's bridge methods, while the kernel
runs. Time is counted in poll iterations: one `PollWait` is one 10 ms sleep.

**Worker.** The worker's program counter `wpc` follows the handler:

| Action | Code |
|---|---|
| `ExecuteRequest` | xeus dispatches a request |
| `ExecPush` | `outlet_queue.push` |
| `ExecWake` | `qelem_set`, then `deadline` from `impl->timeout` |
| `PollResult` | `try_pop` returns a result; the error branch with its early return, or the published outcome and `break`; then the reply |
| `PollWait` | an empty pop, then the sleep |
| `PollTimeout` | the loop condition fails; the notice unless silent, then the ok reply |
| `ShutdownRequest` | `shutdown_request_impl` |

**Main thread.**

| Action | Code |
|---|---|
| `DrainBegin` | the qelem is serviced |
| `DrainPop` | one iteration of the `while` |
| `DrainEnd` | the empty `try_pop` that breaks the loop |
| `SubmitResult(args)` | `kernel_result` |
| `SubmitDict` | `kernel_dict` |

**Abstraction.**

- An argument list is a sequence of atom kinds: the symbol `error`, another symbol, or a number. `ResultFromArgs` is kernel_result's error-form test.
- A `ResultMessage` is reduced to the fields that decide how it is published.
- `Classify` is the handler's publishing choice.

**History variables.** They record what the code does not:

- `dispatched`: what left the outlets;
- `submitted`: each pushed result, with `answers`, the counter of the code the patch last received;
- `replies`: each reply callback and what it published.

### `Lifecycle`

The object's lifecycle on the main thread and the worker thread's life.

| Action | Code |
|---|---|
| `Init` | `kernel_new`, whose try block may fail and leave `x->impl` null |
| `SetTimeout` | writes `x->timeout` only |
| `StartRefused` | kernel_start's three early returns |
| `StartAttempt(f)` | the try block ending at throw point `f` (one of `config`, `kernel`, `ports`, `open`, `write`, `thread`, or `none`) |
| `StopNotRunning`, `Stop` | `kernel_stop` |
| `Eval` | `kernel_eval`: refused without impl or `impl->interpreter`, otherwise `eval` out of the right outlet |
| `Info` | `kernel_info`: refused without impl, otherwise the static info |
| `FreeRelease` | `kernel_free` up to `delete impl` |
| `FreeDelete` | `delete impl`, then Max freeing the object |
| `ThreadRun` | `kernel_thread_func` reading `x->impl` |
| `ServeExit` | the serve loop noticing the stop flag |

`StartAttempt(f)`:

- syncs `impl->timeout` first;
- moves the interpreter out once past `config`;
- leaves the server bound once past `kernel`;
- leaves the file on disk once past `open` (the ofstream created it), but records its path in `impl->connection_file` only once past `write`;
- in the catch, releases `impl->kernel`.

`FreeRelease` and `FreeDelete` are split because the worker can run between them.

Ghost variables:

- `log` records what start and stop report;
- `freedRead` records a worker read of freed memory.

### `Kernel`

Composes `Lifecycle` and `Bridge` with `INSTANCE`. They share `alive` and
`timeout`.

- Each `K…` action is one module's action, plus the guards that link the two modules:
  - the worker serves only once `ThreadRun` entered the serve loop;
  - `kernel_free` frees the qelem and discards a pending qelem_set;
  - the drain runs only while the qelem exists;
  - `result` and `dict` need a live object with an impl.
- Every worker step dereferences `m_impl`. `Through` records it in `freedRead` if `impl` (or, for `qelem_set`, the qelem) has been freed.
- A freed block is assumed to keep its contents. That is the outcome a freed-but-not-reused block gives.

### `RequestReply`

The abstract service the bridge promises the frontend (spec §4.2, §4.4). It
has no threads, queues of directives, qelem or clock:

- `Issue` sends one request at a time;
- `Submit` adds a host answer to a FIFO pool;
- the outstanding request is answered exactly once, either by `AnswerWithOldest` (the oldest pooled answer, shown as its category) or by `AnswerWithNothing` (the "no response" notice unless silent).

`Bridge` defines `RR == INSTANCE RequestReply WITH …`. The refinement
mapping works as follows:

- the outstanding request is `req` while the worker is in the handler;
- the pool is `result_queue`;
- the replies are the reply history with each answer looked up in `submitted`;
- the endpoint is open while the serve loop runs.

The bridge checks `ImplementsRequestReply == RR!Spec` as a property. That
implies the bridge's one-reply-per-request and shown-in-push-order
properties, which it therefore replaces.

### `LegacyKernel`

`kernel.cpp`, the earlier external. It keeps every member in the `t_kernel`,
has no queues, and replies at once. Its actions mirror `Lifecycle`'s:

| Action | Code |
|---|---|
| `Init` | `kernel_new` (the interpreter allocation may fail) |
| `StartRefused` | kernel_start's early returns |
| `StartAttempt(f)` | kernel_start's try block |
| `Stop` | `kernel_stop` |
| `Eval`, `Info` | `kernel_eval` and `kernel_info`, both refused once the interpreter has left `*x->interpreter` |
| `Free` | `kernel_free` and Max freeing the object, in one main-thread step |
| `ThreadRun` | `kernel_thread_func` |
| `HandleMessage(kind)` | one message of the serve loop: `execute` (reads `m_max_obj`, calls `outlet_anything` on this thread), `shutdown` (reads `m_max_obj`), or a query handler that reads nothing of the object |

Ghost variables: `freedRead` records a worker read of the freed `t_kernel`
(in `kernel_thread_func` or through `m_max_obj`), and `workerOutlet` an
outlet call from the worker thread. The worker's steps are modelled on
the same terms as in `Lifecycle`: a read of a freed object counts as a
use after free, and the thread then behaves as if it had read the old
contents.

### `RuntimeDir`

Several objects of one Max process sharing the Jupyter runtime directory.
Per object (functions over `Objects`, updated with `EXCEPT`): `name`
(`x->name`), `st` (ready, inert, running, stopped, freed) and `recorded`
(`impl->connection_file`). Shared: `disk`, which object's configuration
each `kernel-<name>.json` holds, or `Partial` for a file truncated by a
failed write. An object's default name `max-<address>` is unique and is
modelled by the object itself.

| Action | Code |
|---|---|
| `Init` | `kernel_new`: `@name` from the box arguments; a failed allocation leaves the object inert |
| `SetName(o, n)` | the `@name` attribute, settable at any time |
| `Start(o, f)` | `kernel_start` and `write_connection_file`, by where the start stops: before the file, on the write (file truncated, path not recorded), on the thread (path recorded), or not at all |
| `Stop(o)` | `kernel_stop`: removes the recorded path and clears it |
| `Free(o)` | `kernel_free`: removes the recorded path |

All of these run on Max's main thread, so each is one step. Start's throws
before the interpreter is moved, and its early returns, change nothing here.

### MC modules

`MCBridge`, `MCLifecycle` and `MCKernel` extend their module and define the
set of timeout values. `MCLegacyKernel` only extends its module.
`MCRuntimeDir` defines the symmetry of the objects.

## Runs

| Run | Config | Expect | Checks |
|---|---|---|---|
| bridge | `MCBridge.cfg` | pass | `TypeOK`, `ImplementsRequestReply`, `DirectiveDelivered` |
| bridge_stale | `MCBridgeStale.cfg` | violation | `ResultMatchesRequest` |
| lifecycle_file_leak | `MCLifecycleFileLeak.cfg` | violation | `NoFileAfterFree` |
| lifecycle_stop_twice | `MCLifecycleStopTwice.cfg` | violation | `StopTwiceReportsNotRunning` |
| lifecycle_start_failure | `MCLifecycleStartFailure.cfg` | violation | `StartFailureLeavesReady` |
| lifecycle_eval | `MCLifecycleEval.cfg` | violation | `EvalAfterStart` |
| kernel_free | `MCKernelFree.cfg` | violation | `NoUseAfterFree` |
| kernel_timeout | `MCKernelTimeout.cfg` | violation | `DeadlineFromCurrentTimeout` |
| kernel_stop_cancel | `MCKernelStop.cfg` | violation | `StopCancelsPoll` |
| legacy_outlet | `MCLegacyKernelOutlet.cfg` | violation | `OutletsOnMainThread` |
| legacy_free | `MCLegacyKernelFree.cfg` | violation | `NoUseAfterFree` |
| runtime_dir | `MCRuntimeDir.cfg` | violation | `RunningKernelReachable` |

### What the passing runs show

**bridge** (143,036 distinct states, about 35 s):

- The bridge implements `RequestReply`. Every request gets exactly one reply, and the error branch's `return` matters here. The frontend is shown exactly the results the patch pushed, oldest first, each in the category the spec's outcome rules give. The "no response" notice appears only for a non-silent request.
- Every request is eventually answered, whether or not the patch ever replies. This is part of `RequestReply`'s fairness, so the refinement property checks it.
- Every outlet message is eventually sent out, even when several are queued behind one qelem service.

### What the violation runs show (findings)

- **bridge_stale.**
  1. The patch answers request 1, then sends a second result.
  2. Request 2 consumes that result as its own outcome.

  `kernel_result` never sets `execution_counter`, and the worker never checks or clears the queue. Any late result (after a timeout) or extra result is therefore published for the wrong request.
- **lifecycle_stop_twice.** In start, stop, stop, the second stop reports "stopped". `kernel_stop` leaves `impl->kernel` set, so the object also can never be started again.
- **lifecycle_start_failure.** If the xkernel constructor throws, the interpreter has already been moved into it. Every later start then fails with "interpreter not initialized". Later throw points also leave a bound, leaked server or a connection file.
- **kernel_free.** The shortest trace is start, free, then the thread runs and reads the freed `t_kernel`. More commonly, `kernel_free` runs while a request polls (up to the timeout). The worker then reads `alive` and `result_queue` of the deleted impl, or sets the freed qelem.
- **kernel_timeout.** A request's deadline comes from the timeout copied at `kernel_start`, not the current `@timeout`.
- **lifecycle_eval.** After start succeeds, `eval` reports "interpreter not initialized". `kernel_eval` tests `impl->interpreter`, which `kernel_start` has moved into the xkernel, so eval is refused for the rest of the object's life. That includes the whole time the kernel runs. The spec's NotInitialized means "attempted before setup completed". `kernel.cpp` has the same check.
- **lifecycle_file_leak.** Suppose `write_connection_file` fails on the write, after its ofstream created the file. The path is never stored in `impl->connection_file`, so neither stop nor free removes the file. It stays in the Jupyter runtime directory, against the spec's cleanup.
- **runtime_dir.** Two objects are given the same `@name`. The first starts.
  The second's start then writes the same `kernel-<name>.json`: it replaces
  the running kernel's ports and key with its own, or, if its write fails,
  leaves the file truncated. Its stop or free would remove the file. The
  attribute is labelled "Unique Name" but nothing checks it, and the
  ofstream truncates. A frontend using the file then reaches the wrong
  kernel or none. The spec says start records a connection descriptor for
  the kernel, and is silent on two kernels sharing a name.
- **legacy_outlet.** In `kernel.cpp`, after start, the thread runs, and then
  the frontend sends an execute request. The handler calls `outlet_anything`
  from the xeus worker thread (line 75), while Max's main thread may be
  running patch code. The spec lets host dispatch run only on the host
  thread; `external.cpp` queues the directive and drains it on the main
  thread instead.
- **legacy_free.** In `kernel.cpp`, after start, the object is freed before
  the new thread runs, and `kernel_thread_func` reads `x->kernel` from the
  freed `t_kernel`. The same happens later when the serve loop is running:
  `kernel_free` only sets its stop flag, so the loop handles the next message
  first, and `execute_request_impl` or `shutdown_request_impl` reads
  `m_max_obj` (line 66) after the free.
- **kernel_stop_cancel.** The spec says an explicit stop flips the liveness flag and cancels an in-flight poll. `kernel_stop` never stores `alive = false`. A request polling at stop therefore waits out its deadline, and a request arriving after stop is still served.

Every property of a passing run has a mutant in `PROJECT.json`: a faulty
variant of a mapped action (an `if` for the drain's `while`, a sleep
past the deadline, a "no response" notice that ignores the silent flag) under which TLC finds the property violated.

## Bounds

- **MCBridge**: `MaxRequests = 2`, `MaxResults = 3`, `MaxArgs = 3`, timeouts `{0, 2}`.
  - Two requests and three results are enough for a result to outlive its request, for two results for one request, and for results to wait in the queue across requests.
  - Three arguments reach the error form, which needs at least three atoms, with a symbol or a number as ename.
  - Timeout 0 is the deadline-already-past edge. Timeout 2 lets a request sleep, then find a result or time out.
- **MCLifecycle** (violation runs only): `MaxOps = 3` patch calls, timeouts `{1, 2}`. Enough for start/stop/stop, start/stop/start, start/eval, and a retry after a failed start, all followed by free.
- **MCRuntimeDir**: two objects and one `@name` value. This is enough for two objects to share a name, for one to keep its default name, and for a rename after start. Every object can start at most once, so nothing else needs a bound.
- **MCLegacyKernel** (violation runs only): `MaxOps = 3` patch messages and `MaxRequests = 2` frontend messages. Enough for a start, a free and a message after it.
- **MCKernel** (violation runs only): `MaxRequests = 2`, `MaxResults = 1`, `MaxOps = 2`, timeouts `{0, 1}`. A request can be in flight across a stop or a free, and `@timeout` can change between start and a request.

## Fairness

Weak fairness is assumed for:

- **The worker's steps inside the handler**, because the OS schedules the thread.
- **The three drain steps**, because Max services a set qelem on its main thread.
- **`ThreadRun`**, because a launched thread eventually runs.
- **`FreeDelete`**, because `kernel_free` runs to completion once begun.

No fairness is assumed for:

- the frontend;
- the patch (`result`, `dict`);
- the user (start, stop, free, `@timeout`);
- the serve loop's exit after stop, which needs a message that may never come.

The only liveness checked is in the bridge run. `Kernel`, `Lifecycle`,
`LegacyKernel` and `RuntimeDir` are checked for safety only.

Every config says `CHECK_DEADLOCK FALSE`. The system really does stop: once
requests and results are used up, the serve loop and Max's event loop wait
forever. A freed object also does nothing more.

## Not modelled

- Payload text, atom conversion and JSON layout. No property depends on the words.
- Port numbers and the choice among `JUPYTER_RUNTIME_DIR`, `HOME` and `/tmp` (`connection.cpp`): every object of a process makes the same choice, so `RuntimeDir` has one directory, and `create_kernel_configuration`, which only fills constant fields.
- The xeus internals beyond the serve loop's stop flag: the IOPub publishing and heartbeat threads.
- Exceptions thrown by `xkernel::stop` inside `kernel_stop`'s try.
- `@timeout` values whose deadline `now() + seconds(timeout)` overflows steady_clock's int64 nanoseconds (about 9.2e9 s). TLC's integers are 32-bit. The Bridge's timeouts include 0, a deadline that has already passed.
- `kernel_dict`'s lookup and serialization failures, which return before any state change.
- `generate_random_key`. It hex-encodes random bytes that nothing decodes, so no property tells one valid key from another.
- Teardown destroying a joinable `std::thread` or an owned xkernel. `kernel_stop` and `kernel_free` test `joinable()` and detach on the line before the delete. `kernel_free` and the start error path release `impl->kernel` on the line before it would be destroyed. A property could only restate those lines, so the models keep the order and check nothing about it. In `kernel.cpp`, the start error path deletes `x->kernel`: an xkernel that was constructed but never started, which has no threads to join.

## Plan

Built so far:

- `MessageQueue`;
- `Bridge`;
- `Lifecycle`;
- their composition, `Kernel`;
- the abstract `RequestReply` and the bridge's refinement of it;
- `LegacyKernel`;
- `RuntimeDir`.

Planned next:

1. **`kernel_stop` when `xkernel::stop` throws**, and the xeus shutdown/restart request flow.
