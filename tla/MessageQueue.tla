---------------------------- MODULE MessageQueue ----------------------------
(***************************************************************************)
(* mx::ThreadSafeQueue<T> (message_queue.h): a deque guarded by one mutex. *)
(* Every member function holds the lock for exactly one container          *)
(* operation, so each one is a single atomic step in the modules that use  *)
(* it: a queue is a sequence and these operators are its operations.       *)
(***************************************************************************)
EXTENDS Naturals, Sequences

\* push(item): append at the tail under the lock; never blocks, never fails.
Push(q, item) == Append(q, item)

\* try_pop(): std::nullopt when the deque is empty, otherwise the front item
\* moved out and popped.  Callers test IsEmpty first, as the code tests
\* has_value(); TryPop is only applied to a non-empty queue.
IsEmpty(q) == q = <<>>

TryPop(q) == [item |-> Head(q), rest |-> Tail(q)]

=============================================================================
