---------------------------- MODULE RequestReply ----------------------------
(***************************************************************************)
(* What the execution bridge promises the Jupyter frontend (spec.md §4.2, *)
(* §4.4), with no threads, queues of directives, qelems or clocks:         *)
(*                                                                         *)
(*  - the frontend issues one request at a time, each with a fresh         *)
(*    execution counter, while the endpoint is open;                       *)
(*  - the host submits answers at any time into one FIFO pool;             *)
(*  - the outstanding request is answered exactly once: either with the    *)
(*    oldest answer in the pool, published as the spec's outcome          *)
(*    category says, or with no answer at all (the host was too slow).     *)
(***************************************************************************)
EXTENDS Naturals, Sequences

CONSTANT Answers    \* the values the host may submit

VARIABLES
    current,  \* the outstanding request, or NoRequest
    nextId,   \* the execution counter of the next request
    pool,     \* submitted answers not yet used, oldest first
    replies,  \* every reply given, in order
    open      \* the endpoint still accepts requests

vars == <<current, nextId, pool, replies, open>>

NoRequest == [exec |-> 0, silent |-> FALSE]

NoAnswer == "none"

\* The spec's outcome categories (§3): error wins over stream, stream over
\* a final value, and a final value without a mime type is text/plain.
Category(o) ==
    IF o.error THEN "error"
    ELSE IF o.stream THEN "stream"
    ELSE IF o.mime = "" THEN "text/plain" ELSE o.mime

Init ==
    /\ current = NoRequest
    /\ nextId = 1
    /\ pool = <<>>
    /\ replies = <<>>
    /\ open = TRUE

Issue(silent) ==
    /\ open
    /\ current = NoRequest
    /\ current' = [exec |-> nextId, silent |-> silent]
    /\ nextId' = nextId + 1
    /\ UNCHANGED <<pool, replies, open>>

Submit(o) ==
    /\ pool' = Append(pool, o)
    /\ UNCHANGED <<current, nextId, replies, open>>

\* Only an error answer gives an error reply.
AnswerWithOldest ==
    /\ current # NoRequest
    /\ pool # <<>>
    /\ replies' = Append(replies,
           [exec   |-> current.exec,
            status |-> IF Head(pool).error THEN "error" ELSE "ok",
            shown  |-> Category(Head(pool)),
            answer |-> Head(pool)])
    /\ pool' = Tail(pool)
    /\ current' = NoRequest
    /\ UNCHANGED <<nextId, open>>

\* No answer is used; the frontend gets the "no response" notice unless the
\* request was silent, and an ok reply.
AnswerWithNothing ==
    /\ current # NoRequest
    /\ replies' = Append(replies,
           [exec   |-> current.exec,
            status |-> "ok",
            shown  |-> IF current.silent THEN "nothing" ELSE "noresponse",
            answer |-> NoAnswer])
    /\ current' = NoRequest
    /\ UNCHANGED <<nextId, pool, open>>

Close ==
    /\ open
    /\ current = NoRequest
    /\ open' = FALSE
    /\ UNCHANGED <<current, nextId, pool, replies>>

Next ==
    \/ \E silent \in BOOLEAN : Issue(silent)
    \/ \E o \in Answers : Submit(o)
    \/ AnswerWithOldest
    \/ AnswerWithNothing
    \/ Close

\* An outstanding request is answered, one way or the other.
Spec == Init /\ [][Next]_vars /\ WF_vars(AnswerWithOldest \/ AnswerWithNothing)

=============================================================================
