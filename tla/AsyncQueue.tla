----------------------------- MODULE AsyncQueue -----------------------------
(***************************************************************************)
(* AsyncQueue (relay/src/geyser/queue.ts): the bridge between a producer   *)
(* that calls push, end and fail from callbacks and a consumer that awaits *)
(* next().  Each call of next() returns a promise; calls are numbered.     *)
(*                                                                         *)
(* accepted records what was pushed before the queue was closed; the code  *)
(* does not keep it.                                                       *)
(***************************************************************************)
EXTENDS Naturals, Sequences

CONSTANT Values

VARIABLES
    buffered,   \* values nobody has asked for yet
    waiters,    \* calls of next() that await a value
    closed,     \* "no", or how the queue was closed: "ended", "failed"
    calls,      \* calls of next() so far
    outcome,    \* what each call's promise settled with
    accepted

queue == <<buffered, waiters, closed, calls, outcome, accepted>>

Pending == [type |-> "pending"]
Closed(how) == [type |-> how]
Value(v) == [type |-> "value", value |-> v]

QueueInit ==
    /\ buffered = <<>>
    /\ waiters = <<>>
    /\ closed = "no"
    /\ calls = 0
    /\ outcome = <<>>
    /\ accepted = <<>>

PushBuffersAlways(v) ==
    /\ closed = "no"
    /\ buffered' = Append(buffered, v)
    /\ accepted' = Append(accepted, v)
    /\ UNCHANGED <<waiters, closed, calls, outcome>>

\* The longest-waiting call gets the value, or it is buffered.
Push(v) ==
    IF closed # "no" THEN UNCHANGED queue
    ELSE /\ accepted' = Append(accepted, v)
         /\ IF waiters # <<>>
            THEN /\ outcome' = [outcome EXCEPT ![Head(waiters)] = Value(v)]
                 /\ waiters' = Tail(waiters)
                 /\ UNCHANGED buffered
            ELSE /\ buffered' = Append(buffered, v)
                 /\ UNCHANGED <<outcome, waiters>>
         /\ UNCHANGED <<closed, calls>>

IsWaiting(n) == \E i \in DOMAIN waiters : waiters[i] = n

\* end() and fail(error): everybody who waits is told; later calls change nothing.
Close(how) ==
    IF closed # "no" THEN UNCHANGED queue
    ELSE /\ closed' = how
         /\ outcome' = [n \in 1..calls |-> IF IsWaiting(n) THEN Closed(how) ELSE outcome[n]]
         /\ waiters' = <<>>
         /\ UNCHANGED <<buffered, calls, accepted>>

End == Close("ended")

Fail == Close("failed")

HandOut ==
    /\ outcome' = Append(outcome, Value(Head(buffered)))
    /\ buffered' = Tail(buffered)
    /\ UNCHANGED waiters

TellClosed ==
    /\ outcome' = Append(outcome, Closed(closed))
    /\ UNCHANGED <<buffered, waiters>>

Wait ==
    /\ outcome' = Append(outcome, Pending)
    /\ waiters' = Append(waiters, calls + 1)
    /\ UNCHANGED buffered

\* next(): what is buffered is handed out first, then how the queue was closed.
NextCall ==
    /\ calls' = calls + 1
    /\ IF buffered # <<>> THEN HandOut ELSE IF closed # "no" THEN TellClosed ELSE Wait
    /\ UNCHANGED <<closed, accepted>>

QueueNext == NextCall \/ End \/ Fail \/ \E v \in Values : Push(v)

QueueSpec == QueueInit /\ [][QueueNext]_queue

----------------------------------------------------------------------------
\* The promise of the queue, whatever the order of pushes, calls and closing:
\* the n-th call of next() gets the n-th value pushed, and one beyond the last
\* value learns how the queue was closed.  No value is lost, handed out twice,
\* out of order or after the end.
InOrder ==
    outcome = [n \in 1..calls |->
        IF n <= Len(accepted) THEN Value(accepted[n])
        ELSE IF closed = "no" THEN Pending ELSE Closed(closed)]
=============================================================================
