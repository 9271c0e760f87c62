--------------------------- MODULE RequestAnswer ---------------------------
(***************************************************************************)
(* What the page relies on when it calls the device: calls are served one   *)
(* at a time in the order they were made, each is run at most once, and a   *)
(* call that is answered is answered by its own execution.  A call may fail *)
(* at any time, run or not.                                                 *)
(*                                                                          *)
(* A connection that was opened over the remains of an earlier one          *)
(* (fresh = FALSE) keeps the order of the calls and nothing else.           *)
(***************************************************************************)
EXTENDS Naturals, Sequences

CONSTANTS Requests, NoRequest

VARIABLES
    waiting,    \* calls made and not begun, in order
    current,    \* the call being served
    runs,       \* executions since it was begun; more than 1 for any that is not its own
    fresh,      \* the connection began with an empty link
    last        \* how the last call ended; none while one is served

vars == <<waiting, current, runs, fresh, last>>

Init ==
    /\ waiting = <<>>
    /\ current = NoRequest
    /\ runs = 0
    /\ fresh = TRUE
    /\ last = "none"

\* Calls are added at the end
Grows(from) ==
    /\ Len(waiting') >= Len(from)
    /\ \A i \in 1..Len(from) : waiting'[i] = from[i]

Call == Grows(waiting) /\ UNCHANGED <<current, runs, fresh, last>>

Begin ==
    /\ current = NoRequest /\ waiting # <<>>
    /\ current' = Head(waiting) /\ waiting' = Tail(waiting)
    /\ last' = "none"
    /\ UNCHANGED <<runs, fresh>>

\* Not sent at all
Refuse ==
    /\ current = NoRequest /\ waiting # <<>>
    /\ last' = "failed"
    /\ Grows(Tail(waiting))
    /\ UNCHANGED <<current, runs, fresh>>

Execute ==
    /\ current # NoRequest
    /\ fresh => runs = 0 /\ runs' = 1
    /\ UNCHANGED <<waiting, current, fresh, last>>

Answer ==
    /\ current # NoRequest
    /\ fresh => runs = 1
    /\ last' = "answered" \/ (~fresh /\ last' = "mixed up")
    /\ current' = NoRequest /\ runs' = 0
    /\ Grows(waiting)
    /\ UNCHANGED fresh

Fail ==
    /\ current # NoRequest
    /\ last' = "failed"
    /\ current' = NoRequest /\ runs' = 0
    /\ Grows(waiting)
    /\ UNCHANGED fresh

Reconnect ==
    /\ current = NoRequest
    /\ fresh' \in BOOLEAN
    /\ Grows(waiting)
    /\ UNCHANGED <<current, runs, last>>

Next == Call \/ Begin \/ Refuse \/ Execute \/ Answer \/ Fail \/ Reconnect

Spec == Init /\ [][Next]_vars
=============================================================================
