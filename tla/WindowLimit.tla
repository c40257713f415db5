---------------------------- MODULE WindowLimit ----------------------------
(***************************************************************************)
(* What a rate limiter promises (app/security/rate_limit.py:4-6): of the   *)
(* attempts under one key it admits every one that leaves at most          *)
(* MaxRequests of them within any Window, and refuses the others.  It      *)
(* remembers every admission since the process was started.                *)
(***************************************************************************)
EXTENDS Integers, Sequences

CONSTANTS
    Keys,          \* clients: addresses, or users of the bot
    MaxRequests,
    Window,        \* in ticks of the clock
    MaxTime        \* bound: when the clock stops

VARIABLES
    now,
    granted,   \* per key, the times of the attempts let through
    refused     \* the keys whose last attempt was refused

limitVars == <<now, granted, refused>>

WindowInit ==
    /\ now = 0
    /\ granted = [k \in Keys |-> <<>>]
    /\ refused = {}

\* One more would be too many: the last but MaxRequests - 1 is not older than Window.
Full(k) ==
    LET n == Len(granted[k])
    IN  n >= MaxRequests /\ now - granted[k][n + 1 - MaxRequests] <= Window

Admit(k) ==
    /\ ~Full(k)
    /\ granted' = [granted EXCEPT ![k] = Append(@, now)]
    /\ refused' = refused \ {k}
    /\ UNCHANGED now

Refuse(k) ==
    /\ Full(k)
    /\ refused' = refused \cup {k}
    /\ UNCHANGED <<now, granted>>

TimePasses ==
    /\ now < MaxTime
    /\ now' = now + 1
    /\ UNCHANGED <<granted, refused>>

Forget ==
    /\ granted' = [k \in Keys |-> <<>>]
    /\ refused' = {}
    /\ UNCHANGED now

WindowNext ==
    \/ \E k \in Keys : Admit(k) \/ Refuse(k)
    \/ TimePasses
    \/ Forget

WindowSpec == WindowInit /\ [][WindowNext]_limitVars
=============================================================================
