----------------------------- MODULE RateLimit -----------------------------
(***************************************************************************)
(* InMemoryRateLimiter of app/security/rate_limit.py: a queue of recent    *)
(* admissions per key, emptied lazily at the next attempt.  hit() has no   *)
(* await in it, so an attempt is one step.  admitted and refused record    *)
(* for the specification what hit() returned; the code does not have them. *)
(***************************************************************************)
EXTENDS Integers, Sequences

CONSTANTS Keys, MaxRequests, Window, MaxTime

ASSUME LimitAssumption ==
    /\ MaxRequests \in Nat \ {0}
    /\ Window \in Nat
    /\ MaxTime \in Nat

VARIABLES now, admitted, refused,
    bucket      \* _hits, per key the times still kept

rateVars == <<now, admitted, refused, bucket>>

\* Every admission since the start, for the limiter that never forgets.
Promise == INSTANCE WindowLimit WITH granted <- admitted

RateInit ==
    /\ Promise!WindowInit
    /\ bucket = [k \in Keys |-> <<>>]

Without(s, n) == SubSeq(s, n + 1, Len(s))

\* Slip: an entry as old as the window is dropped.
ExpiredAtEdge(k, n) ==
    /\ \A i \in 1..n : now - bucket[k][i] >= Window
    /\ n < Len(bucket[k]) => now - bucket[k][n + 1] < Window

\* The loop stops at the first entry that is not older than the window.
Expired(k, n) ==
    /\ \A i \in 1..n : now - bucket[k][i] > Window
    /\ n < Len(bucket[k]) => now - bucket[k][n + 1] <= Window

\* hit(); an attempt that is refused leaves no trace.
Hit(k, n) ==
    LET kept == Without(bucket[k], n)
        ok == Len(kept) < MaxRequests
    IN  /\ Expired(k, n)
        /\ bucket' = [bucket EXCEPT ![k] = IF ok THEN Append(kept, now) ELSE kept]
        /\ admitted' = IF ok THEN [admitted EXCEPT ![k] = Append(@, now)] ELSE admitted
        /\ refused' = IF ok THEN refused \ {k} ELSE refused \cup {k}
        /\ UNCHANGED now

Hits(k) == \E n \in 0..Len(bucket[k]) : Hit(k, n)

Elapse == Promise!TimePasses /\ UNCHANGED bucket

\* reset(), and a restart of the process.
Reset ==
    /\ Promise!Forget
    /\ bucket' = [k \in Keys |-> <<>>]

RateNext == (\E k \in Keys : Hits(k)) \/ Elapse \/ Reset

RateSpec == RateInit /\ [][RateNext]_rateVars

-----------------------------------------------------------------------------

\* A queue never holds more than the limit, and what was admitted is never denser
\* than MaxRequests in a Window: any MaxRequests + 1 admissions in a row span more.
AtMostPerWindow ==
    \A k \in Keys :
        /\ Len(bucket[k]) <= MaxRequests
        /\ \A i \in 1..(Len(admitted[k]) - MaxRequests) :
              admitted[k][i + MaxRequests] - admitted[k][i] > Window

\* Dropping old entries only when a key comes back changes no answer: the limiter
\* admits and refuses like one that remembers everything (rate_limit.py:29-38).
KeepsPromise == Promise!WindowSpec
=============================================================================
