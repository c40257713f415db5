--------------------------- MODULE SupportProofs ---------------------------
(***************************************************************************)
(* Proofs about RateLimit, for every limit, window and set of keys, and    *)
(* about Support, for any users, messages and number of updates handled at *)
(* a time.                                                                 *)
(*                                                                         *)
(* The limiter keeps its promise because what it has dropped it no longer  *)
(* needs: the queue of a key is the end of its history of admissions, and  *)
(* everything before it is older than the window.  The dialogue implements *)
(* the limiter, so this holds of it; what is left is who gets what.        *)
(***************************************************************************)
EXTENDS Support, TLAPS

-----------------------------------------------------------------------------
(* The limiter.                                                            *)

RateTypeOK ==
    /\ now \in Nat
    /\ admitted \in [Keys -> Seq(Nat)]
    /\ bucket \in [Keys -> Seq(Nat)]
    /\ refused \subseteq Keys

\* The times of s never go back and none is still to come.
Ordered(s) ==
    /\ \A i \in 1..Len(s) : s[i] <= now
    /\ \A i, j \in 1..Len(s) : i <= j => s[i] <= s[j]

\* t is the end of the history s, and what precedes it is too old to count.
Kept(s, t) ==
    /\ Len(t) <= Len(s)
    /\ \A i \in 1..Len(t) : t[i] = s[i + (Len(s) - Len(t))]
    /\ \A i \in 1..(Len(s) - Len(t)) : now - s[i] > Window

Spread(s) == \A i \in 1..(Len(s) - MaxRequests) : s[i + MaxRequests] - s[i] > Window

KeyInv(k) ==
    /\ Ordered(admitted[k])
    /\ Kept(admitted[k], bucket[k])
    /\ Len(bucket[k]) <= MaxRequests
    /\ Spread(admitted[k])

RateInv == RateTypeOK /\ \A k \in Keys : KeyInv(k)

-----------------------------------------------------------------------------

\* What is left of a queue when its first n entries are dropped.
LEMMA WithoutDef ==
    ASSUME NEW t \in Seq(Nat), NEW n \in 0..Len(t)
    PROVE  /\ Without(t, n) \in Seq(Nat)
           /\ Len(Without(t, n)) = Len(t) - n
           /\ \A i \in 1..(Len(t) - n) : Without(t, n)[i] = t[i + n]
BY DEF Without

\* What a history is made of.
LEMMA InstantsType ==
    ASSUME NEW t \in Seq(Nat)
    PROVE  Len(t) \in Nat /\ \A i \in 1..Len(t) : t[i] \in Nat
OBVIOUS

\* Dropping the entries that hit() drops keeps the rest of the history.
LEMMA DroppingKeeps ==
    ASSUME RateInv, NEW k \in Keys, NEW n \in 0..Len(bucket[k]), Expired(k, n)
    PROVE  Kept(admitted[k], Without(bucket[k], n))
<1> DEFINE s == admitted[k]
           t == bucket[k]
           u == Without(t, n)
<1>1. s \in Seq(Nat) /\ t \in Seq(Nat) /\ now \in Nat /\ Kept(s, t)
  BY DEF RateInv, RateTypeOK, KeyInv
<1>2. u \in Seq(Nat) /\ Len(u) = Len(t) - n /\ \A i \in 1..(Len(t) - n) : u[i] = t[i + n]
  BY <1>1, WithoutDef
<1>3. \A i \in 1..n : now - t[i] > Window
  BY DEF Expired
<1>0. Len(s) \in Nat /\ Len(t) \in Nat /\ Len(u) \in Nat /\ n \in 0..Len(t)
  BY <1>1, <1>2, InstantsType
<1> HIDE DEF s, t, u
<1>4. Len(u) <= Len(s)
  BY <1>0, <1>1, <1>2 DEF Kept
<1>5. ASSUME NEW i \in 1..Len(u) PROVE u[i] = s[i + (Len(s) - Len(u))]
  <2>1. i + n \in 1..Len(t) /\ (i + n) + (Len(s) - Len(t)) = i + (Len(s) - Len(u))
    BY <1>0, <1>2
  <2>2. u[i] = t[i + n] /\ t[i + n] = s[(i + n) + (Len(s) - Len(t))]
    BY <1>1, <1>2, <2>1 DEF Kept
  <2> QED
    BY <2>1, <2>2
<1>6. ASSUME NEW i \in 1..(Len(s) - Len(u)) PROVE now - s[i] > Window
  <2>1. CASE i <= Len(s) - Len(t)
    BY <1>1, <2>1 DEF Kept
  <2>2. CASE i > Len(s) - Len(t)
    <3> DEFINE j == i - (Len(s) - Len(t))
    <3>1. j \in 1..n /\ j \in 1..Len(t) /\ j + (Len(s) - Len(t)) = i
      BY <1>0, <1>2, <2>2
    <3>2. t[j] = s[i]
      BY <1>1, <3>1 DEF Kept
    <3> QED
      BY <1>3, <3>1, <3>2
  <2> QED
    BY <1>1, <1>2, <2>1, <2>2
<1> QED
  BY <1>4, <1>5, <1>6 DEF Kept, u, s, t

\* The heart of the matter: the short queue is full exactly when the whole
\* history is.
LEMMA FullAlike ==
    ASSUME RateInv, NEW k \in Keys, NEW n \in 0..Len(bucket[k]), Expired(k, n)
    PROVE  Len(Without(bucket[k], n)) < MaxRequests <=> ~Promise!Full(k)
<1> DEFINE s == admitted[k]
           u == Without(bucket[k], n)
           m == Len(s) + 1 - MaxRequests
<1>1. /\ s \in Seq(Nat) /\ now \in Nat /\ Ordered(s) /\ u \in Seq(Nat)
      /\ MaxRequests \in Nat \ {0} /\ Window \in Nat
  BY WithoutDef, LimitAssumption DEF RateInv, RateTypeOK, KeyInv
<1>2. Kept(s, u)
  BY DroppingKeeps
<1>3. Len(u) > 0 => now - u[1] <= Window
  <2>1. bucket[k] \in Seq(Nat)
    BY DEF RateInv, RateTypeOK
  <2>2. Len(u) = Len(bucket[k]) - n /\ \A i \in 1..(Len(bucket[k]) - n) : u[i] = bucket[k][i + n]
    BY <2>1, WithoutDef
  <2> HIDE DEF u
  <2>3. Len(u) > 0 => n < Len(bucket[k]) /\ u[1] = bucket[k][n + 1]
    <3>1. Len(u) > 0 => 1 \in 1..(Len(bucket[k]) - n)
      BY <2>1, <2>2
    <3>2. Len(u) > 0 => u[1] = bucket[k][1 + n]
      BY <2>2, <3>1
    <3> QED
      BY <2>1, <2>2, <3>2
  <2> QED
    BY <2>3 DEF Expired
<1>4. Promise!Full(k) <=> Len(s) >= MaxRequests /\ now - s[m] <= Window
  BY DEF Promise!Full
<1> HIDE DEF s, u
<1>5. CASE Len(u) < MaxRequests
  <2>1. Len(s) >= MaxRequests => m \in 1..(Len(s) - Len(u))
    BY <1>1, <1>2, <1>5
  <2>2. Len(s) >= MaxRequests => now - s[m] > Window
    BY <1>2, <2>1 DEF Kept
  <2>3. Len(s) >= MaxRequests => s[m] \in Nat
    BY <1>1, <2>1
  <2> QED
    BY <1>1, <1>4, <1>5, <2>2, <2>3 DEF u
<1>6. CASE Len(u) >= MaxRequests
  <2> DEFINE f == 1 + (Len(s) - Len(u))
  <2>1. /\ Len(s) >= MaxRequests /\ f \in 1..Len(s) /\ m \in 1..Len(s) /\ f <= m
        /\ 1 \in 1..Len(u)
    BY <1>1, <1>2, <1>6 DEF Kept
  <2>2. s[f] = u[1]
    BY <1>2, <2>1 DEF Kept
  <2> HIDE DEF f, m
  <2>3. s[f] <= s[m] /\ s[f] \in Nat /\ s[m] \in Nat
    <3>1. s[f] \in Nat /\ s[m] \in Nat
      BY <1>1, <2>1, InstantsType
    <3>2. \A i, j \in 1..Len(s) : i <= j => s[i] <= s[j]
      BY <1>1 DEF Ordered
    <3> QED
      BY <2>1, <3>1, <3>2
  <2>4. now - s[f] <= Window
    BY <1>3, <2>1, <2>2
  <2>5. now - s[m] <= Window
    BY <1>1, <2>3, <2>4
  <2> QED
    BY <1>1, <1>4, <1>6, <2>1, <2>5 DEF u
<1> QED
  BY <1>1, <1>5, <1>6

-----------------------------------------------------------------------------

LEMMA InvInit == RateInit => RateInv
BY LimitAssumption
   DEF RateInit, Promise!WindowInit, RateInv, RateTypeOK, KeyInv, Ordered, Kept, Spread

\* An admission at a moment when the history is not full.
LEMMA AdmitKeeps ==
    ASSUME NEW s \in Seq(Nat), NEW u \in Seq(Nat), now \in Nat,
           Ordered(s), Kept(s, u), Spread(s), Len(u) < MaxRequests
    PROVE  /\ Ordered(Append(s, now))
           /\ Kept(Append(s, now), Append(u, now))
           /\ Spread(Append(s, now))
<1> DEFINE s1 == Append(s, now)
           u1 == Append(u, now)
<1>1. /\ Len(s1) = Len(s) + 1 /\ s1[Len(s) + 1] = now
      /\ \A i \in 1..Len(s) : s1[i] = s[i] /\ s[i] \in Nat
  OBVIOUS
<1>2. /\ Len(u1) = Len(u) + 1 /\ u1[Len(u) + 1] = now
      /\ \A i \in 1..Len(u) : u1[i] = u[i]
  OBVIOUS
<1> HIDE DEF s1, u1
<1>3. Ordered(s1)
  <2>0. Len(s) \in Nat /\ \A i \in 1..Len(s) : s[i] <= now
    BY InstantsType DEF Ordered
  <2>1. ASSUME NEW i \in 1..Len(s1) PROVE s1[i] <= now
    <3>1. i = Len(s) + 1 \/ i \in 1..Len(s)
      BY <1>1, <2>0
    <3> QED
      BY <1>1, <2>0, <3>1
  <2>2. ASSUME NEW i \in 1..Len(s1), NEW j \in 1..Len(s1), i <= j PROVE s1[i] <= s1[j]
    <3>1. CASE j = Len(s) + 1
      BY <1>1, <2>1, <3>1
    <3>2. CASE j # Len(s) + 1
      <4>1. i \in 1..Len(s) /\ j \in 1..Len(s)
        BY <1>1, <2>2, <3>2
      <4>2. s[i] <= s[j]
        BY <2>2, <4>1 DEF Ordered
      <4> QED
        BY <1>1, <4>1, <4>2
    <3> QED
      BY <3>1, <3>2
  <2> QED
    BY <2>1, <2>2 DEF Ordered
<1>4. Len(u1) <= Len(s1) /\ Len(s1) - Len(u1) = Len(s) - Len(u)
  BY <1>1, <1>2 DEF Kept
<1>5. ASSUME NEW i \in 1..Len(u1) PROVE u1[i] = s1[i + (Len(s1) - Len(u1))]
  <2>1. CASE i = Len(u) + 1
    BY <1>1, <1>2, <1>4, <2>1
  <2>2. CASE i \in 1..Len(u)
    <3>1. i + (Len(s) - Len(u)) \in 1..Len(s)
      BY <2>2 DEF Kept
    <3>2. u[i] = s[i + (Len(s) - Len(u))]
      BY <2>2 DEF Kept
    <3> QED
      BY <1>1, <1>2, <1>4, <2>2, <3>1, <3>2
  <2> QED
    BY <1>2, <2>1, <2>2
<1>6. ASSUME NEW i \in 1..(Len(s1) - Len(u1)) PROVE now - s1[i] > Window
  <2>1. i \in 1..(Len(s) - Len(u)) /\ i \in 1..Len(s)
    BY <1>4 DEF Kept
  <2> QED
    BY <1>1, <2>1 DEF Kept
<1>7. ASSUME NEW i \in 1..(Len(s1) - MaxRequests) PROVE s1[i + MaxRequests] - s1[i] > Window
  <2>0. MaxRequests \in Nat \ {0}
    BY LimitAssumption
  <2>1. CASE i <= Len(s) - MaxRequests
    <3>1. i \in 1..Len(s) /\ i + MaxRequests \in 1..Len(s) /\ i \in 1..(Len(s) - MaxRequests)
      BY <2>0, <2>1
    <3> QED
      BY <1>1, <3>1 DEF Spread
  <2>2. CASE i = Len(s) + 1 - MaxRequests
    <3>1. i \in 1..(Len(s) - Len(u)) /\ i \in 1..Len(s) /\ i + MaxRequests = Len(s) + 1
      BY <2>0, <2>2
    <3> QED
      BY <1>1, <3>1 DEF Kept
  <2>3. Len(s) \in Nat /\ Len(s1) = Len(s) + 1
    BY <1>1
  <2>4. i <= Len(s) - MaxRequests \/ i = Len(s) + 1 - MaxRequests
    BY <2>0, <2>3
  <2> QED
    BY <2>1, <2>2, <2>4
<1> QED
  BY <1>3, <1>4, <1>5, <1>6, <1>7 DEF Kept, Spread, s1, u1

\* hit() keeps the invariant, and is what the promise asks for.
LEMMA HitKeeps ==
    ASSUME RateInv, NEW k \in Keys, Hits(k)
    PROVE  RateInv' /\ (Promise!Admit(k) \/ Promise!Refuse(k))
<1>1. PICK n \in 0..Len(bucket[k]) : Hit(k, n)
  BY DEF Hits
<1> DEFINE u == Without(bucket[k], n)
<1>2. Expired(k, n) /\ now' = now /\ now \in Nat
  BY <1>1 DEF Hit, RateInv, RateTypeOK
<1>3. u \in Seq(Nat) /\ admitted[k] \in Seq(Nat) /\ Len(bucket[k]) \in Nat /\ Len(u) <= Len(bucket[k])
  BY WithoutDef DEF RateInv, RateTypeOK
<1>4. Kept(admitted[k], u) /\ (Len(u) < MaxRequests <=> ~Promise!Full(k))
  BY <1>2, DroppingKeeps, FullAlike
<1>5. ASSUME NEW x \in Keys, x # k PROVE admitted'[x] = admitted[x] /\ bucket'[x] = bucket[x]
  BY <1>1, <1>5 DEF Hit, RateInv, RateTypeOK
<1>6. KeyInv(k)
  BY DEF RateInv
<1>7. CASE Len(u) < MaxRequests
  <2>1. /\ bucket' = [bucket EXCEPT ![k] = Append(u, now)]
        /\ admitted' = [admitted EXCEPT ![k] = Append(@, now)]
        /\ refused' = refused \ {k}
    BY <1>1, <1>7 DEF Hit
  <2>2. RateTypeOK'
    BY <1>2, <1>3, <2>1 DEF RateInv, RateTypeOK
  <2>3. /\ Ordered(Append(admitted[k], now))
        /\ Kept(Append(admitted[k], now), Append(u, now))
        /\ Spread(Append(admitted[k], now))
    BY <1>2, <1>3, <1>4, <1>6, <1>7, AdmitKeeps DEF KeyInv
  <2>4. Len(Append(u, now)) <= MaxRequests
    BY <1>3, <1>7, LimitAssumption
  <2>5. bucket'[k] = Append(u, now) /\ admitted'[k] = Append(admitted[k], now)
    BY <2>1 DEF RateInv, RateTypeOK
  <2> HIDE DEF u
  <2>6. KeyInv(k)'
    <3>1. Ordered(admitted'[k]) /\ Kept(admitted'[k], bucket'[k]) /\ Spread(admitted'[k])
      BY <2>3, <2>5
    <3> QED
      BY <1>2, <2>4, <2>5, <3>1 DEF KeyInv, Ordered, Kept, Spread
  <2>7. ASSUME NEW x \in Keys, x # k PROVE KeyInv(x)'
    <3>1. KeyInv(x)
      BY DEF RateInv
    <3> QED
      BY <1>2, <1>5, <2>7, <3>1 DEF KeyInv, Ordered, Kept, Spread
  <2>8. Promise!Admit(k)
    BY <1>2, <1>4, <1>7, <2>1 DEF Promise!Admit
  <2> QED
    BY <2>2, <2>6, <2>7, <2>8 DEF RateInv
<1>8. CASE ~(Len(u) < MaxRequests)
  <2>1. /\ bucket' = [bucket EXCEPT ![k] = u]
        /\ admitted' = admitted
        /\ refused' = refused \cup {k}
    BY <1>1, <1>8 DEF Hit
  <2>2. RateTypeOK'
    BY <1>2, <1>3, <2>1 DEF RateInv, RateTypeOK
  <2>3. bucket'[k] = u /\ admitted'[k] = admitted[k]
    BY <2>1 DEF RateInv, RateTypeOK
  <2>4. Len(u) <= MaxRequests
    BY <1>3, <1>6, LimitAssumption DEF KeyInv
  <2> HIDE DEF u
  <2>5. KeyInv(k)'
    <3>1. Ordered(admitted'[k]) /\ Kept(admitted'[k], bucket'[k]) /\ Spread(admitted'[k])
      BY <1>4, <1>6, <2>3 DEF KeyInv
    <3> QED
      BY <1>2, <2>3, <2>4, <3>1 DEF KeyInv, Ordered, Kept, Spread
  <2>6. ASSUME NEW x \in Keys, x # k PROVE KeyInv(x)'
    <3>1. KeyInv(x)
      BY DEF RateInv
    <3> QED
      BY <1>2, <1>5, <2>6, <3>1 DEF KeyInv, Ordered, Kept, Spread
  <2>7. Promise!Refuse(k)
    BY <1>2, <1>4, <1>8, <2>1 DEF Promise!Refuse
  <2> QED
    BY <2>2, <2>5, <2>6, <2>7 DEF RateInv
<1> QED
  BY <1>7, <1>8

\* The invariant is inductive, and every step is one of the promise.
LEMMA StepKeeps == RateInv /\ [RateNext]_rateVars => RateInv' /\ [Promise!WindowNext]_(Promise!limitVars)
<1> SUFFICES ASSUME RateInv, [RateNext]_rateVars
             PROVE  RateInv' /\ [Promise!WindowNext]_(Promise!limitVars)
  OBVIOUS
<1>1. CASE \E k \in Keys : Hits(k)
  BY <1>1, HitKeeps DEF Promise!WindowNext
<1>2. CASE Elapse
  <2>1. now' = now + 1 /\ UNCHANGED <<admitted, refused, bucket>>
    BY <1>2 DEF Elapse, Promise!TimePasses
  <2>2. RateTypeOK'
    BY <2>1 DEF RateInv, RateTypeOK
  <2>3. ASSUME NEW k \in Keys PROVE KeyInv(k)'
    <3>1. KeyInv(k) /\ admitted[k] \in Seq(Nat) /\ now \in Nat /\ bucket[k] \in Seq(Nat)
      BY DEF RateInv, RateTypeOK
    <3>2. Ordered(admitted[k])'
      <4>1. \A i \in 1..Len(admitted[k]) : admitted[k][i] \in Nat
        BY <3>1, InstantsType
      <4> QED
        BY <2>1, <3>1, <4>1 DEF KeyInv, Ordered
    <3>3. Kept(admitted[k], bucket[k])'
      <4>1. ASSUME NEW i \in 1..(Len(admitted[k]) - Len(bucket[k]))
            PROVE  (now + 1) - admitted[k][i] > Window
        <5>0. Len(admitted[k]) \in Nat /\ Len(bucket[k]) \in Nat
          BY <3>1, InstantsType
        <5>1. i \in 1..Len(admitted[k])
          BY <5>0
        <5>2. admitted[k][i] \in Nat
          BY <3>1, <5>1
        <5>3. now - admitted[k][i] > Window
          BY <3>1 DEF KeyInv, Kept
        <5> QED
          BY <3>1, <5>2, <5>3, LimitAssumption
      <4> QED
        BY <2>1, <3>1, <4>1 DEF KeyInv, Kept
    <3> QED
      BY <2>1, <3>1, <3>2, <3>3 DEF KeyInv, Spread
  <2> QED
    BY <1>2, <2>2, <2>3 DEF RateInv, Elapse, Promise!WindowNext
<1>3. CASE Reset
  <2>1. RateInv'
    BY <1>3, LimitAssumption
       DEF Reset, Promise!Forget, RateInv, RateTypeOK, KeyInv, Ordered, Kept, Spread
  <2> QED
    BY <1>3, <2>1 DEF Reset, Promise!WindowNext
<1>4. CASE UNCHANGED rateVars
  BY <1>4 DEF rateVars, Promise!limitVars, RateInv, RateTypeOK, KeyInv, Ordered, Kept, Spread
<1> QED
  BY <1>1, <1>2, <1>3, <1>4 DEF RateNext

LEMMA InvHolds == RateSpec => []RateInv
BY InvInit, StepKeeps, PTL DEF RateSpec

\* However bursts and pauses follow each other, no window of the history of a key
\* holds more than MaxRequests admissions (hit(), rate_limit.py:29-38).
THEOREM NeverDenser == RateSpec => []AtMostPerWindow
<1>1. RateInv => AtMostPerWindow
  BY DEF RateInv, KeyInv, Spread, AtMostPerWindow
<1> QED
  BY <1>1, InvHolds, PTL

\* The limiter that forgets answers every attempt as one that never does.
THEOREM LimiterKeepsPromise == RateSpec => KeepsPromise
<1>1. RateInit => Promise!WindowInit
  BY DEF RateInit
<1> QED
  BY <1>1, StepKeeps, InvHolds, PTL DEF RateSpec, KeepsPromise, Promise!WindowSpec

-----------------------------------------------------------------------------
(* The dialogue.                                                           *)

\* The messages between the bot and the administrator.  A context line without
\* its copy yet belongs to one running handler and is of the user it serves.
Pairs ==
    /\ \A i \in Ids : target[i] # Nobody => target[i] = chat[i]
    /\ \A i \in Ids : twin[i] # NoMessage =>
          target[i] = target[twin[i]] /\ twin[twin[i]] = i /\ chat[i] # Nobody
    /\ \A s \in Sessions : At(s, "copy") =>
          chat[task[s].id] = task[s].user /\ twin[task[s].id] = NoMessage

Alone ==
    \A s, t \in Sessions :
        At(s, "copy") /\ At(t, "copy") /\ task[s].id = task[t].id => s = t

\* What the administrator asked for is asked of the author.
Meant ==
    \A s \in Sessions :
        /\ task[s].at \in {"closing", "answering"} => task[s].user = chat[task[s].to]
        /\ At(s, "answering") => task[s].text \notin AdminCommands

SupportInv == RateInv /\ SupportTypeOK /\ Pairs /\ Alone /\ Meant

LEMMA TaskFields ==
    ASSUME SupportTypeOK, NEW s \in Sessions
    PROVE  /\ ~At(s, "idle") => task[s].user \in Keys
           /\ At(s, "copy") => task[s].id \in Ids
           /\ task[s].at \in {"closing", "answering"} => task[s].to \in Ids
           /\ At(s, "answering") => task[s].text \in Texts
BY DEF SupportTypeOK, Task, Idle, At

\* A command of the administrator is taken by its own handler, before the one
\* of replies is asked.
LEMMA CommandsComeFirst ==
    ASSUME NEW m \in Update, Takes("reply", m)
    PROVE  m.text \notin AdminCommands
<1>1. PICK i \in 1..12 : Handlers[i] = "reply" /\ \A j \in 1..(i - 1) : ~Passes(Handlers[j], m)
  BY DEF Takes, Handlers
<1>2. i = 11
  BY <1>1 DEF Handlers
<1>3. \A j \in 1..10 : ~Passes(Handlers[j], m)
  BY <1>1, <1>2
<1>4. IsAdmin(m)
  BY DEF Takes, Passes, IsAdminReply, AdminCommands
<1>5. SUFFICES ASSUME m.text \in AdminCommands PROVE FALSE
  OBVIOUS
<1>6. \E j \in 1..10 : Handlers[j] = m.text
  BY <1>5 DEF AdminCommands, Handlers
<1>7. Passes(m.text, m)
  BY <1>4, <1>5 DEF Passes
<1> QED
  BY <1>3, <1>6, <1>7

LEMMA TargetType ==
    ASSUME SupportTypeOK, NEW m \in Update
    PROVE  /\ m.from \in Keys /\ m.text \in Texts
           /\ Target(m) \in Keys \cup {Nobody}
           /\ Target(m) # Nobody => m.to \in Ids /\ Target(m) = target[m.to]
BY DEF SupportTypeOK, Update, Message, Target

\* Where a session goes, and that the others stay.
LEMMA GoesTo ==
    ASSUME SupportTypeOK, NEW s \in Sessions, NEW t \in Task \cup {Idle}, Goes(s, t)
    PROVE  /\ task' \in [Sessions -> Task \cup {Idle}]
           /\ task'[s] = t
           /\ \A x \in Sessions : x # s => task'[x] = task[x]
BY DEF SupportTypeOK, Goes

-----------------------------------------------------------------------------
(* The limiter.                                                            *)

LEMMA LimiterStep == SupportTypeOK /\ [SupportNext]_supportVars => [RateNext]_rateVars
<1> SUFFICES ASSUME SupportTypeOK, [SupportNext]_supportVars
             PROVE  [RateNext]_rateVars
  OBVIOUS
<1>1. ASSUME NEW s \in Sessions, SupportMessage(s)
      PROVE  [RateNext]_rateVars
  <2>1. task[s].user \in Keys
    BY <1>1, TaskFields DEF SupportMessage, At
  <2> QED
    BY <1>1, <2>1 DEF SupportMessage, RateNext
<1>2. CASE Tick
  BY <1>2 DEF Tick, RateNext
<1>3. CASE Restart
  BY <1>3 DEF Restart, RateNext
<1>4. CASE UNCHANGED rateVars
  BY <1>4
<1> QED
  BY <1>1, <1>2, <1>3, <1>4
     DEF SupportNext, Inform, CmdSupport, CmdCancel, AdminClose, AdminMute, AdminBan,
         AdminUnban, AdminReply, MessageTaken, Closed, Answered, SendContext, Copy, Fails,
         supportVars

-----------------------------------------------------------------------------
(* The invariant.                                                          *)

LEMMA SupportInvInit == SupportInit => SupportInv
<1> SUFFICES ASSUME SupportInit PROVE SupportInv
  OBVIOUS
<1>1. RateInv
  BY InvInit DEF SupportInit
<1>2. SupportTypeOK
  BY DEF SupportInit, SupportTypeOK
<1>3. Pairs /\ Alone /\ Meant
  BY DEF SupportInit, Pairs, Alone, Meant, At, Idle
<1> QED
  BY <1>1, <1>2, <1>3 DEF SupportInv

\* Steps that move no message: of the dialogue only tasks change, and none
\* begins to copy.
LEMMA DialogueKept ==
    ASSUME SupportInv, UNCHANGED <<target, chatVars>>,
           \A s \in Sessions : task'[s] = task[s] \/ task'[s].at \notin {"copy", "closing", "answering"}
    PROVE  Pairs' /\ Alone' /\ Meant'
<1>1. Pairs'
  BY DEF SupportInv, Pairs, chatVars, At
<1>2. Alone'
  BY DEF SupportInv, Alone, At
<1>3. Meant'
  BY DEF SupportInv, Meant, chatVars, At
<1> QED
  BY <1>1, <1>2, <1>3

\* Updates that are handled at once.
LEMMA AtOnceKeeps ==
    ASSUME SupportInv, NEW s \in Sessions, NEW m \in Update,
           \/ Inform(s, m) \/ CmdSupport(s, m) \/ CmdCancel(s, m)
           \/ AdminMute(s, m) \/ AdminBan(s, m) \/ AdminUnban(s, m)
    PROVE  SupportTypeOK' /\ Pairs' /\ Alone' /\ Meant'
<1>0. SupportTypeOK /\ now \in Nat /\ MuteTime \in Nat /\ now + MuteTime \in Nat
  BY SupportAssumption DEF SupportInv, RateInv, RateTypeOK
<1>1. UNCHANGED <<target, chatVars, task>>
  BY DEF Inform, CmdSupport, CmdCancel, AdminMute, AdminBan, AdminUnban, supportVars, dialogVars
<1>2. active' \subseteq Keys /\ banned' \subseteq Keys
  BY <1>0, TargetType DEF Inform, CmdSupport, CmdCancel, AdminMute, AdminBan, AdminUnban,
      supportVars, dialogVars, banVars, SupportTypeOK
<1>3. mutedUntil' \in [Keys -> Nat]
  <2>1. CASE AdminMute(s, m)
    BY <1>0, <2>1 DEF AdminMute, SupportTypeOK
  <2>2. CASE AdminUnban(s, m)
    BY <1>0, <2>2 DEF AdminUnban, SupportTypeOK
  <2>3. CASE UNCHANGED mutedUntil
    BY <1>0, <2>3 DEF SupportTypeOK
  <2> QED
    BY <2>1, <2>2, <2>3 DEF Inform, CmdSupport, CmdCancel, AdminBan, supportVars, banVars
<1>4. SupportTypeOK'
  BY <1>0, <1>1, <1>2, <1>3 DEF SupportTypeOK, chatVars
<1> QED
  BY <1>1, <1>4, DialogueKept

LEMMA TakenKeeps ==
    ASSUME SupportInv, NEW s \in Sessions, NEW m \in Update,
           AdminClose(s, m) \/ AdminReply(s, m) \/ MessageTaken(s, m)
    PROVE  SupportTypeOK' /\ Pairs' /\ Alone' /\ Meant'
<1>0. SupportTypeOK /\ UNCHANGED <<dialogVars, banVars, chatVars>>
  BY DEF SupportInv, AdminClose, AdminReply, MessageTaken
<1>1. ASSUME UNCHANGED task
      PROVE  SupportTypeOK' /\ Pairs' /\ Alone' /\ Meant'
  BY <1>0, <1>1, DialogueKept DEF SupportTypeOK, dialogVars, banVars, chatVars
<1>2. CASE MessageTaken(s, m)
  <2> DEFINE t == [at |-> "message", user |-> m.from]
  <2>1. t \in Task /\ Goes(s, t)
    BY <1>0, <1>2, TargetType DEF MessageTaken, Task
  <2>2. /\ task' \in [Sessions -> Task \cup {Idle}] /\ task'[s] = t
        /\ \A x \in Sessions : x # s => task'[x] = task[x]
    BY <1>0, <2>1, GoesTo
  <2>3. \A x \in Sessions :
           task'[x] = task[x] \/ task'[x].at \notin {"copy", "closing", "answering"}
    BY <2>2
  <2> QED
    BY <1>0, <2>2, <2>3, DialogueKept DEF SupportTypeOK, dialogVars, banVars, chatVars
<1>3. ASSUME NEW t \in Task, Goes(s, t), t.at \in {"closing", "answering"},
             t.user = chat[t.to], t.at = "answering" => t.text \notin AdminCommands
      PROVE  SupportTypeOK' /\ Pairs' /\ Alone' /\ Meant'
  <2>1. /\ task' \in [Sessions -> Task \cup {Idle}] /\ task'[s] = t
        /\ \A x \in Sessions : x # s => task'[x] = task[x]
    BY <1>0, <1>3, GoesTo
  <2>2. SupportTypeOK'
    BY <1>0, <2>1 DEF SupportTypeOK, dialogVars, banVars, chatVars
  <2>3. Pairs'
    BY <1>0, <1>3, <2>1 DEF SupportInv, Pairs, At, dialogVars, chatVars
  <2>4. Alone'
    BY <1>3, <2>1 DEF SupportInv, Alone, At
  <2>5. Meant'
    BY <1>0, <1>3, <2>1 DEF SupportInv, Meant, At, chatVars
  <2> QED
    BY <2>2, <2>3, <2>4, <2>5
<1>4. Target(m) # Nobody => Target(m) \in Keys /\ m.to \in Ids /\ Target(m) = chat[m.to]
  BY <1>0, TargetType DEF SupportInv, Pairs
<1>5. CASE AdminClose(s, m)
  <2> DEFINE t == [at |-> "closing", user |-> Target(m), to |-> m.to]
  <2>1. CASE Target(m) # Nobody
    <3>1. t \in Task /\ Goes(s, t)
      BY <1>4, <1>5, <2>1 DEF AdminClose, Task
    <3> QED
      BY <1>3, <1>4, <2>1, <3>1
  <2> QED
    BY <1>1, <1>5, <2>1 DEF AdminClose
<1>6. CASE AdminReply(s, m)
  <2> DEFINE t == [at |-> "answering", user |-> Target(m), to |-> m.to, text |-> m.text]
  <2>1. CASE Target(m) # Nobody /\ Goes(s, t)
    <3>1. t \in Task
      BY <1>0, <1>4, <2>1, TargetType DEF Task
    <3>2. m.text \notin AdminCommands
      BY <1>6, CommandsComeFirst DEF AdminReply, Taken
    <3> QED
      BY <1>3, <1>4, <2>1, <3>1, <3>2
  <2> QED
    BY <1>1, <1>6, <2>1 DEF AdminReply
<1> QED
  BY <1>2, <1>5, <1>6

\* Handlers that go on to something other than copying, or end.
LEMMA GoingKeeps ==
    ASSUME SupportInv, NEW s \in Sessions,
           Closed(s) \/ Answered(s) \/ SupportMessage(s) \/ Fails(s)
    PROVE  SupportTypeOK' /\ Pairs' /\ Alone' /\ Meant'
<1>0. SupportTypeOK /\ UNCHANGED <<target, banVars, chatVars>>
  BY DEF SupportInv, Closed, Answered, SupportMessage, Fails, dialogVars
<1>1. active' \subseteq Keys
  BY <1>0 DEF Closed, Answered, SupportMessage, Fails, dialogVars, SupportTypeOK
<1>2. \E t \in Task \cup {Idle} : Goes(s, t) /\ t.at \in {"idle", "send"}
  <2>1. CASE Ends(s)
    BY <2>1 DEF Ends, Idle
  <2>2. CASE At(s, "message") /\ Goes(s, [task[s] EXCEPT !.at = "send"])
    <3>1. task[s] \in [at : {"message", "send"}, user : Keys]
      BY <1>0, <2>2 DEF SupportTypeOK, Task, Idle, At
    <3>2. /\ [task[s] EXCEPT !.at = "send"] \in Task
          /\ [task[s] EXCEPT !.at = "send"].at = "send"
      BY <3>1 DEF Task
    <3> QED
      BY <2>2, <3>2
  <2> QED
    BY <2>1, <2>2 DEF Closed, Answered, SupportMessage, Fails
<1>3. PICK t \in Task \cup {Idle} : Goes(s, t) /\ t.at \in {"idle", "send"}
  BY <1>2
<1>4. /\ task' \in [Sessions -> Task \cup {Idle}] /\ task'[s] = t
      /\ \A x \in Sessions : x # s => task'[x] = task[x]
  BY <1>0, <1>3, GoesTo
<1>5. \A x \in Sessions :
         task'[x] = task[x] \/ task'[x].at \notin {"copy", "closing", "answering"}
  BY <1>3, <1>4
<1>6. SupportTypeOK'
  BY <1>0, <1>1, <1>4 DEF SupportTypeOK, banVars, chatVars
<1> QED
  BY <1>0, <1>5, <1>6, DialogueKept

\* The context line takes an id that nothing else has.
LEMMA ContextKeeps ==
    ASSUME SupportInv, NEW s \in Sessions, NEW i \in Ids, SendContext(s, i)
    PROVE  SupportTypeOK' /\ Pairs' /\ Alone' /\ Meant'
<1> DEFINE u == task[s].user
           t == [at |-> "copy", user |-> u, id |-> i]
<1>0. /\ SupportTypeOK /\ u \in Keys /\ chat[i] = Nobody /\ Nobody \notin Keys
      /\ chat' = [chat EXCEPT ![i] = u] /\ Goes(s, t)
      /\ UNCHANGED <<active, target, banVars, twin>>
  BY TaskFields, SupportAssumption DEF SupportInv, SendContext, Unsent, At, dialogVars
<1>1. t \in Task
  BY <1>0 DEF Task
<1>2. /\ task' \in [Sessions -> Task \cup {Idle}] /\ task'[s] = t
      /\ \A x \in Sessions : x # s => task'[x] = task[x]
  BY <1>0, <1>1, GoesTo
<1>3. chat' \in [Ids -> Keys \cup {Nobody}] /\ chat'[i] = u
      /\ \A j \in Ids : j # i => chat'[j] = chat[j]
  BY <1>0 DEF SupportTypeOK
<1>4. SupportTypeOK'
  BY <1>0, <1>2, <1>3 DEF SupportTypeOK, banVars
<1>5. \A x \in Sessions : At(x, "copy") => task[x].id # i
  BY <1>0, TaskFields DEF SupportInv, Pairs, At
<1>6. twin[i] = NoMessage /\ target[i] = Nobody
  BY <1>0 DEF SupportInv, Pairs
<1>7. Pairs'
  <2>1. \A j \in Ids : target'[j] # Nobody => target'[j] = chat'[j]
    BY <1>0, <1>3, <1>6 DEF SupportInv, Pairs
  <2>2. \A j \in Ids : twin'[j] # NoMessage =>
           target'[j] = target'[twin'[j]] /\ twin'[twin'[j]] = j /\ chat'[j] # Nobody
    BY <1>0, <1>3, <1>6 DEF SupportInv, Pairs
  <2>3. ASSUME NEW x \in Sessions, task'[x].at = "copy"
        PROVE  chat'[task'[x].id] = task'[x].user /\ twin'[task'[x].id] = NoMessage
    <3>1. CASE x = s
      BY <1>0, <1>2, <1>3, <1>6, <3>1
    <3>2. CASE x # s
      BY <1>0, <1>2, <1>3, <1>5, <2>3, <3>2, TaskFields DEF SupportInv, Pairs, At
    <3> QED
      BY <3>1, <3>2
  <2> QED
    BY <2>1, <2>2, <2>3 DEF Pairs, At
<1>8. Alone'
  BY <1>2, <1>5 DEF SupportInv, Alone, At
<1>9. Meant'
  <2>1. ASSUME NEW x \in Sessions, task'[x].at \in {"closing", "answering"}
        PROVE  /\ task'[x].user = chat'[task'[x].to]
               /\ task'[x].at = "answering" => task'[x].text \notin AdminCommands
    <3>1. x # s /\ task'[x] = task[x]
      BY <1>2, <2>1
    <3>2. task[x].user \in Keys /\ task[x].to \in Ids /\ task[x].user = chat[task[x].to]
      BY <1>0, <2>1, <3>1, TaskFields DEF SupportInv, Meant, At
    <3>3. task[x].to # i
      BY <1>0, <3>2
    <3> QED
      BY <1>3, <2>1, <3>1, <3>2, <3>3 DEF SupportInv, Meant, At
  <2> QED
    BY <2>1 DEF Meant, At
<1> QED
  BY <1>4, <1>7, <1>8, <1>9

\* The copy becomes the twin of the context line, and both are entered.
LEMMA CopyKeeps ==
    ASSUME SupportInv, NEW s \in Sessions, NEW i \in Ids, Copy(s, i)
    PROVE  SupportTypeOK' /\ Pairs' /\ Alone' /\ Meant'
<1>0. PICK c, u : c = task[s].id /\ u = task[s].user
  OBVIOUS
<1>1. /\ SupportTypeOK /\ At(s, "copy") /\ c \in Ids /\ u \in Keys
      /\ chat[i] = Nobody /\ Nobody \notin Keys /\ NoMessage \notin Ids
      /\ chat[c] = u /\ twin[c] = NoMessage
  BY <1>0, TaskFields, SupportAssumption DEF SupportInv, Copy, Unsent, Pairs, At
<1>2. i # c /\ twin[i] = NoMessage /\ target[i] = Nobody
  BY <1>1 DEF SupportInv, Pairs
<1>3. /\ chat' \in [Ids -> Keys \cup {Nobody}] /\ chat'[i] = u
      /\ \A j \in Ids : j # i => chat'[j] = chat[j]
  BY <1>0, <1>1 DEF Copy, SupportTypeOK
<1>4. /\ twin' \in [Ids -> Ids \cup {NoMessage}] /\ twin'[i] = c /\ twin'[c] = i
      /\ \A j \in Ids \ {i, c} : twin'[j] = twin[j]
  BY <1>0, <1>1, <1>2 DEF Copy, SupportTypeOK
<1>5. /\ target' \in [Ids -> Keys \cup {Nobody}] /\ target'[i] = u /\ target'[c] = u
      /\ \A j \in Ids \ {i, c} : target'[j] = target[j]
  BY <1>0, <1>1 DEF Copy, Mapped, SupportTypeOK
<1>6. /\ task' \in [Sessions -> Task \cup {Idle}] /\ task'[s] = Idle
      /\ \A x \in Sessions : x # s => task'[x] = task[x]
  BY <1>1, GoesTo DEF Copy, Ends
<1>7. SupportTypeOK'
  BY <1>1, <1>3, <1>4, <1>5, <1>6 DEF Copy, SupportTypeOK, banVars
<1>8. \A x \in Sessions : x # s /\ At(x, "copy") => task[x].id \in Ids \ {i, c}
  BY <1>0, <1>1, TaskFields DEF SupportInv, Alone, Pairs, At
<1>9. Pairs'
  <2>1. \A j \in Ids : target'[j] # Nobody => target'[j] = chat'[j]
    BY <1>1, <1>2, <1>3, <1>5 DEF SupportInv, Pairs
  <2>2. ASSUME NEW j \in Ids, twin'[j] # NoMessage
        PROVE  target'[j] = target'[twin'[j]] /\ twin'[twin'[j]] = j /\ chat'[j] # Nobody
    <3>1. CASE j \in {i, c}
      BY <1>1, <1>2, <1>3, <1>4, <1>5, <3>1
    <3>2. CASE j \notin {i, c}
      <4>1. twin'[j] = twin[j] /\ target'[j] = target[j] /\ chat'[j] = chat[j]
        BY <1>3, <1>4, <1>5, <3>2
      <4>2. /\ twin[j] \in Ids /\ twin[twin[j]] = j /\ chat[j] # Nobody
            /\ target[j] = target[twin[j]] /\ j # NoMessage
        BY <1>1, <2>2, <4>1 DEF SupportInv, Pairs, SupportTypeOK
      <4>3. twin[j] \notin {i, c}
        BY <1>1, <1>2, <4>2
      <4> QED
        BY <1>4, <1>5, <4>1, <4>2, <4>3
    <3> QED
      BY <3>1, <3>2
  <2>3. ASSUME NEW x \in Sessions, task'[x].at = "copy"
        PROVE  chat'[task'[x].id] = task'[x].user /\ twin'[task'[x].id] = NoMessage
    <3>1. x # s /\ task'[x] = task[x]
      BY <1>6, <2>3 DEF Idle
    <3>2. task[x].id \in Ids \ {i, c}
      BY <1>8, <2>3, <3>1 DEF At
    <3> QED
      BY <1>3, <1>4, <2>3, <3>1, <3>2 DEF SupportInv, Pairs, At
  <2> QED
    BY <2>1, <2>2, <2>3 DEF Pairs, At
<1>10. Alone'
  BY <1>6 DEF SupportInv, Alone, At, Idle
<1>11. Meant'
  <2>1. ASSUME NEW x \in Sessions, task'[x].at \in {"closing", "answering"}
        PROVE  /\ task'[x].user = chat'[task'[x].to]
               /\ task'[x].at = "answering" => task'[x].text \notin AdminCommands
    <3>1. x # s /\ task'[x] = task[x]
      BY <1>6, <2>1 DEF Idle
    <3>2. task[x].user \in Keys /\ task[x].to \in Ids /\ task[x].user = chat[task[x].to]
      BY <1>1, <2>1, <3>1, TaskFields DEF SupportInv, Meant, At
    <3>3. task[x].to # i
      BY <1>1, <3>2
    <3> QED
      BY <1>3, <2>1, <3>1, <3>2, <3>3 DEF SupportInv, Meant, At
  <2> QED
    BY <2>1 DEF Meant, At
<1> QED
  BY <1>7, <1>9, <1>10, <1>11

\* A restart loses the map and the handlers, so nobody is answered by what was
\* sent before it.
LEMMA RestartKeeps ==
    ASSUME SupportInv, Restart
    PROVE  SupportTypeOK' /\ Pairs' /\ Alone' /\ Meant'
<1>1. SupportTypeOK'
  BY DEF SupportInv, SupportTypeOK, Restart, banVars, chatVars
<1>2. Pairs'
  BY DEF SupportInv, SupportTypeOK, Pairs, Restart, chatVars, At, Idle
<1>3. Alone' /\ Meant'
  BY DEF Restart, Alone, Meant, At, Idle
<1> QED
  BY <1>1, <1>2, <1>3

LEMMA SupportStep == SupportInv /\ [SupportNext]_supportVars => SupportInv'
<1> SUFFICES ASSUME SupportInv, [SupportNext]_supportVars PROVE SupportInv'
  OBVIOUS
<1>1. RateInv'
  BY LimiterStep, StepKeeps DEF SupportInv
<1>2. SupportTypeOK' /\ Pairs' /\ Alone' /\ Meant'
  <2>1. CASE UNCHANGED supportVars \/ Tick
    <3>1. UNCHANGED <<active, target, banVars, chatVars, task>>
      BY <2>1 DEF supportVars, Tick, dialogVars
    <3>2. SupportTypeOK'
      BY <3>1 DEF SupportInv, SupportTypeOK, banVars, chatVars
    <3> QED
      BY <3>1, <3>2, DialogueKept
  <2> QED
    BY <2>1, AtOnceKeeps, TakenKeeps, GoingKeeps, ContextKeeps, CopyKeeps, RestartKeeps
       DEF SupportNext
<1> QED
  BY <1>1, <1>2 DEF SupportInv

LEMMA SupportInvHolds == SupportSpec => []SupportInv
BY SupportInvInit, SupportStep, PTL DEF SupportSpec

-----------------------------------------------------------------------------
(* Theorems.                                                               *)

\* Types of the dialogue.
THEOREM SupportTyped == SupportSpec => []SupportTypeOK
<1>1. SupportInv => SupportTypeOK
  BY DEF SupportInv
<1> QED
  BY <1>1, SupportInvHolds, PTL

\* Nobody is answered, banned or closed for another: what the administrator
\* replies to leads to its author or to nobody (support_map), with any number of
\* messages forwarded at a time, failures and restarts.
THEOREM AnswersReachAuthors == SupportSpec => []RepliesReachAuthors
<1>1. SupportInv => RepliesReachAuthors
  BY DEF SupportInv, Pairs, Meant, RepliesReachAuthors
<1> QED
  BY <1>1, SupportInvHolds, PTL

\* The order of registration of the handlers (handlers.py:39-45) keeps every
\* command of the administrator from the users.
THEOREM CommandsAreTaken == SupportSpec => []CommandsStayPrivate
<1>1. SupportInv => CommandsStayPrivate
  BY DEF SupportInv, Meant, CommandsStayPrivate
<1> QED
  BY <1>1, SupportInvHolds, PTL

\* The dialogue uses the limiter as it is to be used, ...
THEOREM DialogueImplementsLimiter == SupportSpec => RateSpec
<1>1. SupportInit => RateInit
  BY DEF SupportInit
<1>2. SupportInv => SupportTypeOK
  BY DEF SupportInv
<1> QED
  BY <1>1, <1>2, LimiterStep, SupportInvHolds, PTL DEF SupportSpec, RateSpec

\* ... so no user gets more messages through than the limit says, ...
THEOREM SupportNeverDenser == SupportSpec => []AtMostPerWindow
BY DialogueImplementsLimiter, NeverDenser, PTL

\* ... and none is refused who would be admitted by a limiter that never forgets.
THEOREM SupportKeepsPromise == SupportSpec => KeepsPromise
BY DialogueImplementsLimiter, LimiterKeepsPromise, PTL
=============================================================================
