----------------------------- MODULE StockProofs -----------------------------
(***************************************************************************)
(* Proofs about Inventory and Orders, for every set of variants,           *)
(* reservations and orders and every opening stock.                        *)
(*                                                                         *)
(* All operations on reservations have one shape: they move a set S of     *)
(* reservations from one status to another, and move a counter by the      *)
(* units of S.  Lemma RelabelCounts says what that does to the number of   *)
(* units under each status; the step of each operation is then arithmetic. *)
(*                                                                         *)
(* The orders implement the stock service, so every theorem about it holds *)
(* of them too.  What is left for the second part is what they add: which  *)
(* rows an order owns, and what a settled one still holds.                 *)
(***************************************************************************)
EXTENDS Orders, FiniteSetTheorems, TLAPS

\* The units of any set of reservations are finitely many.
LEMMA QtyType ==
    ASSUME NEW rows, NEW S \in SUBSET Reservations, NEW v
    PROVE  IsFiniteSet(Units(rows, S, v)) /\ QtyOn(rows, S, v) \in Nat
<1>1. IsFiniteSet(S) /\ IsFiniteSet(1..MaxQty)
  BY FS_Subset, FS_Interval, FiniteAssumption, BoundAssumption
<1>2. IsFiniteSet(S \X (1..MaxQty))
  BY <1>1, FS_Product
<1>3. Units(rows, S, v) \in SUBSET (S \X (1..MaxQty))
  BY DEF Units
<1> QED
  BY <1>2, <1>3, FS_Subset, FS_CardinalityType DEF QtyOn

\* No reservation, no units.
LEMMA QtyNone ==
    ASSUME NEW rows, NEW v
    PROVE  QtyOn(rows, {}, v) = 0
<1>1. Units(rows, {}, v) = {}
  BY DEF Units
<1> QED
  BY <1>1, FS_EmptySet DEF QtyOn

\* The units of disjoint sets of reservations add up.
LEMMA QtySplit ==
    ASSUME NEW rows, NEW S \in SUBSET Reservations,
           NEW T \in SUBSET Reservations, S \cap T = {}, NEW v
    PROVE  QtyOn(rows, S \cup T, v) = QtyOn(rows, S, v) + QtyOn(rows, T, v)
<1>1. Units(rows, S \cup T, v) = Units(rows, S, v) \cup Units(rows, T, v)
  BY DEF Units
<1>2. Units(rows, S, v) \cap Units(rows, T, v) = {}
  BY DEF Units
<1> DEFINE A == Units(rows, S, v)
           B == Units(rows, T, v)
<1>3. IsFiniteSet(A) /\ Cardinality(A) \in Nat
  BY QtyType DEF QtyOn
<1>4. IsFiniteSet(B) /\ Cardinality(B) \in Nat
  BY QtyType DEF QtyOn
<1>5. Cardinality(Units(rows, S \cup T, v)) = Cardinality(A \cup B)
  BY <1>1, Zenon
<1>6. Cardinality(A \cap B) = 0
  BY <1>2, FS_EmptySet, Zenon
<1>7. Cardinality(A \cup B)
        = Cardinality(A) + Cardinality(B) - Cardinality(A \cap B)
  <2> HIDE DEF A, B
  <2> QED BY <1>3, <1>4, FS_Union, Zenon
<1>8. QtyOn(rows, S \cup T, v) = Cardinality(A) + Cardinality(B) - 0
  BY <1>5, <1>6, <1>7, Zenon DEF QtyOn
<1>9. QtyOn(rows, S, v) = Cardinality(A) /\ QtyOn(rows, T, v) = Cardinality(B)
  BY DEF QtyOn
<1> HIDE DEF A, B
<1> QED
  BY <1>3, <1>4, <1>8, <1>9

\* Only the variant and the qty of a row count, not its status.
LEMMA QtySame ==
    ASSUME NEW old, NEW new, NEW S \in SUBSET Reservations, NEW v,
           \A r \in S : new[r].variant = old[r].variant /\ new[r].qty = old[r].qty
    PROVE  QtyOn(new, S, v) = QtyOn(old, S, v)
<1>1. Units(new, S, v) = Units(old, S, v)
  BY DEF Units
<1> QED
  BY <1>1 DEF QtyOn

\* Exactly the reservations S go from status a to status b; every row keeps its
\* variant and qty.
Relabels(old, new, S, a, b) ==
    /\ a # b
    /\ S \subseteq InStatus(old, a)
    /\ \A r \in S : new[r].status = b
    /\ \A r \in Reservations \ S : new[r].status = old[r].status
    /\ \A r \in Reservations : /\ new[r].variant = old[r].variant
                              /\ new[r].qty = old[r].qty

\* The units of a single reservation are its quantity.
LEMMA QtyOne ==
    ASSUME NEW rows, NEW r \in Reservations, rows[r].qty \in 0..MaxQty, NEW v
    PROVE  QtyOn(rows, {r}, v) = IF rows[r].variant = v THEN rows[r].qty ELSE 0
<1>1. CASE rows[r].variant # v
  <2>1. Units(rows, {r}, v) = {}
    BY <1>1 DEF Units
  <2> QED
    BY <1>1, <2>1, FS_EmptySet DEF QtyOn
<1>2. CASE rows[r].variant = v
  <2> DEFINE q == rows[r].qty
             f == [n \in 1..q |-> <<r, n>>]
  <2>1. q \in Nat /\ 1..q \subseteq 1..MaxQty
    BY BoundAssumption
  <2>2. Units(rows, {r}, v) = {<<r, n>> : n \in 1..q}
    BY <1>2, <2>1, BoundAssumption DEF Units
  <2>3. f \in Bijection(1..q, Units(rows, {r}, v))
    <3>1. f \in [1..q -> Units(rows, {r}, v)]
      BY <2>2
    <3>2. \A m, n \in 1..q : f[m] = f[n] => m = n
      OBVIOUS
    <3>3. \A u \in Units(rows, {r}, v) : \E n \in 1..q : f[n] = u
      BY <2>2
    <3> HIDE DEF f
    <3> QED
      BY <3>1, <3>2, <3>3 DEF Bijection, Injection, Surjection, IsInjective
  <2>4. ExistsBijection(1..q, Units(rows, {r}, v))
    BY <2>3 DEF ExistsBijection
  <2>5. IsFiniteSet(1..q) /\ Cardinality(1..q) = q
    <3>1. Cardinality(1..q) = IF 1 > q THEN 0 ELSE q - 1 + 1
      BY <2>1, FS_Interval, SMT
    <3>2. IsFiniteSet(1..q)
      BY <2>1, FS_Interval
    <3> QED
      BY <2>1, <3>1, <3>2
  <2>6. Cardinality(Units(rows, {r}, v)) = q
    BY <2>4, <2>5, FS_Bijection
  <2> QED
    BY <1>2, <2>6 DEF QtyOn
<1> QED
  BY <1>1, <1>2

\* The units of S then move from one status to the other.
LEMMA RelabelCounts ==
    ASSUME NEW old, NEW new, NEW S, NEW a, NEW b, Relabels(old, new, S, a, b),
           NEW v
    PROVE  /\ UnitsIn(new, a, v) = UnitsIn(old, a, v) - QtyOn(old, S, v)
           /\ UnitsIn(new, b, v) = UnitsIn(old, b, v) + QtyOn(old, S, v)
           /\ \A c : c \notin {a, b} => UnitsIn(new, c, v) = UnitsIn(old, c, v)
<1> USE DEF Relabels
<1>0. S \in SUBSET Reservations
  BY DEF InStatus
<1>1. \A T \in SUBSET Reservations : QtyOn(new, T, v) = QtyOn(old, T, v)
  BY QtySame
<1>2. \A c : InStatus(old, c) \in SUBSET Reservations /\ InStatus(new, c) \in SUBSET Reservations
  BY DEF InStatus
<1>3. \A c : UnitsIn(new, c, v) = QtyOn(old, InStatus(new, c), v)
  BY <1>1, <1>2 DEF UnitsIn
<1>4. InStatus(old, a) = InStatus(new, a) \cup S /\ InStatus(new, a) \cap S = {}
  BY <1>0 DEF InStatus
<1>5. InStatus(new, b) = InStatus(old, b) \cup S /\ InStatus(old, b) \cap S = {}
  BY DEF InStatus
<1>6. \A c : c \notin {a, b} => InStatus(new, c) = InStatus(old, c)
  BY DEF InStatus
<1>7. UnitsIn(old, a, v) = QtyOn(old, InStatus(new, a), v) + QtyOn(old, S, v)
  BY <1>0, <1>2, <1>4, QtySplit DEF UnitsIn
<1>8. QtyOn(old, InStatus(new, b), v) = UnitsIn(old, b, v) + QtyOn(old, S, v)
  BY <1>0, <1>2, <1>5, QtySplit DEF UnitsIn
<1>9. QtyOn(old, InStatus(new, a), v) \in Nat /\ QtyOn(old, S, v) \in Nat
  BY <1>0, <1>2, QtyType
<1>10. \A c : c \notin {a, b} => UnitsIn(new, c, v) = UnitsIn(old, c, v)
  BY <1>3, <1>6 DEF UnitsIn
<1>11. UnitsIn(new, a, v) = UnitsIn(old, a, v) - QtyOn(old, S, v)
  BY <1>3, <1>7, <1>9
<1> QED
  BY <1>3, <1>8, <1>10, <1>11

\* Exactly the reservations S leave status a for b, with the rows asked for.
Adds(old, new, rows, S, a, b) ==
    /\ a # b
    /\ S \subseteq InStatus(old, a)
    /\ \A r \in S : new[r] = rows[r] /\ rows[r].status = b
    /\ \A r \in Reservations \ S : new[r] = old[r]

\* The units of those rows are then added under status b.
LEMMA AddsCounts ==
    ASSUME NEW old, NEW new, NEW rows, NEW S, NEW a, NEW b,
           Adds(old, new, rows, S, a, b), NEW v
    PROVE  /\ UnitsIn(new, b, v) = UnitsIn(old, b, v) + QtyOn(rows, S, v)
           /\ \A c : c \notin {a, b} => UnitsIn(new, c, v) = UnitsIn(old, c, v)
<1> USE DEF Adds
<1>0. S \in SUBSET Reservations
  BY DEF InStatus
<1>1. \A c : InStatus(old, c) \in SUBSET Reservations
  BY DEF InStatus
<1>2. InStatus(new, b) = InStatus(old, b) \cup S /\ InStatus(old, b) \cap S = {}
  BY DEF InStatus
<1>3. \A c : c \notin {a, b} => InStatus(new, c) = InStatus(old, c) /\ InStatus(old, c) \cap S = {}
  BY DEF InStatus
<1>4. UnitsIn(new, b, v) = QtyOn(new, InStatus(old, b), v) + QtyOn(new, S, v)
  BY <1>0, <1>1, <1>2, QtySplit DEF UnitsIn
<1>5. \A T \in SUBSET Reservations : T \cap S = {} => QtyOn(new, T, v) = QtyOn(old, T, v)
  <2> TAKE T \in SUBSET Reservations
  <2> HAVE T \cap S = {}
  <2>1. \A r \in T : new[r].variant = old[r].variant /\ new[r].qty = old[r].qty
    OBVIOUS
  <2> QED
    BY <2>1, QtySame
<1>6. QtyOn(new, S, v) = QtyOn(rows, S, v)
  BY <1>0, QtySame
<1> QED
  BY <1>1, <1>2, <1>3, <1>4, <1>5, <1>6 DEF UnitsIn

-----------------------------------------------------------------------------

\* The journal stays a table of integers whatever deltas are added to it.
LEMMA MovedType ==
    ASSUME TypeOK, NEW t \in MovementTypes, NEW d \in [Variants -> Int]
    PROVE  Moved(t, d) \in [Variants -> [MovementTypes -> Int]]
BY DEF TypeOK, Moved

LEMMA MovedOneType ==
    ASSUME TypeOK, NEW t \in MovementTypes, NEW v \in Variants, NEW d \in Int
    PROVE  MovedOne(v, t, d) \in [Variants -> [MovementTypes -> Int]]
BY DEF TypeOK, MovedOne

\* Counters stay integers when units are added or taken away.
LEMMA CounterType ==
    ASSUME NEW S \in SUBSET Reservations, NEW counter \in [Variants -> Int]
    PROVE  /\ Plus(counter, S) \in [Variants -> Int]
           /\ Minus(counter, S) \in [Variants -> Int]
           /\ [v \in Variants |-> QtyOn(resv, S, v)] \in [Variants -> Int]
           /\ [v \in Variants |-> -QtyOn(resv, S, v)] \in [Variants -> Int]
<1>1. \A v \in Variants : QtyOn(resv, S, v) \in Int
  BY QtyType
<1> QED
  BY <1>1 DEF Plus, Minus

\* A change of status keeps the rows well formed.
LEMMA SetStatusType ==
    ASSUME TypeOK, NEW S \in SUBSET Reservations, NEW b \in Statuses,
           NEW a \in Statuses, S \subseteq With(a)
    PROVE  SetStatus(S, b) \in [Reservations -> Row \cup {Unused}]
<1>1. \A r \in S : resv[r] \in Row
  BY DEF TypeOK, With, InStatus, Statuses, Unused
<1>2. \A r \in S : [resv[r] EXCEPT !.status = b] \in Row
  BY <1>1 DEF Row
<1> QED
  BY <1>2 DEF TypeOK, SetStatus

\* Every operation of the service keeps the state well formed.
THEOREM TypeCorrect == Spec => []TypeOK
<1> USE DEF vars
<1>1. Init => TypeOK
  BY OpeningAssumption DEF Init, TypeOK
<1>2. TypeOK /\ [Next]_vars => TypeOK'
  <2> SUFFICES ASSUME TypeOK, [Next]_vars PROVE TypeOK'
    OBVIOUS
  <2>0. \A a : With(a) \in SUBSET Reservations
    BY DEF With, InStatus
  <2>1. CASE ReserveSome
    <3>0. PICK S \in SUBSET With("unused") : \E rows \in [S -> NewRows] : Reserve(S, rows)
      BY <2>1 DEF ReserveSome
    <3>1. PICK rows \in [S -> NewRows] : Reserve(S, rows)
      BY <3>0
    <3>2. \A r \in S : rows[r] \in Row
      BY DEF NewRows, Row, Statuses, Qtys
    <3>3. \A v \in Variants : QtyOn(rows, S, v) \in Int
      BY <2>0, QtyType
    <3>4. resv' \in [Reservations -> Row \cup {Unused}]
      BY <3>1, <3>2 DEF Reserve, TypeOK
    <3>5. reserved' \in [Variants -> Int]
      BY <3>1, <3>3 DEF Reserve, TypeOK
    <3>6. journal' \in [Variants -> [MovementTypes -> Int]]
      BY <3>1, <3>3, MovedType DEF Reserve, MovementTypes
    <3> QED
      BY <3>1, <3>4, <3>5, <3>6 DEF Reserve, TypeOK
  <2>2. CASE ReleaseSome
    <3>1. PICK S \in SUBSET With("active") : Release(S)
      BY <2>2 DEF ReleaseSome
    <3>2. S \in SUBSET Reservations
      BY <2>0, <3>1
    <3> QED
      BY <3>1, <3>2, CounterType, MovedType, SetStatusType
      DEF Release, TypeOK, MovementTypes, Statuses
  <2>3. CASE FulfillSome
    <3>1. PICK S \in SUBSET With("active") : Fulfill(S)
      BY <2>3 DEF FulfillSome
    <3>2. S \in SUBSET Reservations
      BY <2>0, <3>1
    <3> QED
      BY <3>1, <3>2, CounterType, MovedType, SetStatusType
      DEF Fulfill, TypeOK, MovementTypes, Statuses
  <2>4. CASE ReleaseExpiredSome
    <3>1. PICK S \in SUBSET Reservations : ReleaseExpired(S)
      BY <2>4 DEF ReleaseExpiredSome
    <3>2. S \subseteq With("active")
      BY <3>1 DEF ReleaseExpired
    <3>3. \A v \in Variants : QtyOn(resv, S, v) \in Int
      BY QtyType
    <3> QED
      BY <3>1, <3>2, <3>3, SetStatusType DEF ReleaseExpired, TypeOK, Statuses
  <2>5. CASE LowStockScan
    BY <2>5 DEF LowStockScan, TypeOK
  <2>6. ASSUME NEW r \in Reservations, NEW ttn \in BOOLEAN,
               Ship(r, ttn) \/ UpdateTtn(r, ttn)
        PROVE  TypeOK'
    <3>1. resv[r] \in Row
      BY <2>6 DEF Ship, UpdateTtn, TypeOK, With, InStatus, Unused
    <3>2. CASE Ship(r, ttn)
      <4> DEFINE row == [resv[r] EXCEPT !.status = "shipped", !.ttn = ttn]
      <4>1. row \in Row
        BY <3>1 DEF Row, Statuses
      <4>2. resv' = [resv EXCEPT ![r] = row]
        BY <3>2 DEF Ship, TypeOK
      <4>3. resv' \in [Reservations -> Row \cup {Unused}]
        BY <4>1, <4>2 DEF TypeOK
      <4>4. onHand' \in [Variants -> Int] /\ reserved' \in [Variants -> Int]
        BY <3>2, CounterType DEF Ship, TypeOK
      <4> QED
        BY <3>2, <4>3, <4>4 DEF Ship, TypeOK
    <3>3. CASE UpdateTtn(r, ttn)
      <4>1. resv' \in [Reservations -> Row \cup {Unused}]
        BY <3>1, <3>3 DEF UpdateTtn, TypeOK, Row
      <4> QED
        BY <3>3, <4>1 DEF UpdateTtn, TypeOK
    <3> QED
      BY <2>6, <3>2, <3>3
  <2>7. ASSUME NEW r \in Reservations, PickUp(r) \/ NotPickedUp(r)
        PROVE  TypeOK'
    <3>1. {r} \in SUBSET Reservations /\ {r} \subseteq With("shipped")
      BY <2>7 DEF PickUp, NotPickedUp
    <3>2. resv' \in [Reservations -> Row \cup {Unused}]
      BY <2>7, <3>1, SetStatusType DEF PickUp, NotPickedUp, Statuses
    <3>3. journal' \in [Variants -> [MovementTypes -> Int]]
      <4>1. /\ [v \in Variants |-> QtyOn(resv, {r}, v)] \in [Variants -> Int]
            /\ [v \in Variants |-> -QtyOn(resv, {r}, v)] \in [Variants -> Int]
        BY QtyType
      <4>2. "sale" \in MovementTypes /\ "ret" \in MovementTypes
        BY DEF MovementTypes
      <4>3. CASE PickUp(r)
        BY <4>1, <4>2, <4>3, MovedType DEF PickUp
      <4>4. CASE NotPickedUp(r)
        BY <4>1, <4>2, <4>4, MovedType DEF NotPickedUp
      <4> QED
        BY <2>7, <4>3, <4>4
    <3>4. onHand' \in [Variants -> Int]
      <4>1. Plus(onHand, {r}) \in [Variants -> Int]
        BY CounterType DEF TypeOK
      <4> QED
        BY <2>7, <4>1 DEF PickUp, NotPickedUp, TypeOK
    <3> QED
      BY <2>7, <3>2, <3>3, <3>4 DEF PickUp, NotPickedUp, TypeOK
  <2>8. ASSUME NEW v \in Variants, NEW q \in Qtys,
               \/ SellDirect(v, q)
               \/ Restock(v, q)
               \/ \E reason \in WriteOffReasons : WriteOff(v, q, reason)
        PROVE  TypeOK'
    <3>1. q \in Int /\ -q \in Int
      BY BoundAssumption DEF Qtys
    <3>2. \A t \in {"direct", "restock", "adjustment"} :
             /\ MovedOne(v, t, q) \in [Variants -> [MovementTypes -> Int]]
             /\ MovedOne(v, t, -q) \in [Variants -> [MovementTypes -> Int]]
      <4> TAKE t \in {"direct", "restock", "adjustment"}
      <4>1. t \in MovementTypes
        BY DEF MovementTypes
      <4> QED
        BY <3>1, <4>1, MovedOneType
    <3>3. journal' \in [Variants -> [MovementTypes -> Int]]
      BY <2>8, <3>2 DEF SellDirect, Restock, WriteOff
    <3>4. onHand' \in [Variants -> Int]
      <4>1. \/ onHand' = [onHand EXCEPT ![v] = @ - q]
            \/ onHand' = [onHand EXCEPT ![v] = @ + q]
        BY <2>8 DEF SellDirect, Restock, WriteOff
      <4>2. onHand \in [Variants -> Int] /\ onHand[v] - q \in Int /\ onHand[v] + q \in Int
        BY <3>1 DEF TypeOK
      <4>3. CASE onHand' = [onHand EXCEPT ![v] = @ - q]
        BY <4>2, <4>3
      <4>4. CASE onHand' = [onHand EXCEPT ![v] = @ + q]
        BY <4>2, <4>4
      <4> QED
        BY <4>1, <4>3, <4>4
    <3>5. notified' \in [Variants -> BOOLEAN]
      BY <2>8 DEF SellDirect, Restock, WriteOff, TypeOK
    <3> QED
      BY <2>8, <3>3, <3>4, <3>5 DEF SellDirect, Restock, WriteOff, TypeOK
  <2>9. CASE UNCHANGED vars
    BY <2>9 DEF TypeOK
  <2> QED
    BY <2>1, <2>2, <2>3, <2>4, <2>5, <2>6, <2>7, <2>8, <2>9 DEF Next
<1> QED
  BY <1>1, <1>2, PTL DEF Spec
-----------------------------------------------------------------------------

\* SetStatus is a relabelling.
LEMMA SetStatusRelabels ==
    ASSUME TypeOK, NEW S \in SUBSET Reservations, NEW a, NEW b, a # b,
           S \subseteq With(a), a # "unused"
    PROVE  Relabels(resv, SetStatus(S, b), S, a, b)
<1> DEFINE new == SetStatus(S, b)
<1>1. \A r \in S : resv[r] \in Row
  BY DEF TypeOK, With, InStatus, Unused
<1>2. \A r \in S : /\ new[r].status = b
                   /\ new[r].variant = resv[r].variant
                   /\ new[r].qty = resv[r].qty
  BY <1>1 DEF SetStatus, Row
<1>3. \A r \in Reservations \ S : new[r] = resv[r]
  BY DEF SetStatus
<1> HIDE DEF new
<1>4. Relabels(resv, new, S, a, b)
  BY <1>2, <1>3 DEF With, Relabels
<1> QED
  BY <1>4 DEF new

\* What a movement adds to the journal, and what it leaves alone.
LEMMA MovedAt ==
    ASSUME TypeOK, NEW t \in MovementTypes, NEW d, NEW v \in Variants
    PROVE  /\ Moved(t, d)[v][t] = journal[v][t] + d[v]
           /\ \A u \in MovementTypes \ {t} : Moved(t, d)[v][u] = journal[v][u]
BY DEF TypeOK, Moved

\* Movements of no units leave the journal as it is.
LEMMA MovedNothing ==
    ASSUME TypeOK, NEW t \in MovementTypes, NEW d, \A v \in Variants : d[v] = 0
    PROVE  Moved(t, d) = journal
<1>1. ASSUME NEW v \in Variants PROVE Moved(t, d)[v] = journal[v]
  BY DEF Moved, TypeOK
<1> QED
  BY <1>1 DEF Moved, TypeOK

\* Movements on one variant alone.
LEMMA MovedAlone ==
    ASSUME TypeOK, NEW t \in MovementTypes, NEW v \in Variants, NEW q \in Int, NEW d,
           \A w \in Variants : d[w] = IF w = v THEN q ELSE 0
    PROVE  Moved(t, d) = MovedOne(v, t, q)
<1>1. ASSUME NEW w \in Variants PROVE Moved(t, d)[w] = MovedOne(v, t, q)[w]
  BY DEF Moved, MovedOne, TypeOK
<1> QED
  BY <1>1 DEF Moved, MovedOne, TypeOK

\* Movements are determined by their numbers.
LEMMA MovedSame ==
    ASSUME NEW t, NEW d, NEW e, \A v \in Variants : d[v] = e[v]
    PROVE  Moved(t, d) = Moved(t, e)
BY DEF Moved

LEMMA MovedOneAt ==
    ASSUME TypeOK, NEW t \in MovementTypes, NEW d, NEW v \in Variants
    PROVE  /\ MovedOne(v, t, d)[v][t] = journal[v][t] + d
           /\ \A u \in MovementTypes \ {t} : MovedOne(v, t, d)[v][u] = journal[v][u]
           /\ \A w \in Variants \ {v} : MovedOne(v, t, d)[w] = journal[w]
BY DEF TypeOK, MovedOne

-----------------------------------------------------------------------------

\* The four invariants, for one variant.
BalancedAt(v) ==
    /\ 0 <= reserved[v] /\ reserved[v] <= onHand[v]
    /\ reserved[v] = OpeningReserve[v] + UnitsIn(resv, "active", v)
    /\ onHand[v] + UnitsIn(resv, "shipped", v)
          = OpeningStock[v] + journal[v]["restock"] + journal[v]["sale"]
              + journal[v]["direct"] + journal[v]["adjustment"]
    /\ journal[v]["sale"] = -UnitsIn(resv, "fulfilled", v)

Balanced == \A v \in Variants : BalancedAt(v)

\* The numbers BalancedAt speaks of are integers.
LEMMA Numbers ==
    ASSUME TypeOK, NEW v \in Variants
    PROVE  /\ onHand[v] \in Int /\ reserved[v] \in Int
           /\ OpeningStock[v] \in Nat /\ OpeningReserve[v] \in Nat
           /\ \A t \in MovementTypes : journal[v][t] \in Int
           /\ \A rows, c : UnitsIn(rows, c, v) \in Nat
           /\ \A S \in SUBSET Reservations : \A rows : QtyOn(rows, S, v) \in Nat
<1>1. \A rows, c : InStatus(rows, c) \in SUBSET Reservations
  BY DEF InStatus
<1> QED
  BY <1>1, QtyType, OpeningAssumption DEF TypeOK, UnitsIn

\* reserve() earmarks only what is available.
LEMMA ReserveStep ==
    ASSUME TypeOK, NEW v \in Variants, BalancedAt(v),
           NEW S \in SUBSET With("unused"), NEW rows \in [S -> NewRows], Reserve(S, rows)
    PROVE  BalancedAt(v)'
<1>1. S \in SUBSET Reservations
  BY DEF With, InStatus
<1>2. \A r \in S : rows[r].status = "active"
  BY DEF NewRows
<1>3. Adds(resv, resv', rows, S, "unused", "active")
  BY <1>1, <1>2 DEF Reserve, Adds, With
<1>4. /\ UnitsIn(resv', "active", v) = UnitsIn(resv, "active", v) + QtyOn(rows, S, v)
      /\ UnitsIn(resv', "shipped", v) = UnitsIn(resv, "shipped", v)
      /\ UnitsIn(resv', "fulfilled", v) = UnitsIn(resv, "fulfilled", v)
  BY <1>3, AddsCounts
<1>5. \A t \in MovementTypes \ {"reserve"} : journal'[v][t] = journal[v][t]
  BY MovedAt DEF Reserve, MovementTypes
<1>6. /\ reserved'[v] = reserved[v] + QtyOn(rows, S, v)
      /\ onHand'[v] = onHand[v]
      /\ QtyOn(rows, S, v) > 0 => QtyOn(rows, S, v) <= onHand[v] - reserved[v]
  BY DEF Reserve, Covers, Available
<1> QED
  BY <1>1, <1>4, <1>5, <1>6, Numbers DEF BalancedAt, MovementTypes

\* release() gives back exactly what was earmarked.
LEMMA ReleaseStep ==
    ASSUME TypeOK, NEW v \in Variants, BalancedAt(v),
           NEW S \in SUBSET With("active"), Release(S)
    PROVE  BalancedAt(v)'
<1> DEFINE n == QtyOn(resv, S, v)
<1>1. S \in SUBSET Reservations
  BY DEF With, InStatus
<1>2. Relabels(resv, resv', S, "active", "released")
  BY <1>1, SetStatusRelabels DEF Release
<1>3. /\ UnitsIn(resv', "active", v) = UnitsIn(resv, "active", v) - n
      /\ UnitsIn(resv', "shipped", v) = UnitsIn(resv, "shipped", v)
      /\ UnitsIn(resv', "fulfilled", v) = UnitsIn(resv, "fulfilled", v)
  BY <1>2, RelabelCounts
<1>4. \A t \in MovementTypes \ {"release"} : journal'[v][t] = journal[v][t]
  BY MovedAt DEF Release, MovementTypes
<1>5. reserved'[v] = reserved[v] - n /\ onHand'[v] = onHand[v]
  BY DEF Release, Minus
<1>6. n \in Nat /\ UnitsIn(resv', "active", v) \in Nat
  BY <1>1, Numbers
<1> QED
  BY <1>3, <1>4, <1>5, <1>6, Numbers DEF BalancedAt, MovementTypes

\* fulfill() takes the units from both counters and books one sale.
LEMMA FulfillStep ==
    ASSUME TypeOK, NEW v \in Variants, BalancedAt(v),
           NEW S \in SUBSET With("active"), Fulfill(S)
    PROVE  BalancedAt(v)'
<1> DEFINE n == QtyOn(resv, S, v)
<1>1. S \in SUBSET Reservations
  BY DEF With, InStatus
<1>2. Relabels(resv, resv', S, "active", "fulfilled")
  BY <1>1, SetStatusRelabels DEF Fulfill
<1>3. /\ UnitsIn(resv', "active", v) = UnitsIn(resv, "active", v) - n
      /\ UnitsIn(resv', "shipped", v) = UnitsIn(resv, "shipped", v)
      /\ UnitsIn(resv', "fulfilled", v) = UnitsIn(resv, "fulfilled", v) + n
  BY <1>2, RelabelCounts
<1>4. \A t \in MovementTypes \ {"sale"} : journal'[v][t] = journal[v][t]
  BY MovedAt DEF Fulfill, MovementTypes
<1>5. journal'[v]["sale"] = journal[v]["sale"] - n
  <2>1. journal'[v]["sale"] = journal[v]["sale"] + (-n)
    BY MovedAt DEF Fulfill, MovementTypes
  <2> QED
    BY <1>1, <2>1, Numbers DEF MovementTypes
<1>6. reserved'[v] = reserved[v] - n /\ onHand'[v] = onHand[v] - n
  BY DEF Fulfill, Minus
<1>7. n \in Nat /\ UnitsIn(resv', "active", v) \in Nat
  BY <1>1, Numbers
<1>8. \A t \in MovementTypes : journal[v][t] \in Int
  BY Numbers
<1> HIDE DEF n
<1> QED
  BY <1>3, <1>4, <1>5, <1>6, <1>7, <1>8, Numbers DEF BalancedAt, MovementTypes

\* ship() moves the units from the shelf into transit.
LEMMA ShipStep ==
    ASSUME TypeOK, NEW v \in Variants, BalancedAt(v),
           NEW r \in Reservations, NEW ttn \in BOOLEAN, Ship(r, ttn)
    PROVE  BalancedAt(v)'
<1> DEFINE n == QtyOn(resv, {r}, v)
<1>1. resv[r] \in Row /\ resv[r].status = "active"
  BY DEF Ship, TypeOK, With, InStatus, Unused
<1>2. Relabels(resv, resv', {r}, "active", "shipped")
  <2>1. /\ resv'[r].status = "shipped"
        /\ resv'[r].variant = resv[r].variant
        /\ resv'[r].qty = resv[r].qty
        /\ \A x \in Reservations \ {r} : resv'[x] = resv[x]
    BY <1>1 DEF Ship, TypeOK, Row
  <2> QED
    BY <1>1, <2>1 DEF Relabels, InStatus
<1>3. /\ UnitsIn(resv', "active", v) = UnitsIn(resv, "active", v) - n
      /\ UnitsIn(resv', "shipped", v) = UnitsIn(resv, "shipped", v) + n
      /\ UnitsIn(resv', "fulfilled", v) = UnitsIn(resv, "fulfilled", v)
  BY <1>2, RelabelCounts
<1>4. /\ reserved'[v] = reserved[v] - n
      /\ onHand'[v] = onHand[v] - n
      /\ journal' = journal
  BY DEF Ship, Minus
<1> QED
  BY <1>3, <1>4, Numbers DEF BalancedAt, MovementTypes

\* update_ttn() changes neither status, variant nor qty.
LEMMA UpdateTtnStep ==
    ASSUME TypeOK, NEW v \in Variants, BalancedAt(v),
           NEW r \in Reservations, NEW ttn \in BOOLEAN, UpdateTtn(r, ttn)
    PROVE  BalancedAt(v)'
<1>1. resv[r] \in Row
  BY DEF UpdateTtn, TypeOK, With, InStatus, Unused
<1>2. \A x \in Reservations : /\ resv'[x].status = resv[x].status
                              /\ resv'[x].variant = resv[x].variant
                              /\ resv'[x].qty = resv[x].qty
  BY <1>1 DEF UpdateTtn, TypeOK, Row
<1>3. \A c : InStatus(resv', c) = InStatus(resv, c) /\ InStatus(resv, c) \in SUBSET Reservations
  BY <1>2 DEF InStatus
<1>4. \A c : UnitsIn(resv', c, v) = UnitsIn(resv, c, v)
  BY <1>2, <1>3, QtySame DEF UnitsIn
<1> QED
  BY <1>4 DEF BalancedAt, UpdateTtn

\* pick_up() books the sale of units already gone.
LEMMA PickUpStep ==
    ASSUME TypeOK, NEW v \in Variants, BalancedAt(v),
           NEW r \in Reservations, PickUp(r)
    PROVE  BalancedAt(v)'
<1> DEFINE n == QtyOn(resv, {r}, v)
<1>1. {r} \in SUBSET Reservations /\ {r} \subseteq With("shipped")
  BY DEF PickUp
<1>2. Relabels(resv, resv', {r}, "shipped", "fulfilled")
  BY <1>1, SetStatusRelabels DEF PickUp
<1>3. /\ UnitsIn(resv', "shipped", v) = UnitsIn(resv, "shipped", v) - n
      /\ UnitsIn(resv', "fulfilled", v) = UnitsIn(resv, "fulfilled", v) + n
      /\ UnitsIn(resv', "active", v) = UnitsIn(resv, "active", v)
  BY <1>2, RelabelCounts
<1>4. \A t \in MovementTypes \ {"sale"} : journal'[v][t] = journal[v][t]
  BY MovedAt DEF PickUp, MovementTypes
<1>5. journal'[v]["sale"] = journal[v]["sale"] - n
  <2> DEFINE d == [w \in Variants |-> -QtyOn(resv, {r}, w)]
  <2>0. journal' = Moved("sale", d) /\ "sale" \in MovementTypes
    BY DEF PickUp, MovementTypes
  <2>1. journal'[v]["sale"] = journal[v]["sale"] + d[v]
    <3> HIDE DEF d
    <3> QED BY <2>0, MovedAt
  <2> QED
    BY <1>1, <2>1, Numbers DEF MovementTypes
<1>6. reserved' = reserved /\ onHand' = onHand
  BY DEF PickUp
<1> QED
  BY <1>1, <1>3, <1>4, <1>5, <1>6, Numbers DEF BalancedAt, MovementTypes

\* not_picked_up() brings the units back from transit.
LEMMA NotPickedUpStep ==
    ASSUME TypeOK, NEW v \in Variants, BalancedAt(v),
           NEW r \in Reservations, NotPickedUp(r)
    PROVE  BalancedAt(v)'
<1> DEFINE n == QtyOn(resv, {r}, v)
<1>1. {r} \in SUBSET Reservations /\ {r} \subseteq With("shipped")
  BY DEF NotPickedUp
<1>2. Relabels(resv, resv', {r}, "shipped", "released")
  BY <1>1, SetStatusRelabels DEF NotPickedUp
<1>3. /\ UnitsIn(resv', "shipped", v) = UnitsIn(resv, "shipped", v) - n
      /\ UnitsIn(resv', "fulfilled", v) = UnitsIn(resv, "fulfilled", v)
      /\ UnitsIn(resv', "active", v) = UnitsIn(resv, "active", v)
  BY <1>2, RelabelCounts
<1>4. \A t \in MovementTypes \ {"ret"} : journal'[v][t] = journal[v][t]
  BY MovedAt DEF NotPickedUp, MovementTypes
<1>5. reserved' = reserved /\ onHand'[v] = onHand[v] + n
  BY DEF NotPickedUp, Plus
<1> QED
  BY <1>1, <1>3, <1>4, <1>5, Numbers DEF BalancedAt, MovementTypes

\* The expiry job releases too: its clamp at 0 never bites, its movements of
\* delta 0 do not count.
LEMMA ReleaseExpiredStep ==
    ASSUME TypeOK, NEW v \in Variants, BalancedAt(v),
           NEW S \in SUBSET Reservations, ReleaseExpired(S)
    PROVE  BalancedAt(v)'
<1> DEFINE n == QtyOn(resv, S, v)
<1>1. S \subseteq With("active")
  BY DEF ReleaseExpired
<1>2. Relabels(resv, resv', S, "active", "released")
  BY <1>1, SetStatusRelabels DEF ReleaseExpired
<1>3. /\ UnitsIn(resv', "active", v) = UnitsIn(resv, "active", v) - n
      /\ UnitsIn(resv', "shipped", v) = UnitsIn(resv, "shipped", v)
      /\ UnitsIn(resv', "fulfilled", v) = UnitsIn(resv, "fulfilled", v)
  BY <1>2, RelabelCounts
<1>4. n \in Nat /\ UnitsIn(resv', "active", v) \in Nat
  BY Numbers
<1>5. reserved[v] - n >= 0
  BY <1>3, <1>4, Numbers DEF BalancedAt
<1>6. reserved'[v] = reserved[v] - n
  BY <1>4, <1>5, Numbers DEF ReleaseExpired
<1>7. onHand' = onHand /\ journal' = journal
  BY DEF ReleaseExpired
<1> QED
  BY <1>3, <1>4, <1>6, <1>7, Numbers DEF BalancedAt, MovementTypes

\* The operations on a variant alone touch on_hand and one movement type.
LEMMA VariantStep ==
    ASSUME TypeOK, NEW v \in Variants, BalancedAt(v),
           NEW w \in Variants, NEW q \in Qtys,
           \/ SellDirect(w, q)
           \/ Restock(w, q)
           \/ \E reason \in WriteOffReasons : WriteOff(w, q, reason)
    PROVE  BalancedAt(v)'
<1>1. q \in Nat /\ q > 0
  BY BoundAssumption DEF Qtys
<1>2. resv' = resv /\ reserved' = reserved
  BY DEF SellDirect, Restock, WriteOff
<1>3. \A c : UnitsIn(resv, c, v)' = UnitsIn(resv, c, v)
  BY <1>2
<1>4. CASE w # v
  <2>1. journal'[v] = journal[v] /\ onHand'[v] = onHand[v]
    BY <1>4 DEF SellDirect, Restock, WriteOff, MovedOne, TypeOK
  <2> QED
    BY <1>2, <1>3, <2>1 DEF BalancedAt
<1>5. CASE w = v
  <2> DEFINE Took(t) == /\ q <= onHand[v] - reserved[v]
                        /\ onHand'[v] = onHand[v] - q
                        /\ journal' = MovedOne(v, t, -q)
  <2>1. CASE Took("direct")
    <3>1. "direct" \in MovementTypes
      BY DEF MovementTypes
    <3>2. /\ journal'[v]["direct"] = journal[v]["direct"] + (-q)
          /\ \A u \in MovementTypes \ {"direct"} : journal'[v][u] = journal[v][u]
      BY <2>1, <3>1, MovedOneAt
    <3>3. \A u \in MovementTypes : journal[v][u] \in Int
      BY Numbers
    <3>4. journal'[v]["direct"] = journal[v]["direct"] - q
      BY <1>1, <3>1, <3>2, <3>3
    <3> QED
      BY <1>1, <1>2, <1>3, <2>1, <3>2, <3>3, <3>4, Numbers DEF BalancedAt, MovementTypes
  <2>2. CASE Took("adjustment")
    <3>1. "adjustment" \in MovementTypes
      BY DEF MovementTypes
    <3>2. /\ journal'[v]["adjustment"] = journal[v]["adjustment"] + (-q)
          /\ \A u \in MovementTypes \ {"adjustment"} : journal'[v][u] = journal[v][u]
      BY <2>2, <3>1, MovedOneAt
    <3>3. \A u \in MovementTypes : journal[v][u] \in Int
      BY Numbers
    <3>4. journal'[v]["adjustment"] = journal[v]["adjustment"] - q
      BY <1>1, <3>1, <3>2, <3>3
    <3> QED
      BY <1>1, <1>2, <1>3, <2>2, <3>2, <3>3, <3>4, Numbers DEF BalancedAt, MovementTypes
  <2>3. CASE Restock(w, q)
    <3>1. "restock" \in MovementTypes
      BY DEF MovementTypes
    <3>2. /\ journal'[v]["restock"] = journal[v]["restock"] + q
          /\ \A u \in MovementTypes \ {"restock"} : journal'[v][u] = journal[v][u]
      BY <1>5, <2>3, <3>1, MovedOneAt DEF Restock
    <3>3. onHand'[v] = onHand[v] + q
      BY <1>5, <2>3 DEF Restock, TypeOK
    <3> QED
      BY <1>1, <1>2, <1>3, <3>2, <3>3, Numbers DEF BalancedAt, MovementTypes
  <2>4. Took("direct") \/ Took("adjustment") \/ Restock(w, q)
    BY <1>5 DEF SellDirect, WriteOff, Available, TypeOK
  <2> QED
    BY <2>1, <2>2, <2>3, <2>4
<1> QED
  BY <1>4, <1>5

-----------------------------------------------------------------------------

\* The inductive invariant: on every variant the counters, the reservations and
\* the journal agree.
LEMMA BalancedAlways == Spec => [](TypeOK /\ Balanced)
<1>1. Init => Balanced
  <2> SUFFICES ASSUME Init, NEW v \in Variants PROVE BalancedAt(v)
    BY DEF Balanced
  <2>1. \A c \in Statuses : InStatus(resv, c) = {}
    BY DEF Init, InStatus, Unused, Statuses
  <2>2. \A c \in Statuses : UnitsIn(resv, c, v) = 0
    BY <2>1, QtyNone DEF UnitsIn
  <2> QED
    BY <2>2, OpeningAssumption DEF Init, BalancedAt, Statuses, MovementTypes
<1>2. TypeOK /\ Balanced /\ [Next]_vars => Balanced'
  <2> SUFFICES ASSUME TypeOK, [Next]_vars, NEW v \in Variants, BalancedAt(v)
               PROVE  BalancedAt(v)'
    BY DEF Balanced
  <2>1. CASE ReserveSome
    BY <2>1, ReserveStep DEF ReserveSome
  <2>2. CASE ReleaseSome
    BY <2>2, ReleaseStep DEF ReleaseSome
  <2>3. CASE FulfillSome
    BY <2>3, FulfillStep DEF FulfillSome
  <2>4. CASE ReleaseExpiredSome
    <3>1. PICK S \in SUBSET {r \in Reservations : resv[r].deadline} : ReleaseExpired(S)
      BY <2>4 DEF ReleaseExpiredSome
    <3>2. S \in SUBSET Reservations
      OBVIOUS
    <3> QED
      BY <3>1, <3>2, ReleaseExpiredStep
  <2>5. CASE LowStockScan
    BY <2>5 DEF LowStockScan, BalancedAt
  <2>6. CASE \E r \in Reservations : \E ttn \in BOOLEAN : Ship(r, ttn) \/ UpdateTtn(r, ttn)
    BY <2>6, ShipStep, UpdateTtnStep
  <2>7. CASE \E r \in Reservations : PickUp(r) \/ NotPickedUp(r)
    BY <2>7, PickUpStep, NotPickedUpStep
  <2>8. CASE \E w \in Variants, q \in Qtys :
                \/ SellDirect(w, q)
                \/ Restock(w, q)
                \/ \E reason \in WriteOffReasons : WriteOff(w, q, reason)
    BY <2>8, VariantStep
  <2>9. CASE UNCHANGED vars
    BY <2>9 DEF vars, BalancedAt
  <2> QED
    BY <2>1, <2>2, <2>3, <2>4, <2>5, <2>6, <2>7, <2>8, <2>9 DEF Next
<1> QED
  BY <1>1, <1>2, TypeCorrect, PTL DEF Spec

\* README, invariant 4: available is never negative and never above on_hand.
THEOREM NeverOversold == Spec => []NoOversell
<1>1. Balanced => NoOversell
  BY DEF Balanced, BalancedAt, NoOversell
<1> QED
  BY <1>1, BalancedAlways, PTL

\* reserved is the number of units active reservations hold.
THEOREM EarmarksAddUp == Spec => []ReservedIsEarmarked
<1>1. Balanced => ReservedIsEarmarked
  BY DEF Balanced, BalancedAt, ReservedIsEarmarked
<1> QED
  BY <1>1, BalancedAlways, PTL

\* The journal accounts for every unit on the shelf or in transit.
THEOREM StockAddsUp == Spec => []StockConserved
<1>1. Balanced => StockConserved
  BY DEF Balanced, BalancedAt, StockConserved
<1> QED
  BY <1>1, BalancedAlways, PTL

\* Every unit sold through a reservation is booked exactly once.
THEOREM SalesAddUp == Spec => []SalesMatchFulfilled
<1>1. Balanced => SalesMatchFulfilled
  BY DEF Balanced, BalancedAt, SalesMatchFulfilled
<1> QED
  BY <1>1, BalancedAlways, PTL

\* The defensive check of fulfill() never fires, for any set of active
\* reservations at once.
THEOREM FulfillNeverRefused == Spec => []ActiveCanBeFulfilled
<1>1. TypeOK /\ Balanced => ActiveCanBeFulfilled
  <2> SUFFICES ASSUME TypeOK, NEW v \in Variants, BalancedAt(v)
               PROVE  UnitsIn(resv, "active", v) <= onHand[v]
    BY DEF Balanced, ActiveCanBeFulfilled
  <2> QED
    BY Numbers DEF BalancedAt
<1> QED
  BY <1>1, BalancedAlways, PTL

\* What a step may do to a settled row.
Final(r) ==
    /\ resv[r].status \in {"fulfilled", "released"} => resv'[r] = resv[r]
    /\ resv[r].status = "shipped" => resv'[r].status # "active"

LEMMA StepIsFinal ==
    ASSUME TypeOK, Next, NEW r \in Reservations
    PROVE  Final(r)
<1> USE DEF Final
<1>1. ASSUME NEW S, NEW a \in {"active", "shipped"}, NEW b \in {"fulfilled", "released"},
             S \subseteq With(a), resv' = SetStatus(S, b)
      PROVE  Final(r)
  <2>1. CASE r \in S
    <3>1. resv[r].status = a /\ resv[r] \in Row
      BY <1>1, <2>1 DEF With, InStatus, TypeOK, Unused
    <3>2. resv'[r].status = b
      BY <1>1, <2>1, <3>1 DEF SetStatus, Row
    <3> QED
      BY <3>1, <3>2
  <2>2. CASE r \notin S
    BY <1>1, <2>2 DEF SetStatus
  <2> QED
    BY <2>1, <2>2
<1>2. CASE ReserveSome
  BY <1>2 DEF ReserveSome, Reserve, With, InStatus
<1>3. CASE ReleaseSome \/ FulfillSome \/ ReleaseExpiredSome
  <2>1. \E S, b : /\ S \subseteq With("active") /\ b \in {"fulfilled", "released"}
                  /\ resv' = SetStatus(S, b)
    BY <1>3 DEF ReleaseSome, FulfillSome, ReleaseExpiredSome, Release, Fulfill,
                ReleaseExpired, With, InStatus
  <2> QED
    BY <1>1, <2>1
<1>4. CASE \E x \in Reservations, ttn \in BOOLEAN : Ship(x, ttn) \/ UpdateTtn(x, ttn)
  <2>1. PICK x \in Reservations, ttn \in BOOLEAN : Ship(x, ttn) \/ UpdateTtn(x, ttn)
    BY <1>4
  <2>2. resv[x].status \in {"active", "shipped"} /\ resv[x] \in Row
    BY <2>1 DEF Ship, UpdateTtn, With, InStatus, TypeOK, Unused
  <2>3. CASE x = r
    BY <2>1, <2>2, <2>3 DEF Ship, UpdateTtn, With, InStatus, TypeOK, Row
  <2>4. CASE x # r
    BY <2>1, <2>4 DEF Ship, UpdateTtn, TypeOK
  <2> QED
    BY <2>3, <2>4
<1>5. CASE \E x \in Reservations : PickUp(x) \/ NotPickedUp(x)
  <2>1. PICK x \in Reservations : PickUp(x) \/ NotPickedUp(x)
    BY <1>5
  <2>2. {x} \subseteq With("shipped")
    BY <2>1 DEF PickUp, NotPickedUp
  <2>3. resv' = SetStatus({x}, "fulfilled") \/ resv' = SetStatus({x}, "released")
    BY <2>1 DEF PickUp, NotPickedUp
  <2> QED
    BY <1>1, <2>2, <2>3
<1>6. CASE resv' = resv
  BY <1>6
<1>7. \/ ReserveSome \/ ReleaseSome \/ FulfillSome \/ ReleaseExpiredSome
      \/ \E x \in Reservations, ttn \in BOOLEAN : Ship(x, ttn) \/ UpdateTtn(x, ttn)
      \/ \E x \in Reservations : PickUp(x) \/ NotPickedUp(x)
      \/ resv' = resv
  BY DEF Next, LowStockScan, SellDirect, Restock, WriteOff
<1> QED
  BY <1>2, <1>3, <1>4, <1>5, <1>6, <1>7

\* A reservation that was sold or released is never written again, and a
\* shipped one never turns active.
THEOREM SettlementIsFinal == Spec => SettledForGood
<1>1. TypeOK /\ [Next]_vars => [\A r \in Reservations : Final(r)]_vars
  BY StepIsFinal
<1> QED
  BY <1>1, TypeCorrect, PTL DEF Spec, SettledForGood, Final

-----------------------------------------------------------------------------
(* Orders.                                                                 *)

\* A step of the orders is a step of the stock service, or leaves it alone.
LEMMA OrderStep == [OrderNext]_orderVars => [Next]_vars
<1> SUFFICES ASSUME OrderNext PROVE [Next]_vars
  BY DEF orderVars, vars
<1>1. ASSUME NEW o \in Orders, NEW S \in SUBSET With("unused"),
             NEW rows \in [S -> OrderRows(o)], Place(o, S, rows)
      PROVE  Next
  <2>1. OrderRows(o) \subseteq NewRows
    BY DEF OrderRows
  <2>2. rows \in [S -> NewRows]
    BY <2>1
  <2> QED
    BY <1>1, <2>2 DEF Place, Next, ReserveSome
<1>2. ASSUME NEW o \in Orders, Confirm(o) \/ Cancel(o)
      PROVE  [Next]_vars
  <2>1. Held(o) \in SUBSET With("active")
    BY DEF Held
  <2> QED
    BY <1>2, <2>1 DEF Confirm, Cancel, Next, FulfillSome, ReleaseSome
<1>3. ASSUME NEW r \in Reservations, NEW v \in Variants, NEW q \in Qtys, NEW d \in BOOLEAN,
             ReserveManually(r, v, q, d)
      PROVE  Next
  <2> DEFINE rows == [x \in {r} |-> NewRow(v, q, NoOrder, d)]
  <2>1. {r} \in SUBSET With("unused") /\ Reserve({r}, rows)
    BY <1>3 DEF ReserveManually, Reserve
  <2>2. rows \in [{r} -> NewRows]
    BY DEF NewRows, NewRow
  <2> HIDE DEF rows
  <2> QED
    BY <2>1, <2>2 DEF Next, ReserveSome
<1>4. ASSUME NEW r \in Reservations, Release({r}) \/ Fulfill({r})
      PROVE  Next
  <2>1. {r} \in SUBSET With("active")
    BY <1>4 DEF Release, Fulfill
  <2> QED
    BY <1>4, <2>1 DEF Next, ReleaseSome, FulfillSome
<1>5. CASE PlaceSome
  BY <1>1, <1>5 DEF PlaceSome
<1>6. CASE StockStep
  <2>1. CASE \E r \in Reservations :
                \/ \E v \in Variants, q \in Qtys, d \in BOOLEAN : ReserveManually(r, v, q, d)
                \/ Release({r})
                \/ Fulfill({r})
    BY <1>3, <1>4, <2>1
  <2>2. CASE \E r \in Reservations :
                \/ \E ttn \in BOOLEAN : Ship(r, ttn) \/ UpdateTtn(r, ttn)
                \/ PickUp(r)
                \/ NotPickedUp(r)
    BY <2>2 DEF Next
  <2>3. CASE \E v \in Variants, q \in Qtys :
                \/ SellDirect(v, q)
                \/ Restock(v, q)
                \/ \E reason \in WriteOffReasons : WriteOff(v, q, reason)
    BY <2>3 DEF Next
  <2>4. CASE ReleaseExpiredSome \/ LowStockScan
    BY <2>4 DEF Next
  <2> QED
    BY <1>6, <2>1, <2>2, <2>3, <2>4 DEF StockStep
<1> QED
  BY <1>2, <1>5, <1>6 DEF OrderNext

\* Orders reach the stock only through the stock service (README, invariant 3).
THEOREM OrdersImplementInventory == OrderSpec => ImplementsInventory
<1>1. OrderInit => Init
  BY DEF OrderInit
<1> QED
  BY <1>1, OrderStep, PTL DEF OrderSpec, Spec, ImplementsInventory

\* What is proved of the stock service holds under orders as well.
THEOREM OrdersNeverOversell == OrderSpec => [](TypeOK /\ NoOversell)
BY OrdersImplementInventory, TypeCorrect, NeverOversold, PTL DEF ImplementsInventory

-----------------------------------------------------------------------------

\* Who owns a row: the order of a row is written once, by the transaction that
\* creates the row, and only Place creates rows of an order.
LEMMA RowOwners ==
    ASSUME TypeOK, OrderNext, NEW r \in Reservations
    PROVE  \/ resv'[r].order = resv[r].order
           \/ /\ resv[r].status = "unused"
              /\ \/ resv'[r].order = NoOrder
                 \/ \E o \in Orders : /\ order[o] = "none"
                                      /\ order' = [order EXCEPT ![o] = "pending"]
                                      /\ resv'[r].order = o
<1>1. ASSUME NEW S, NEW b, S \subseteq Reservations, resv' = SetStatus(S, b),
             \A x \in S : resv[x] \in Row
      PROVE  resv'[r].order = resv[r].order
  BY <1>1 DEF SetStatus, Row
<1>2. \A S : S \subseteq With("active") \/ S \subseteq With("shipped")
                => S \subseteq Reservations /\ \A x \in S : resv[x] \in Row
  BY DEF With, InStatus, TypeOK, Unused
<1>3. CASE PlaceSome
  <2>1. PICK o \in Orders, S \in SUBSET With("unused") :
            \E rows \in [S -> OrderRows(o)] : Place(o, S, rows)
    BY <1>3 DEF PlaceSome
  <2>2. PICK rows \in [S -> OrderRows(o)] : Place(o, S, rows)
    BY <2>1
  <2>3. CASE r \in S
    <3>1. rows[r] \in OrderRows(o)
      BY <2>3
    <3>2. rows[r].order = o
      BY <3>1 DEF OrderRows
    <3>3. resv'[r] = rows[r] /\ resv[r].status = "unused"
      BY <2>2, <2>3 DEF Place, Reserve, With, InStatus
    <3> QED
      BY <2>2, <3>2, <3>3 DEF Place
  <2>4. CASE r \notin S
    BY <2>2, <2>4 DEF Place, Reserve
  <2> QED
    BY <2>3, <2>4
<1>4. CASE \E o \in Orders : Confirm(o) \/ Cancel(o)
  <2>1. PICK o \in Orders : Confirm(o) \/ Cancel(o)
    BY <1>4
  <2>2. Held(o) \subseteq With("active")
    BY DEF Held
  <2>3. \/ resv' = resv
        \/ resv' = SetStatus(Held(o), "fulfilled")
        \/ resv' = SetStatus(Held(o), "released")
    BY <2>1 DEF Confirm, Cancel, Fulfill, Release, vars
  <2> QED
    BY <1>1, <1>2, <2>2, <2>3
<1>5. CASE StockStep
  <2>1. CASE \E x \in Reservations, v \in Variants, q \in Qtys, d \in BOOLEAN :
                ReserveManually(x, v, q, d)
    <3>1. PICK x \in Reservations, v \in Variants, q \in Qtys, d \in BOOLEAN :
              ReserveManually(x, v, q, d)
      BY <2>1
    <3>2. CASE r = x
      <4>1. resv[r].status = "unused"
        BY <3>1, <3>2 DEF ReserveManually, Reserve, With, InStatus
      <4>2. resv'[r] = NewRow(v, q, NoOrder, d)
        BY <3>1, <3>2 DEF ReserveManually, Reserve
      <4> QED
        BY <4>1, <4>2 DEF NewRow
    <3>3. CASE r # x
      BY <3>1, <3>3 DEF ReserveManually, Reserve
    <3> QED
      BY <3>2, <3>3
  <2>2. CASE \E S, b : /\ S \subseteq With("active") \/ S \subseteq With("shipped")
                       /\ resv' = SetStatus(S, b)
    BY <1>1, <1>2, <2>2
  <2>3. CASE \E x \in Reservations, ttn \in BOOLEAN : Ship(x, ttn) \/ UpdateTtn(x, ttn)
    <3>1. PICK x \in Reservations, ttn \in BOOLEAN : Ship(x, ttn) \/ UpdateTtn(x, ttn)
      BY <2>3
    <3>2. resv[x] \in Row
      BY <3>1, <1>2 DEF Ship, UpdateTtn, With, InStatus, TypeOK, Unused
    <3>3. CASE x = r
      BY <3>1, <3>2, <3>3 DEF Ship, UpdateTtn, TypeOK, Row
    <3>4. CASE x # r
      BY <3>1, <3>4 DEF Ship, UpdateTtn, TypeOK
    <3> QED
      BY <3>3, <3>4
  <2>4. CASE resv' = resv
    BY <2>4
  <2>5. ASSUME NEW x \in Reservations,
               Release({x}) \/ Fulfill({x}) \/ PickUp(x) \/ NotPickedUp(x)
        PROVE  \E S, b : /\ S \subseteq With("active") \/ S \subseteq With("shipped")
                         /\ resv' = SetStatus(S, b)
    BY <2>5 DEF Release, Fulfill, PickUp, NotPickedUp
  <2>6. ASSUME ReleaseExpiredSome
        PROVE  \E S, b : /\ S \subseteq With("active") \/ S \subseteq With("shipped")
                         /\ resv' = SetStatus(S, b)
    BY <2>6 DEF ReleaseExpiredSome, ReleaseExpired
  <2>7. ASSUME \/ LowStockScan
               \/ \E v \in Variants, q \in Qtys :
                     \/ SellDirect(v, q)
                     \/ Restock(v, q)
                     \/ \E reason \in WriteOffReasons : WriteOff(v, q, reason)
        PROVE  resv' = resv
    BY <2>7 DEF LowStockScan, SellDirect, Restock, WriteOff
  <2> QED
    BY <1>5, <2>1, <2>2, <2>3, <2>4, <2>5, <2>6, <2>7 DEF StockStep
<1> QED
  BY <1>3, <1>4, <1>5 DEF OrderNext

\* A key buys its reservations once: the rows of an order that exists stay the
\* same set for ever.
THEOREM KeyBuysOnce == OrderSpec => PlacedOnce
<1> DEFINE Kept == \A o \in Orders : order[o] # "none" => RowsOf(o)' = RowsOf(o)
<1>1. TypeOK /\ [OrderNext]_orderVars => [Kept]_orderVars
  <2> SUFFICES ASSUME TypeOK, OrderNext, NEW o \in Orders, order[o] # "none",
                      NEW r \in Reservations
               PROVE  resv'[r].order = o <=> resv[r].order = o
    BY DEF RowsOf
  <2>1. resv[r].status = "unused" => resv[r].order = NoOrder
    BY DEF TypeOK, Row, Statuses, Unused
  <2> QED
    BY <2>1, RowOwners, NoneAssumption
<1>2. OrderSpec => []TypeOK
  BY OrdersNeverOversell, PTL
<1> QED
  BY <1>1, <1>2, PTL DEF OrderSpec, PlacedOnce

-----------------------------------------------------------------------------

\* The types, the status of the orders included.
THEOREM OrdersTyped == OrderSpec => []OrderTypeOK
<1> DEFINE OrderOK == order \in [Orders -> OrderStatuses]
<1>1. OrderInit => OrderOK
  BY DEF OrderInit, OrderStatuses
<1>2. OrderOK /\ [OrderNext]_orderVars => OrderOK'
  BY DEF OrderNext, PlaceSome, Place, Confirm, Cancel, StockStep, OrderStatuses, orderVars
<1> HIDE DEF OrderOK
<1>3. OrderSpec => []OrderOK
  BY <1>1, <1>2, PTL DEF OrderSpec
<1> QED
  BY <1>3, OrdersNeverOversell, PTL DEF OrderTypeOK, OrderOK

\* Only a step that creates the row makes a reservation active.
LEMMA ActiveBefore ==
    ASSUME TypeOK, OrderNext, NEW r \in Reservations, resv'[r].status = "active"
    PROVE  resv[r].status \in {"active", "unused"}
<1>1. resv[r].status \in Statuses \cup {"unused"}
  BY DEF TypeOK, Row, Unused
<1>2. CASE UNCHANGED vars
  BY <1>2, <1>1 DEF vars, Statuses, TypeOK, Row, Unused
<1>3. CASE Next
  BY <1>3, <1>1, StepIsFinal DEF Final, Statuses
<1> QED
  BY <1>2, <1>3, OrderStep

\* A decision takes everything that the order still holds.
LEMMA DecisionTakesAll ==
    ASSUME OrderTypeOK, OrderNext, NEW o \in Orders,
           order[o] \notin {"fulfilled", "canceled"},
           order'[o] \in {"fulfilled", "canceled"},
           NEW r \in Held(o)
    PROVE  resv'[r].status # "active"
<1>1. Confirm(o) \/ Cancel(o)
  BY DEF OrderNext, PlaceSome, Place, Confirm, Cancel, StockStep, OrderTypeOK, OrderStatuses
<1>2. r \in Reservations /\ resv[r] \in Row /\ Held(o) # {}
  BY DEF Held, With, InStatus, OrderTypeOK, TypeOK, Unused
<1>3. resv' = SetStatus(Held(o), "fulfilled") \/ resv' = SetStatus(Held(o), "released")
  BY <1>1, <1>2 DEF Confirm, Cancel, Fulfill, Release
<1> QED
  BY <1>2, <1>3 DEF SetStatus, Row

\* An order decided on holds nothing, whatever happened to its reservations one
\* by one: it took them all, and only an order that does not exist yet gets new ones.
THEOREM DecidedHoldsNothing == OrderSpec => []SettledOrderHoldsNothing
<1>1. OrderInit => SettledOrderHoldsNothing
  BY DEF OrderInit, SettledOrderHoldsNothing
<1>2. ASSUME OrderTypeOK, SettledOrderHoldsNothing, OrderNext
      PROVE  SettledOrderHoldsNothing'
  <2> SUFFICES ASSUME NEW o \in Orders, order'[o] \in {"fulfilled", "canceled"},
                      NEW r \in Reservations, resv'[r].status = "active", resv'[r].order = o
               PROVE  FALSE
    BY DEF SettledOrderHoldsNothing, Held, With, InStatus
  <2>1. resv[r].status \in {"active", "unused"}
    BY <1>2, ActiveBefore DEF OrderTypeOK
  <2>2. CASE resv'[r].order = resv[r].order
    <3>1. resv[r].status = "active"
      BY <1>2, <2>1, <2>2, NoneAssumption DEF OrderTypeOK, TypeOK, Row, Statuses, Unused
    <3>2. r \in Held(o)
      BY <2>2, <3>1 DEF Held, With, InStatus
    <3>3. order[o] \notin {"fulfilled", "canceled"}
      BY <1>2, <3>2 DEF SettledOrderHoldsNothing
    <3> QED
      BY <1>2, <3>2, <3>3, DecisionTakesAll
  <2>3. CASE resv'[r].order # resv[r].order
    <3>1. PICK p \in Orders : /\ order' = [order EXCEPT ![p] = "pending"]
                              /\ resv'[r].order = p
      BY <1>2, <2>3, RowOwners, NoneAssumption DEF OrderTypeOK
    <3> QED
      BY <1>2, <3>1 DEF OrderTypeOK
  <2> QED
    BY <2>2, <2>3
<1>3. SettledOrderHoldsNothing /\ UNCHANGED orderVars => SettledOrderHoldsNothing'
  BY DEF SettledOrderHoldsNothing, Held, With, InStatus, orderVars
<1> QED
  BY <1>1, <1>2, <1>3, OrdersTyped, PTL DEF OrderSpec
=============================================================================
