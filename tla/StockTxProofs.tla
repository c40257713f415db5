--------------------------- MODULE StockTxProofs ---------------------------
(***************************************************************************)
(* Proofs about StockTx, for any sessions, rows and quantities.            *)
(*                                                                         *)
(* The first part holds whatever requests overlap: TxInv says where a      *)
(* request of each kind may be, which rows its next statement can rely on, *)
(* and what the lock of an order's key protects.                           *)
(*                                                                         *)
(* The second part is the serializability of the endpoints.  SerialInv     *)
(* says what the copies of a session are worth: each is the row as it is   *)
(* stored, with the units of the session taken.  Hence a commit, which     *)
(* writes the copies, is the step of Orders that the request stands for,   *)
(* and everything proved of Orders and Inventory holds here.               *)
(***************************************************************************)
EXTENDS StockTx, StockProofs

-----------------------------------------------------------------------------
(* What holds of the sessions whatever overlaps.                           *)

\* Where a request of each kind may be, and in which call.
Programmed(T) ==
    \/ T = Resting
    \/ /\ T.kind = "api" /\ T.order = NoOrder
       /\ \/ T.pc = "call" /\ T.call \in ReservationCalls
          \/ /\ T.pc \in {"variant", "commit"}
             /\ T.call \in ReservationCalls \cup VariantCalls \cup {"reserve"}
    \/ /\ T.kind = "place" /\ T.order \in Orders /\ T.call = "reserve"
       /\ T.pc \in {"insert", "preload", "variant", "commit"}
    \/ /\ T.order \in Orders /\ T.pc \in {"list", "call", "variant", "commit"}
       /\ \/ T.kind = "confirm" /\ T.call = "fulfill"
          \/ T.kind = "cancel" /\ T.call = "release"
    \/ /\ T.kind = "ttn" /\ T.order = NoOrder /\ T.call = "ship" /\ T.ttn
       /\ T.pc \in {"preload", "call", "variant", "commit"}
    \/ /\ T.kind = "np" /\ T.order = NoOrder
       /\ \/ T.pc \in {"answer", "show"} /\ T.call = "none"
          \/ /\ T.pc \in {"call", "variant", "commit"}
             /\ T.call \in {"pickUp", "notPickedUp"}
    \/ /\ T.kind = "expire" /\ T.order = NoOrder /\ T.call = "expire" /\ T.pc = "flush"
    \/ /\ T.kind = "scan" /\ T.order = NoOrder /\ T.call = "scan" /\ T.pc = "flush"

\* The rows a request works on exist, those it makes do not.
RowsKnown(T) ==
    /\ T.call = "reserve" =>
          /\ T.todo \cup T.done \subseteq DOMAIN T.rseen
          /\ \A r \in DOMAIN T.rseen :
                resv[r] = Unused /\ T.rseen[r] \in NewRows /\ T.rseen[r].order = T.order
    /\ T.call # "reserve" =>
          \A r \in T.todo \cup T.done : resv[r].status # "unused"
    /\ T.call \in VariantCalls \cup {"scan"} => T.todo = {} /\ T.done = {}
    /\ T.pc \in {"preload", "flush"} => T.todo \subseteq DOMAIN T.rseen

\* What the next statement needs of the item.
ItemKnown(T) ==
    /\ T.pc = "variant" =>
          /\ T.item.variant \in Variants
          /\ IF T.call \in VariantCalls THEN T.item.r = NoReservation
             ELSE /\ T.item.r \in Reservations
                  /\ T.call = "reserve" => T.item.r \in DOMAIN T.rseen
                  /\ T.call # "reserve" => resv[T.item.r].status # "unused"
    /\ T.kind = "np" /\ T.pc \in {"commit", "show"} => T.item.variant \in Variants
    /\ T.kind = "api" =>
          /\ \A a, b \in T.todo : a = b
          /\ T.pc = "variant" => T.todo \subseteq {T.item.r}

CopiesKnown(T) ==
    /\ T.held \subseteq DOMAIN T.vseen
    /\ \A v \in Variants, c \in Columns : <<v, c>> \in T.wrote => v \in DOMAIN T.vseen

OrderKnown(s, T) ==
    /\ T.kind = "place" /\ T.pc # "insert" =>
          lock[T.order] = s /\ order[T.order] = "none"
    /\ T.kind \in {"confirm", "cancel"} =>
          /\ order[T.order] # "none"
          /\ T.pc # "list" => Held(T.order) \subseteq T.todo \cup T.done
          /\ T.pc = "commit" => T.todo = {}

Sound(s, T) ==
    /\ Programmed(T)
    /\ RowsKnown(T)
    /\ ItemKnown(T)
    /\ CopiesKnown(T)
    /\ OrderKnown(s, T)

\* Two sessions never make the same row.
RowsApart ==
    \A s, t \in Sessions :
        s # t /\ tx[s].call = "reserve" /\ tx[t].call = "reserve"
            => DOMAIN tx[s].rseen \cap DOMAIN tx[t].rseen = {}

TxInv ==
    /\ TxTypeOK
    /\ \A s \in Sessions : Sound(s, tx[s])
    /\ RowsApart

-----------------------------------------------------------------------------
(* Operators.                                                              *)

\* Loading a row leaves the other objects of the identity map alone.
LEMMA LoadedIs ==
    ASSUME NEW seen, NEW x, NEW copy
    PROVE  /\ DOMAIN Loaded(seen, x, copy) = DOMAIN seen \cup {x}
           /\ Loaded(seen, x, copy)[x] = copy
           /\ \A y \in DOMAIN seen \ {x} : Loaded(seen, x, copy)[y] = seen[y]
BY DEF Loaded

\* Its objects keep their type.
LEMMA LoadedType ==
    ASSUME NEW S, NEW D, NEW E \in SUBSET D, NEW seen \in [E -> S], NEW x \in D, NEW copy \in S
    PROVE  Loaded(seen, x, copy) \in [E \cup {x} -> S] /\ E \cup {x} \in SUBSET D
BY DEF Loaded

\* A session at rest has loaded nothing.
LEMMA RestingType == Resting \in Session({}, {})
<1>1. <<>> \in [{} -> Copy] /\ <<>> \in [{} -> Row]
  OBVIOUS
<1>2. [v \in Variants |-> 0] \in [Variants -> Nat]
  OBVIOUS
<1>3. NoItem \in Item
  BY BoundAssumption DEF NoItem, Item
<1> QED
  BY <1>1, <1>2, <1>3 DEF Resting, Session, Statements

-----------------------------------------------------------------------------
(* Steps that write nothing to the database. *)

\* What such a step of session s does to the others.
Quiet(s) ==
    /\ UNCHANGED dbVars
    /\ lock' \in [LockRows -> Sessions \cup {Free}]
    /\ \A t \in Sessions \ {s} : \A x \in LockRows : lock[x] = t <=> lock'[x] = t
    /\ DOMAIN tx' = Sessions
    /\ \A t \in Sessions \ {s} : tx'[t] = tx[t]
    /\ \E V \in SUBSET Variants, R \in SUBSET Reservations : tx'[s] \in Session(V, R)
    /\ tx'[s].call = "reserve" =>
          \A r \in DOMAIN tx'[s].rseen :
             \/ tx[s].call = "reserve" /\ r \in DOMAIN tx[s].rseen
             \/ \A t \in Sessions : r \notin DOMAIN tx[t].rseen

\* Such a step keeps the other sessions sound.
LEMMA QuietKeeps ==
    ASSUME TxInv, NEW s \in Sessions, Quiet(s), Sound(s, tx[s])'
    PROVE  TxInv'
<1>1. TxTypeOK'
  BY DEF TxInv, TxTypeOK, Quiet, dbVars, OrderTypeOK, TypeOK
<1>2. RowsApart'
  BY DEF TxInv, RowsApart, Quiet
<1>3. ASSUME NEW t \in Sessions PROVE Sound(t, tx[t])'
  <2>1. CASE t = s
    BY <2>1
  <2>2. CASE t # s
    <3>1. Sound(t, tx[t]) /\ tx'[t] = tx[t]
      BY <2>2 DEF TxInv, Quiet
    <3>2. Programmed(tx[t])' /\ CopiesKnown(tx[t])'
      BY <3>1 DEF Sound, Programmed, CopiesKnown
    <3>3. RowsKnown(tx[t])' /\ ItemKnown(tx[t])'
      BY <3>1 DEF Sound, RowsKnown, ItemKnown, Quiet, dbVars
    <3>4. OrderKnown(t, tx[t])'
      BY <2>2, <3>1 DEF Sound, OrderKnown, Quiet, dbVars, LockRows, Programmed, Resting, Held, With, InStatus
    <3> QED
      BY <3>2, <3>3, <3>4 DEF Sound
  <2> QED
    BY <2>1, <2>2
<1> QED
  BY <1>1, <1>2, <1>3 DEF TxInv

\* A session that gives up is at rest.
LEMMA RollbackKeeps ==
    ASSUME TxInv, NEW s \in Sessions, Rollback(s)
    PROVE  TxInv'
<1>1. DOMAIN tx = Sessions /\ lock \in [LockRows -> Sessions \cup {Free}]
  BY DEF TxInv, TxTypeOK
<1>2. tx'[s] = Resting
  BY <1>1 DEF Rollback
<1>3. Quiet(s)
  <2>1. \E V \in SUBSET Variants, R \in SUBSET Reservations : tx'[s] \in Session(V, R)
    BY <1>2, RestingType
  <2> QED
    BY <1>1, <1>2, <2>1, SessionAssumption DEF Quiet, Rollback, Unlocked, Resting
<1>4. Sound(s, tx[s])'
  BY <1>2 DEF Sound, Resting, Programmed, RowsKnown, ItemKnown, CopiesKnown, OrderKnown, VariantCalls
<1> QED
  BY <1>3, <1>4, QuietKeeps

\* A request begins in a state that is sound.
LEMMA BeginKeeps ==
    ASSUME TxInv, NEW s \in Sessions, NEW request, Begin(s, request),
           NEW V \in SUBSET Variants, NEW R \in SUBSET Reservations,
           request \in Session(V, R), Sound(s, request),
           request.call = "reserve" => \A r \in DOMAIN request.rseen : NewId(r),
           request.kind = "place" => request.pc = "insert"
    PROVE  TxInv'
<1>1. DOMAIN tx = Sessions /\ lock \in [LockRows -> Sessions \cup {Free}]
  BY DEF TxInv, TxTypeOK
<1>2. tx'[s] = request
  BY <1>1 DEF Begin
<1>3. Quiet(s)
  BY <1>1, <1>2 DEF Quiet, Begin, NewId
<1>4. Sound(s, tx[s])'
  <2>1. Programmed(tx[s])' /\ CopiesKnown(tx[s])'
    BY <1>2 DEF Sound, Programmed, CopiesKnown
  <2>2. RowsKnown(tx[s])' /\ ItemKnown(tx[s])'
    BY <1>2 DEF Sound, RowsKnown, ItemKnown, Begin, dbVars
  <2>3. OrderKnown(s, tx[s])'
    BY <1>2 DEF Sound, OrderKnown, Begin, dbVars, Held, With, InStatus
  <2> QED
    BY <2>1, <2>2, <2>3 DEF Sound
<1> QED
  BY <1>3, <1>4, QuietKeeps

\* Every kind of request begins soundly.
LEMMA ArriveKeeps ==
    ASSUME TxInv, NEW s \in Sessions, Arrive(s)
    PROVE  TxInv'
<1> USE DEF Sound, Programmed, RowsKnown, ItemKnown, CopiesKnown, OrderKnown
<1>0. OrderTypeOK
  BY DEF TxInv, TxTypeOK
<1>1. ASSUME NEW r \in Reservations, NEW name \in ReservationCalls, NEW ttn \in BOOLEAN,
             BeginOnReservation(s, r, name, ttn)
      PROVE  TxInv'
  <2> DEFINE request == [Resting EXCEPT !.kind = "api", !.pc = "call", !.call = name,
                                        !.todo = {r}, !.ttn = ttn]
  <2>1. request \in Session({}, {})
    BY RestingType DEF Session, RequestKinds, Statements, CallNames
  <2>2. Sound(s, request) /\ request.call # "reserve" /\ request.kind # "place"
    BY <1>1 DEF BeginOnReservation, Resting, ReservationCalls, VariantCalls
  <2>3. Begin(s, request)
    BY <1>1 DEF BeginOnReservation
  <2> HIDE DEF request
  <2> QED
    BY <2>1, <2>2, <2>3, BeginKeeps
<1>2. ASSUME NEW r \in Reservations, NEW v \in Variants, NEW q \in Qtys, NEW d \in BOOLEAN,
             BeginReserve(s, r, v, q, d)
      PROVE  TxInv'
  <2> DEFINE request == [Resting EXCEPT !.kind = "api", !.pc = "variant", !.call = "reserve",
                                !.item = [r |-> r, variant |-> v, qty |-> q],
                                !.rseen = [x \in {r} |-> NewRow(v, q, NoOrder, d)]]
  <2>1. NewRow(v, q, NoOrder, d) \in NewRows /\ NewRow(v, q, NoOrder, d) \in Row
    BY BoundAssumption DEF NewRow, NewRows, Qtys, Row, Statuses
  <2>2. [r |-> r, variant |-> v, qty |-> q] \in Item
    BY BoundAssumption DEF Item, Qtys
  <2>3. request \in Session({}, {r})
    BY <2>1, <2>2, RestingType DEF Session, RequestKinds, Statements, CallNames
  <2>4. NewId(r) /\ Begin(s, request)
    BY <1>2 DEF BeginReserve
  <2>5. resv[r] = Unused
    BY <1>0, <2>4 DEF NewId, OrderTypeOK, TypeOK, Row, Statuses
  <2>6. Sound(s, request) /\ DOMAIN request.rseen = {r} /\ request.kind # "place"
    BY <2>1, <2>5 DEF Resting, ReservationCalls, VariantCalls, NewRow
  <2> HIDE DEF request
  <2> QED
    BY <2>3, <2>4, <2>6, BeginKeeps
<1>3. ASSUME NEW v \in Variants, NEW q \in Qtys, NEW name \in VariantCalls,
             BeginOnVariant(s, v, q, name)
      PROVE  TxInv'
  <2> DEFINE request == [Resting EXCEPT !.kind = "api", !.pc = "variant", !.call = name,
                                !.item = [r |-> NoReservation, variant |-> v, qty |-> q]]
  <2>1. [r |-> NoReservation, variant |-> v, qty |-> q] \in Item
    BY BoundAssumption DEF Item, Qtys
  <2>2. request \in Session({}, {})
    BY <2>1, RestingType DEF Session, RequestKinds, Statements, CallNames
  <2>3. Sound(s, request) /\ request.call # "reserve" /\ request.kind # "place"
    BY DEF Resting, VariantCalls
  <2>4. Begin(s, request)
    BY <1>3 DEF BeginOnVariant
  <2> HIDE DEF request
  <2> QED
    BY <2>2, <2>3, <2>4, BeginKeeps
<1>4. ASSUME NEW o \in Orders, NEW S \in SUBSET With("unused"),
             NEW rows \in [S -> OrderRows(o)], BeginPlace(s, o, rows)
      PROVE  TxInv'
  <2> DEFINE request == [Resting EXCEPT !.kind = "place", !.pc = "insert", !.call = "reserve",
                                !.order = o, !.todo = DOMAIN rows, !.rseen = rows]
  <2>1. rows \in [S -> Row] /\ S \in SUBSET Reservations
    BY BoundAssumption DEF OrderRows, NewRows, Qtys, Row, Statuses, With, InStatus
  <2>2. request \in Session({}, S)
    BY <2>1, RestingType DEF Session, RequestKinds, Statements, CallNames
  <2>3. Begin(s, request) /\ \A r \in S : NewId(r)
    BY <1>4 DEF BeginPlace
  <2>4. \A r \in S : resv[r] = Unused /\ rows[r] \in NewRows /\ rows[r].order = o
    BY <1>0 DEF With, InStatus, OrderRows, OrderTypeOK, TypeOK, Row, Statuses
  <2>5. Sound(s, request) /\ DOMAIN request.rseen = S /\ request.pc = "insert"
    BY <2>4 DEF Resting, VariantCalls
  <2> HIDE DEF request
  <2> QED
    BY <2>1, <2>2, <2>3, <2>5, BeginKeeps
<1>5. ASSUME NEW o \in Orders, NEW kind \in {"confirm", "cancel"}, BeginDecision(s, o, kind)
      PROVE  TxInv'
  <2> DEFINE name == IF kind = "confirm" THEN "fulfill" ELSE "release"
             request == [Resting EXCEPT !.kind = kind, !.pc = "list", !.order = o,
                                        !.call = name]
  <2>1. request \in Session({}, {})
    <3>1. name \in CallNames /\ kind \in RequestKinds
      BY DEF CallNames, ReservationCalls, RequestKinds
    <3> HIDE DEF name
    <3> QED
      BY <3>1, RestingType DEF Session, Statements
  <2>2. Sound(s, request) /\ request.call # "reserve" /\ request.kind # "place"
    BY <1>5 DEF BeginDecision, Resting, VariantCalls
  <2>3. Begin(s, request)
    BY <1>5 DEF BeginDecision
  <2> HIDE DEF request
  <2> QED
    BY <2>1, <2>2, <2>3, BeginKeeps
<1>6. ASSUME NEW r \in Reservations, BeginTtn(s, r)
      PROVE  TxInv'
  <2> DEFINE request == [Resting EXCEPT !.kind = "ttn", !.pc = "preload", !.call = "ship",
                                !.ttn = TRUE, !.todo = {r}, !.rseen = [x \in {r} |-> resv[r]]]
  <2>1. resv[r] \in Row /\ resv[r].status # "unused"
    BY <1>0, <1>6 DEF BeginTtn, OrderTypeOK, TypeOK, Unused
  <2>2. request \in Session({}, {r})
    BY <2>1, RestingType DEF Session, RequestKinds, Statements, CallNames, ReservationCalls
  <2>3. Sound(s, request) /\ request.call # "reserve" /\ request.kind # "place"
    BY <2>1 DEF Resting, VariantCalls
  <2>4. Begin(s, request)
    BY <1>6 DEF BeginTtn
  <2> HIDE DEF request
  <2> QED
    BY <2>2, <2>3, <2>4, BeginKeeps
<1>7. ASSUME BeginNp(s)
      PROVE  TxInv'
  <2> DEFINE S == {r \in With("shipped") : resv[r].ttn}
             request == [Resting EXCEPT !.kind = "np", !.pc = "answer", !.todo = S,
                                    !.rseen = [r \in S |-> resv[r]]]
  <2>1. S \in SUBSET Reservations /\ \A r \in S : resv[r] \in Row /\ resv[r].status # "unused"
    BY <1>0 DEF OrderTypeOK, TypeOK, Unused, With, InStatus
  <2>2. request \in Session({}, S)
    <3> HIDE DEF S
    <3> QED
      BY <2>1, RestingType DEF Session, RequestKinds, Statements
  <2>3. Sound(s, request) /\ request.call # "reserve" /\ request.kind # "place"
    <3> HIDE DEF S
    <3> QED
      BY <2>1 DEF Resting, VariantCalls
  <2>4. Begin(s, request)
    BY <1>7 DEF BeginNp
  <2> HIDE DEF request
  <2> QED
    BY <2>1, <2>2, <2>3, <2>4, BeginKeeps
<1>8. ASSUME NEW S, BeginExpire(s, S)
      PROVE  TxInv'
  <2> DEFINE request == [Resting EXCEPT !.kind = "expire", !.pc = "flush", !.call = "expire",
                                !.todo = S, !.rseen = [r \in S |-> resv[r]]]
  <2>1. S \in SUBSET Reservations /\ \A r \in S : resv[r] \in Row /\ resv[r].status # "unused"
    BY <1>0, <1>8 DEF BeginExpire, OrderTypeOK, TypeOK, Unused, With, InStatus
  <2>2. request \in Session({}, S)
    BY <2>1, RestingType DEF Session, RequestKinds, Statements, CallNames
  <2>3. Sound(s, request) /\ request.call # "reserve" /\ request.kind # "place"
    BY <2>1 DEF Resting, VariantCalls
  <2>4. Begin(s, request)
    BY <1>8 DEF BeginExpire
  <2> HIDE DEF request
  <2> QED
    BY <2>1, <2>2, <2>3, <2>4, BeginKeeps
<1>9. ASSUME BeginScan(s)
      PROVE  TxInv'
  <2> DEFINE S == {v \in Variants : ~notified[v] /\ Available(v) <= Threshold[v]}
             request == [Resting EXCEPT !.kind = "scan", !.pc = "flush", !.call = "scan",
                       !.wrote = S \X {"notified"},
                       !.vseen = [v \in S |-> [Stored(v) EXCEPT !.notified = TRUE]]]
  <2>1. S \in SUBSET Variants /\ \A v \in S : [Stored(v) EXCEPT !.notified = TRUE] \in Copy
    BY <1>0 DEF OrderTypeOK, TypeOK, Stored, Copy
  <2>2. request \in Session(S, {})
    <3> HIDE DEF S
    <3>1. [v \in S |-> [Stored(v) EXCEPT !.notified = TRUE]] \in [S -> Copy]
      BY <2>1
    <3>2. S \X {"notified"} \in SUBSET (Variants \X Columns)
      BY <2>1 DEF Columns
    <3> QED
      BY <2>1, <3>1, <3>2, RestingType DEF Session, RequestKinds, Statements, CallNames
  <2>3. Sound(s, request) /\ request.call # "reserve" /\ request.kind # "place"
    <3> HIDE DEF S
    <3> QED
      BY <2>1 DEF Resting, VariantCalls
  <2>4. Begin(s, request)
    BY <1>9 DEF BeginScan
  <2> HIDE DEF request
  <2> QED
    BY <2>1, <2>2, <2>3, <2>4, BeginKeeps
<1> QED
  BY <1>1, <1>2, <1>3, <1>4, <1>5, <1>6, <1>7, <1>8, <1>9, Zenon DEF Arrive

\* The table of the calls.
LEMMA CallType ==
    ASSUME NEW name \in CallNames
    PROVE  /\ Calls[name].hand \in {-1, 0, 1}
           /\ Calls[name].earmark \in {-1, 0, 1}
           /\ Calls[name].sign \in {-1, 0, 1}
           /\ Calls[name].type \in MovementTypes
           /\ name \notin VariantCalls \cup {"scan"} => Calls[name].to \in Statuses
           /\ name # "reserve" => Calls[name].to # "active"
           /\ name = "reserve" => Calls[name].to = "active"
           /\ name # "reserve" => Calls[name].from # "unused"
           /\ name \notin VariantCalls \cup {"scan", "reserve"} => Calls[name].from \in Statuses
BY DEF CallNames, ReservationCalls, VariantCalls, Calls, Call, ReserveCall, ReleaseCall,
       FulfillCall, ShipCall, UpdateTtnCall, PickUpCall, NotPickedUpCall, SellCall,
       RestockCall, WriteOffCall, ExpireCall, ScanCall, MovementTypes, Statuses

\* A call leaves a copy that is one.
LEMMA AfterType ==
    ASSUME NEW copy \in Copy, NEW v \in Variants, NEW name \in CallNames, NEW q \in Nat
    PROVE  After(copy, v, name, q) \in Copy
<1>1. Calls[name].hand * q \in Int /\ Calls[name].earmark * q \in Int
  BY CallType
<1> HIDE DEF Calls
<1> QED
  BY <1>1 DEF After, Copy

\* What a session reads of a row is of its type.
LEMMA ReadType ==
    ASSUME TxInv, NEW s \in Sessions, NEW v \in Variants
    PROVE  ReadVariant(s, v) \in Copy
<1>1. PICK V \in SUBSET Variants, R \in SUBSET Reservations : tx[s] \in Session(V, R)
  BY DEF TxInv, TxTypeOK
<1>2. Stored(v) \in Copy
  BY DEF TxInv, TxTypeOK, OrderTypeOK, TypeOK, Stored, Copy
<1> QED
  BY <1>1, <1>2 DEF ReadVariant, Session

\* T is session s after its current call changed its copies for item.
Changed(T, s, item, pc) ==
    LET v == item.variant
        new == After(ReadVariant(s, v), v, tx[s].call, item.qty)
    IN  /\ T.kind = tx[s].kind /\ T.pc = pc /\ T.call = tx[s].call
        /\ T.order = tx[s].order /\ T.ttn = tx[s].ttn /\ T.item = tx[s].item
        /\ T.todo = tx[s].todo \ {item.r}
        /\ T.done = tx[s].done \cup ({item.r} \cap Reservations)
        /\ T.vseen = Loaded(tx[s].vseen, v, new)
        /\ T.rseen = tx[s].rseen /\ T.held = tx[s].held
        /\ T.wrote = tx[s].wrote
             \cup {<<v, c>> : c \in {c \in Columns : new[c] # ReadVariant(s, v)[c]}}
        /\ T.units = [tx[s].units EXCEPT ![v] = @ + item.qty]

\* The session after a change of a variant, field by field.
LEMMA AppliedIs ==
    ASSUME TxInv, NEW s \in Sessions, NEW V \in SUBSET Variants, NEW R \in SUBSET Reservations,
           tx[s] \in Session(V, R), tx[s].call \in CallNames,
           NEW item \in Item, item.variant \in Variants, NEW pc \in Statements
    PROVE  /\ Applied(s, item, pc) \in Session(V \cup {item.variant}, R)
           /\ Changed(Applied(s, item, pc), s, item, pc)
<1> DEFINE v == item.variant
           new == After(ReadVariant(s, v), v, tx[s].call, item.qty)
           T == Applied(s, item, pc)
           seen == Loaded(tx[s].vseen, v, new)
           more == {<<v, c>> : c \in {c \in Columns : new[c] # ReadVariant(s, v)[c]}}
           units == [tx[s].units EXCEPT ![v] = @ + item.qty]
<1>1. item.qty \in Nat
  BY BoundAssumption DEF Item
<1>2. new \in Copy
  BY <1>1, AfterType, ReadType
<1> HIDE DEF new
<1>3. seen \in [V \cup {v} -> Copy] /\ V \cup {v} \in SUBSET Variants
  <2>1. tx[s].vseen \in [V -> Copy]
    BY DEF Session
  <2> QED
    BY <1>2, <2>1, LoadedType
<1>4. tx[s].wrote \cup more \in SUBSET (Variants \X Columns)
  BY DEF Session
<1>5. units \in [Variants -> Nat]
  BY <1>1 DEF Session
<1>6. /\ tx[s].todo \ {item.r} \in SUBSET Reservations
      /\ tx[s].done \cup ({item.r} \cap Reservations) \in SUBSET Reservations
  BY DEF Session
<1>7. T = [tx[s] EXCEPT !.vseen = seen, !.wrote = tx[s].wrote \cup more, !.units = units,
                        !.todo = tx[s].todo \ {item.r},
                        !.done = tx[s].done \cup ({item.r} \cap Reservations),
                        !.pc = pc]
  BY DEF Applied, new, Session
<1> HIDE DEF T, seen, more, units
<1>8. T \in Session(V \cup {v}, R)
  BY <1>3, <1>4, <1>5, <1>6, <1>7 DEF Session
<1>9. /\ T.kind = tx[s].kind /\ T.pc = pc /\ T.call = tx[s].call
      /\ T.order = tx[s].order /\ T.ttn = tx[s].ttn /\ T.item = tx[s].item
      /\ T.todo = tx[s].todo \ {item.r}
      /\ T.done = tx[s].done \cup ({item.r} \cap Reservations)
      /\ T.vseen = seen
      /\ T.rseen = tx[s].rseen /\ T.held = tx[s].held
      /\ T.wrote = tx[s].wrote \cup more
      /\ T.units = units
  BY <1>7 DEF Session
<1> QED
  BY <1>8, <1>9, Zenon DEF T, seen, more, new, units, Changed

\* Statements that read, or take a lock, keep the state sound.
LEMMA ReadKeeps ==
    ASSUME TxInv, NEW s \in Sessions,
           \/ InsertOrder(s)
           \/ ListHeld(s)
           \/ ShowName(s)
           \/ \E x \in LockRows : Flush(s, x)
           \/ \E r \in Reservations :
                 \/ Preload(s, r)
                 \/ LockReservation(s, r)
                 \/ \E name \in {"pickUp", "notPickedUp"} : TakeAnswer(s, r, name)
                 \/ SkipAnswer(s, r)
    PROVE  TxInv'
<1>1. PICK V \in SUBSET Variants, R \in SUBSET Reservations : tx[s] \in Session(V, R)
  BY DEF TxInv, TxTypeOK
<1>2. /\ DOMAIN tx = Sessions /\ lock \in [LockRows -> Sessions \cup {Free}] /\ Sound(s, tx[s])
      /\ resv \in [Reservations -> Row \cup {Unused}] /\ OrderTypeOK
  BY DEF TxInv, TxTypeOK, OrderTypeOK, TypeOK
<1> USE DEF Sound, Programmed, RowsKnown, ItemKnown, CopiesKnown, OrderKnown
<1>3. ASSUME InsertOrder(s) PROVE TxInv'
  <2>1. CASE order[tx[s].order] = "none"
    <3>1. /\ lock' = [lock EXCEPT ![tx[s].order] = s] /\ tx' = [tx EXCEPT ![s].pc = "preload"]
          /\ UNCHANGED dbVars /\ tx[s].pc = "insert" /\ CanLock(s, tx[s].order)
      BY <1>3, <2>1 DEF InsertOrder
    <3>2. tx'[s] \in Session(V, R)
      BY <1>1, <1>2, <3>1 DEF Session, Statements
    <3>3. Quiet(s)
      <4>1. /\ lock' \in [LockRows -> Sessions \cup {Free}]
            /\ \A t \in Sessions \ {s} : \A x \in LockRows : lock[x] = t <=> lock'[x] = t
        BY <1>2, <3>1, SessionAssumption DEF CanLock
      <4>2. tx'[s].call = tx[s].call /\ tx'[s].rseen = tx[s].rseen
        BY <1>1, <1>2, <3>1 DEF Session
      <4>3. DOMAIN tx' = Sessions /\ \A t \in Sessions \ {s} : tx'[t] = tx[t]
        BY <1>2, <3>1
      <4> QED
        BY <1>1, <3>1, <3>2, <4>1, <4>2, <4>3 DEF Quiet
    <3>4. tx[s].order \in Orders /\ tx[s].kind = "place"
      BY <1>2, <3>1 DEF Resting
    <3>5. Sound(s, tx[s])'
      BY <1>1, <1>2, <2>1, <3>1, <3>4 DEF VariantCalls, Session, dbVars, LockRows, Resting
    <3> QED
      BY <3>3, <3>5, QuietKeeps
  <2>2. CASE order[tx[s].order] # "none"
    BY <1>3, <2>2, RollbackKeeps DEF InsertOrder
  <2> QED
    BY <2>1, <2>2
<1>4. ASSUME ListHeld(s) PROVE TxInv'
  <2> DEFINE S == Held(tx[s].order)
             pc == IF S = {} THEN "commit" ELSE "call"
             rows == [r \in S |-> resv[r]]
  <2>1. S \in SUBSET Reservations /\ \A r \in S : resv[r] \in Row /\ resv[r].status # "unused"
    BY <1>2 DEF Held, With, InStatus, Unused
  <2>2. /\ tx[s].pc = "list" /\ tx' = [tx EXCEPT ![s].todo = S, ![s].rseen = rows, ![s].pc = pc]
        /\ UNCHANGED <<dbVars, lock>> /\ pc \in {"commit", "call"} /\ (pc = "commit" => S = {})
    BY <1>4 DEF ListHeld
  <2>3. rows \in [S -> Row] /\ S = Held(tx[s].order)
    BY <2>1
  <2> HIDE DEF S, pc, rows
  <2>4. tx'[s] \in Session(V, S)
    BY <1>1, <1>2, <2>1, <2>2, <2>3 DEF Session, Statements
  <2>5. tx[s].kind \in {"confirm", "cancel"} /\ tx[s].call \in {"fulfill", "release"}
    BY <1>2, <2>2 DEF Resting
  <2>6. Quiet(s)
    BY <1>1, <1>2, <2>1, <2>2, <2>4, <2>5 DEF Quiet, Session
  <2>7. \A o : Held(o)' = Held(o)
    BY <2>2 DEF dbVars, Held, With, InStatus
  <2>8. Sound(s, tx[s])'
    BY <1>1, <1>2, <2>1, <2>2, <2>3, <2>5, <2>7 DEF VariantCalls, Session, dbVars, Resting
  <2> QED
    BY <2>6, <2>8, QuietKeeps
<1>5. ASSUME ShowName(s) PROVE TxInv'
  <2> DEFINE v == tx[s].item.variant
             seen == Loaded(tx[s].vseen, v, ReadVariant(s, v))
  <2>1. /\ tx[s].pc = "show" /\ UNCHANGED <<dbVars, lock>>
        /\ tx' = [tx EXCEPT ![s].vseen = seen, ![s].held = tx[s].held \cup {v}, ![s].item = NoItem,
                            ![s].pc = "answer"]
    BY <1>5 DEF ShowName
  <2>2. v \in Variants /\ tx[s].kind = "np"
    BY <1>2, <2>1 DEF Resting
  <2>3. seen \in [V \cup {v} -> Copy] /\ V \cup {v} \in SUBSET Variants /\ v \in DOMAIN seen
    <3>1. tx[s].vseen \in [V -> Copy] /\ ReadVariant(s, v) \in Copy
      BY <1>1, <2>2, ReadType DEF Session
    <3> QED
      BY <1>1, <2>2, <3>1 DEF Loaded
  <2>4. NoItem \in Item
    BY BoundAssumption DEF NoItem, Item
  <2> HIDE DEF seen
  <2>5. tx'[s] \in Session(V \cup {v}, R)
    BY <1>1, <1>2, <2>1, <2>2, <2>3, <2>4 DEF Session, Statements
  <2>6. Quiet(s)
    BY <1>1, <1>2, <2>1, <2>3, <2>5 DEF Quiet, Session
  <2>7. /\ tx'[s].kind = "np" /\ tx'[s].pc = "answer" /\ tx'[s].call = tx[s].call
        /\ tx'[s].order = tx[s].order /\ tx'[s].todo = tx[s].todo /\ tx'[s].done = tx[s].done
        /\ tx'[s].rseen = tx[s].rseen /\ tx'[s].held = tx[s].held \cup {v}
        /\ tx'[s].vseen = seen /\ tx'[s].wrote = tx[s].wrote
    BY <1>1, <1>2, <2>1, <2>2 DEF Session
  <2>8. tx[s].call = "none" /\ tx[s].order = NoOrder
    BY <1>2, <2>1 DEF Resting
  <2>9. Programmed(tx[s])' /\ ItemKnown(tx[s])' /\ OrderKnown(s, tx[s])'
    BY <2>7, <2>8
  <2>10. RowsKnown(tx[s])'
    BY <1>2, <2>1, <2>7, <2>8 DEF dbVars, VariantCalls
  <2>11. CopiesKnown(tx[s])'
    <3>1. DOMAIN seen = DOMAIN tx[s].vseen \cup {v}
      BY <1>1, <2>3 DEF Session
    <3> QED
      BY <1>2, <2>7, <3>1
  <2> QED
    BY <2>6, <2>9, <2>10, <2>11, QuietKeeps
<1>6. ASSUME NEW x \in LockRows, Flush(s, x) PROVE TxInv'
  <2>1. Quiet(s)
    BY <1>1, <1>2, <1>6, SessionAssumption DEF Quiet, Flush, dbVars
  <2>2. Sound(s, tx[s])'
    BY <1>2, <1>6 DEF Flush, dbVars, Held, With, InStatus, Resting
  <2> QED
    BY <2>1, <2>2, QuietKeeps
<1>7. ASSUME NEW r \in Reservations, Preload(s, r) PROVE TxInv'
  <2> DEFINE row == tx[s].rseen[r]
             v == row.variant
             seen == Loaded(tx[s].vseen, v, ReadVariant(s, v))
             item == [r |-> r, variant |-> v, qty |-> row.qty]
             pc == IF tx[s].kind = "place" THEN "variant" ELSE "call"
  <2>1. /\ tx[s].pc = "preload" /\ r \in tx[s].todo /\ UNCHANGED <<dbVars, lock>>
        /\ tx' = [tx EXCEPT ![s].vseen = seen, ![s].pc = pc, ![s].item = item]
    BY <1>7 DEF Preload
  <2>2. row \in Row /\ r \in DOMAIN tx[s].rseen
    BY <1>1, <1>2, <2>1 DEF Session
  <2>3. seen \in [V \cup {v} -> Copy] /\ V \cup {v} \in SUBSET Variants /\ V \subseteq DOMAIN seen
    <3>1. v \in Variants
      BY <2>2 DEF Row
    <3>2. tx[s].vseen \in [V -> Copy] /\ ReadVariant(s, v) \in Copy
      BY <1>1, <3>1, ReadType DEF Session
    <3> QED
      BY <1>1, <3>1, <3>2 DEF Loaded
  <2>4. item \in Item /\ item.r = r /\ item.variant \in Variants
    BY <2>2, BoundAssumption DEF Item, Row
  <2>5. \/ pc = "variant" /\ tx[s].kind = "place" /\ tx[s].call = "reserve"
        \/ pc = "call" /\ tx[s].kind = "ttn" /\ tx[s].call = "ship"
    <3>1. \/ tx[s].kind = "place" /\ tx[s].call = "reserve"
          \/ tx[s].kind = "ttn" /\ tx[s].call = "ship"
      BY <1>2, <2>1 DEF Resting
    <3> QED
      BY <3>1
  <2> HIDE DEF seen, item, pc
  <2>6. tx'[s] \in Session(V \cup {v}, R)
    BY <1>1, <1>2, <2>1, <2>3, <2>4, <2>5 DEF Session, Statements
  <2>7. Quiet(s)
    BY <1>1, <1>2, <2>1, <2>3, <2>6 DEF Quiet, Session
  <2>8. Sound(s, tx[s])'
    BY <1>1, <1>2, <2>1, <2>2, <2>3, <2>4, <2>5 DEF VariantCalls, Session, dbVars, Resting
  <2> QED
    BY <2>7, <2>8, QuietKeeps
<1>8. ASSUME NEW r \in Reservations, LockReservation(s, r) PROVE TxInv'
  <2> DEFINE row == ReadReservation(s, r)
             seen == Loaded(tx[s].rseen, r, row)
             item == [r |-> r, variant |-> row.variant, qty |-> row.qty]
             pc == IF tx[s].call = "updateTtn" THEN "commit" ELSE "variant"
             done == IF tx[s].call = "updateTtn" THEN {r} ELSE tx[s].done
  <2>1. tx[s].pc = "call" /\ r \in tx[s].todo /\ CanLock(s, r)
    BY <1>8 DEF LockReservation
  <2>2. /\ tx[s].call \in ReservationCalls /\ resv[r].status # "unused"
        /\ tx[s].kind = "np" => tx[s].call # "updateTtn"
        /\ tx[s].call = "updateTtn" => tx[s].kind = "api"
    BY <1>2, <2>1 DEF Resting, ReservationCalls
  <2>3. CASE row.status = Calls[tx[s].call].from
    <3>1. /\ lock' = [lock EXCEPT ![r] = s] /\ UNCHANGED dbVars
          /\ tx' = [tx EXCEPT ![s].rseen = seen, ![s].pc = pc, ![s].done = done, ![s].item = item]
      BY <1>8, <2>3 DEF LockReservation
    <3>2. row \in Row
      BY <1>1, <1>2, <2>2, <2>3 DEF ReadReservation, Session, Unused
    <3>3. seen \in [R \cup {r} -> Row] /\ R \cup {r} \in SUBSET Reservations
      <4>1. tx[s].rseen \in [R -> Row]
        BY <1>1 DEF Session
      <4> QED
        BY <1>1, <3>2, <4>1 DEF Loaded
    <3>4. item \in Item /\ item.r = r /\ item.variant \in Variants
      BY <3>2, BoundAssumption DEF Item, Row
    <3>5. /\ pc \in {"commit", "variant"} /\ (pc = "commit" <=> tx[s].call = "updateTtn")
          /\ done \subseteq tx[s].done \cup {r} /\ tx[s].done \subseteq tx[s].done
          /\ tx[s].call # "updateTtn" => done = tx[s].done
      OBVIOUS
    <3> HIDE DEF seen, item, pc, done
    <3>6. tx'[s] \in Session(V, R \cup {r})
      BY <1>1, <1>2, <2>1, <3>1, <3>3, <3>4, <3>5 DEF Session, Statements
    <3>7. Quiet(s)
      BY <1>1, <1>2, <2>1, <2>2, <3>1, <3>3, <3>6, SessionAssumption DEF Quiet, Session, CanLock, LockRows, ReservationCalls
    <3>8. Programmed(tx[s])'
      BY <1>1, <1>2, <2>1, <2>2, <3>1, <3>5 DEF Session, Resting
    <3>9. RowsKnown(tx[s])' /\ ItemKnown(tx[s])' /\ CopiesKnown(tx[s])'
      BY <1>1, <1>2, <2>1, <2>2, <3>1, <3>4, <3>5 DEF Session, dbVars, ReservationCalls, VariantCalls
    <3>10. OrderKnown(s, tx[s])'
      BY <1>1, <1>2, <2>1, <2>2, <3>1, <3>5 DEF Session, dbVars, Held, With, InStatus, Resting
    <3> QED
      BY <3>7, <3>8, <3>9, <3>10, QuietKeeps
  <2>4. CASE row.status # Calls[tx[s].call].from
    BY <1>8, <2>4, RollbackKeeps DEF LockReservation
  <2> QED
    BY <2>3, <2>4
<1>9. ASSUME NEW r \in Reservations, NEW name \in {"pickUp", "notPickedUp"}, TakeAnswer(s, r, name)
      PROVE  TxInv'
  <2>1. [NoItem EXCEPT !.r = r] \in Item
    BY BoundAssumption DEF NoItem, Item
  <2>2. tx'[s] \in Session(V, R)
    BY <1>1, <1>2, <1>9, <2>1 DEF TakeAnswer, Session, Statements, CallNames, ReservationCalls
  <2>3. Quiet(s)
    BY <1>1, <1>2, <1>9, <2>2 DEF Quiet, TakeAnswer, Session
  <2>4. Sound(s, tx[s])'
    <3>1. /\ tx[s].pc = "answer" /\ UNCHANGED dbVars
          /\ tx' = [tx EXCEPT ![s].pc = "call", ![s].call = name,
                              ![s].item = [NoItem EXCEPT !.r = r]]
      BY <1>9 DEF TakeAnswer
    <3>2. tx[s].kind = "np" /\ tx[s].order = NoOrder /\ tx[s].call = "none"
      BY <1>2, <3>1 DEF Resting
    <3> QED
      BY <1>1, <1>2, <3>1, <3>2 DEF VariantCalls, Session, Resting, dbVars
  <2> QED
    BY <2>3, <2>4, QuietKeeps
<1>10. ASSUME NEW r \in Reservations, SkipAnswer(s, r) PROVE TxInv'
  <2>1. tx'[s] \in Session(V, R)
    BY <1>1, <1>2, <1>10 DEF SkipAnswer, Session, Statements
  <2>2. Quiet(s)
    BY <1>1, <1>2, <1>10, <2>1 DEF Quiet, SkipAnswer, Session
  <2>3. Sound(s, tx[s])'
    BY <1>1, <1>2, <1>10 DEF SkipAnswer, VariantCalls, Session, Resting, dbVars
  <2> QED
    BY <2>2, <2>3, QuietKeeps
<1> QED
  BY <1>3, <1>4, <1>5, <1>6, <1>7, <1>8, <1>9, <1>10

\* So do the statements that change copies.
LEMMA ChangeKeeps ==
    ASSUME TxInv, NEW s \in Sessions, LockVariant(s) \/ \E r \in Reservations : ExpireOne(s, r)
    PROVE  TxInv'
<1>1. PICK V \in SUBSET Variants, R \in SUBSET Reservations : tx[s] \in Session(V, R)
  BY DEF TxInv, TxTypeOK
<1>2. /\ DOMAIN tx = Sessions /\ lock \in [LockRows -> Sessions \cup {Free}] /\ Sound(s, tx[s])
  BY DEF TxInv, TxTypeOK
<1> USE DEF Sound, Programmed, RowsKnown, ItemKnown, CopiesKnown, OrderKnown
<1>3. ASSUME NEW item \in Item, item.variant \in Variants, NEW pc \in Statements,
             tx[s].call \in CallNames, tx' = [tx EXCEPT ![s] = Applied(s, item, pc)],
             item.r \in Reservations =>
                /\ tx[s].call = "reserve" => item.r \in DOMAIN tx[s].rseen
                /\ tx[s].call # "reserve" => resv[item.r].status # "unused",
             tx[s].call \in VariantCalls \cup {"scan"} => item.r = NoReservation,
             Programmed(tx[s])', pc # "variant", 
             pc \in {"preload", "flush"} => tx[s].todo \subseteq DOMAIN tx[s].rseen,
             tx[s].kind \in {"confirm", "cancel"} => item.r \in Reservations /\ tx[s].pc # "list"
                            /\ (pc = "commit" => tx[s].todo \ {item.r} = {}),
             tx[s].kind = "np" => tx[s].item.variant \in Variants,
             tx[s].kind = "place" => tx[s].pc # "insert",
             UNCHANGED dbVars, lock' \in [LockRows -> Sessions \cup {Free}],
             \A t \in Sessions \ {s} : \A x \in LockRows : lock[x] = t <=> lock'[x] = t,
             \A x \in LockRows : lock[x] = s => lock'[x] = s
      PROVE  TxInv'
  <2> DEFINE v == item.variant
             new == After(ReadVariant(s, v), v, tx[s].call, item.qty)
             T == Applied(s, item, pc)
  <2>1. /\ T \in Session(V \cup {v}, R)
        /\ T.kind = tx[s].kind /\ T.pc = pc /\ T.call = tx[s].call
        /\ T.order = tx[s].order /\ T.ttn = tx[s].ttn /\ T.item = tx[s].item
        /\ T.todo = tx[s].todo \ {item.r}
        /\ T.done = tx[s].done \cup ({item.r} \cap Reservations)
        /\ T.vseen = Loaded(tx[s].vseen, v, new)
        /\ T.rseen = tx[s].rseen /\ T.held = tx[s].held
        /\ T.wrote = tx[s].wrote
             \cup {<<v, c>> : c \in {c \in Columns : new[c] # ReadVariant(s, v)[c]}}
    <3>1. T \in Session(V \cup {v}, R) /\ Changed(T, s, item, pc)
      BY <1>1, <1>3, AppliedIs
    <3> HIDE DEF T
    <3> QED
      BY <3>1, Zenon DEF Changed
  <2> HIDE DEF T, new
  <2>2. tx'[s] = T
    BY <1>2, <1>3 DEF T
  <2>3. DOMAIN T.vseen = DOMAIN tx[s].vseen \cup {v}
    BY <2>1 DEF Loaded
  <2>4. Quiet(s)
    BY <1>1, <1>2, <1>3, <2>1, <2>2 DEF Quiet
  <2>5. RowsKnown(tx[s])'
    BY <1>1, <1>2, <1>3, <2>1, <2>2, SessionAssumption DEF dbVars, Session
  <2>6. ItemKnown(tx[s])'
    BY <1>1, <1>2, <1>3, <2>1, <2>2
  <2>7. CopiesKnown(tx[s])'
    BY <1>1, <1>2, <2>1, <2>2, <2>3
  <2>8. OrderKnown(s, tx[s])'
    <3>1. \A o : Held(o)' = Held(o)
      BY <1>3 DEF dbVars, Held, With, InStatus
    <3>2. tx[s].order \in Orders \cup {NoOrder} /\ (tx[s].kind = "place" => tx[s].order \in LockRows)
      BY <1>1, <1>2 DEF Session, LockRows, Resting
    <3> QED
      BY <1>1, <1>2, <1>3, <2>1, <2>2, <3>1, <3>2 DEF dbVars
  <2> QED
    BY <1>3, <2>4, <2>5, <2>6, <2>7, <2>8, QuietKeeps
<1>4. ASSUME LockVariant(s) PROVE TxInv'
  <2> DEFINE item == tx[s].item
             left == tx[s].todo \ {item.r}
             pc == IF left = {} \/ tx[s].kind = "np" THEN "commit"
                   ELSE IF tx[s].kind = "place" THEN "preload" ELSE "call"
  <2>1. tx[s].pc = "variant" /\ CanLock(s, item.variant)
    BY <1>4 DEF LockVariant
  <2>2. CASE Meets(ReadVariant(s, item.variant), Calls[tx[s].call], item.qty)
    <3>1. /\ lock' = [lock EXCEPT ![item.variant] = s] /\ UNCHANGED dbVars
          /\ tx' = [tx EXCEPT ![s] = Applied(s, item, pc)]
      BY <1>4, <2>2 DEF LockVariant
    <3>2. /\ pc \in {"commit", "preload", "call"}
          /\ pc = "commit" => left = {} \/ tx[s].kind = "np"
          /\ tx[s].kind = "np" => pc = "commit"
          /\ pc = "preload" <=> tx[s].kind = "place" /\ left # {}
          /\ pc = "call" => left # {}
      OBVIOUS
    <3> HIDE DEF pc
    <3>3. item \in Item /\ item.variant \in Variants /\ tx[s].call \in CallNames \ {"scan", "expire"}
      BY <1>1, <1>2, <2>1 DEF Session, CallNames, Resting, ReservationCalls, VariantCalls
    <3>4. tx[s].kind = "api" => left = {}
      BY <1>2, <2>1
    <3>5. tx'[s].kind = tx[s].kind /\ tx'[s].pc = pc /\ tx'[s].call = tx[s].call
          /\ tx'[s].order = tx[s].order /\ tx'[s].ttn = tx[s].ttn
      BY <1>1, <1>2, <3>1 DEF Applied, Session
    <3>6. Programmed(tx[s])'
      BY <1>2, <2>1, <3>2, <3>4, <3>5 DEF Resting, ReservationCalls, VariantCalls
    <3>7. pc \in Statements /\ tx[s].kind # "scan" /\ tx[s].pc # "list" /\ tx[s].pc # "insert"
      BY <1>2, <2>1, <3>2 DEF Statements, Resting
    <3>8. /\ item.r \in Reservations =>
                /\ tx[s].call = "reserve" => item.r \in DOMAIN tx[s].rseen
                /\ tx[s].call # "reserve" => resv[item.r].status # "unused"
          /\ tx[s].call \in VariantCalls \cup {"scan"} => item.r = NoReservation
          /\ tx[s].kind \in {"confirm", "cancel"} =>
                item.r \in Reservations /\ (pc = "commit" => tx[s].todo \ {item.r} = {})
          /\ pc \in {"preload", "flush"} => tx[s].todo \subseteq DOMAIN tx[s].rseen
      BY <1>2, <2>1, <3>2, <3>3, SessionAssumption DEF VariantCalls, Resting
    <3>9. /\ lock' \in [LockRows -> Sessions \cup {Free}]
          /\ \A t \in Sessions \ {s} : \A x \in LockRows : lock[x] = t <=> lock'[x] = t
          /\ \A x \in LockRows : lock[x] = s => lock'[x] = s
      BY <1>2, <2>1, <3>1, <3>3, SessionAssumption DEF CanLock, LockRows
    <3> QED
      BY <1>3, <3>1, <3>2, <3>3, <3>6, <3>7, <3>8, <3>9
  <2>3. CASE ~Meets(ReadVariant(s, item.variant), Calls[tx[s].call], item.qty)
    BY <1>4, <2>3, RollbackKeeps DEF LockVariant
  <2> QED
    BY <2>2, <2>3
<1>5. ASSUME NEW r \in Reservations, ExpireOne(s, r) PROVE TxInv'
  <2> DEFINE row == tx[s].rseen[r]
             item == [r |-> r, variant |-> row.variant, qty |-> row.qty]
  <2>1. /\ tx[s].pc = "flush" /\ r \in tx[s].todo /\ UNCHANGED <<dbVars, lock>>
        /\ tx' = [tx EXCEPT ![s] = Applied(s, item, "flush")]
    BY <1>5 DEF ExpireOne
  <2>2. row \in Row /\ r \in DOMAIN tx[s].rseen
    BY <1>1, <1>2, <2>1 DEF Session
  <2>3. item \in Item /\ item.r = r /\ item.variant \in Variants
    BY <2>2, BoundAssumption DEF Item, Row
  <2> HIDE DEF item
  <2>4. tx'[s].kind = tx[s].kind /\ tx'[s].pc = "flush" /\ tx'[s].call = tx[s].call
        /\ tx'[s].order = tx[s].order /\ tx'[s].ttn = tx[s].ttn
    BY <1>1, <1>2, <2>1 DEF Applied, Session
  <2>5. tx[s].kind \in {"expire", "scan"} /\ tx[s].call \in {"expire", "scan"}
    BY <1>2, <2>1 DEF Resting
  <2>6. tx[s].call \in CallNames /\ "flush" \in Statements
    BY <2>5 DEF CallNames, Statements
  <2>7. Programmed(tx[s])'
    BY <1>2, <2>1, <2>4 DEF Resting
  <2>8. tx[s].call = "expire"
    BY <1>2, <2>1, <2>5
  <2> QED
    BY <1>2, <1>3, <2>1, <2>2, <2>3, <2>5, <2>6, <2>7, <2>8 DEF VariantCalls
<1> QED
  BY <1>4, <1>5

-----------------------------------------------------------------------------
(* The commit. *)

\* What a session is when it commits.
LEMMA Committing ==
    ASSUME TxInv, NEW s \in Sessions, Commit(s)
    PROVE  /\ tx[s].call \in CallNames
           /\ tx[s].pc \in {"commit", "flush"} /\ (tx[s].pc = "flush" => tx[s].todo = {})
           /\ tx[s].kind \in RequestKinds
           /\ tx[s].kind = "place" => tx[s].call = "reserve"
           /\ tx[s].call = "reserve" => tx[s].kind \in {"api", "place"}
           /\ tx[s].kind \in {"place", "confirm", "cancel"} => tx[s].order \in Orders
           /\ tx[s].kind \notin {"place", "confirm", "cancel"} => tx[s].order = NoOrder
<1>1. tx[s].pc \in {"commit", "flush"} /\ (tx[s].pc = "flush" => tx[s].todo = {})
  BY DEF Commit
<1>2. Programmed(tx[s])
  BY DEF TxInv, Sound
<1>3. tx[s] # Resting
  BY <1>1 DEF Resting
<1>4. tx[s].call \in CallNames
  BY <1>1, <1>2, <1>3 DEF Programmed, CallNames, ReservationCalls, VariantCalls
<1>5. tx[s].kind \in RequestKinds
  BY <1>1, <1>2, <1>3 DEF Programmed, RequestKinds
<1>6. /\ tx[s].kind = "place" => tx[s].call = "reserve"
      /\ tx[s].call = "reserve" => tx[s].kind \in {"api", "place"}
  BY <1>1, <1>2, <1>3 DEF Programmed
<1>7. /\ tx[s].kind \in {"place", "confirm", "cancel"} => tx[s].order \in Orders
      /\ tx[s].kind \notin {"place", "confirm", "cancel"} => tx[s].order = NoOrder
  BY <1>1, <1>2, <1>3 DEF Programmed
<1> QED
  BY <1>1, <1>4, <1>5, <1>6, <1>7

\* A request for a reservation is a row.
LEMMA NewRowIs ==
    ASSUME NEW row \in NewRows
    PROVE  row \in Row /\ [row EXCEPT !.status = "active", !.ttn = row.ttn] = row
BY BoundAssumption DEF NewRows, Row, Statuses, Qtys

\* A commit makes the rows of a reserve, or settles rows that were there.
LEMMA CommitRow ==
    ASSUME TxInv, NEW s \in Sessions, Commit(s), NEW r \in Reservations
    PROVE  \/ r \notin tx[s].done /\ resv'[r] = resv[r]
           \/ /\ r \in tx[s].done /\ tx[s].call # "reserve"
              /\ resv[r] \in Row /\ resv'[r] \in Row
              /\ resv'[r].status = Calls[tx[s].call].to /\ resv'[r].status # "active"
              /\ resv'[r].order = resv[r].order /\ resv'[r].variant = resv[r].variant
              /\ resv'[r].qty = resv[r].qty /\ resv'[r].deadline = resv[r].deadline
           \/ /\ r \in tx[s].done /\ tx[s].call = "reserve" /\ r \in DOMAIN tx[s].rseen
              /\ resv[r] = Unused /\ resv'[r] = tx[s].rseen[r]
              /\ resv'[r] \in NewRows /\ resv'[r] \in Row /\ resv'[r].order = tx[s].order
<1>1. PICK V \in SUBSET Variants, R \in SUBSET Reservations : tx[s] \in Session(V, R)
  BY DEF TxInv, TxTypeOK
<1>2. RowsKnown(tx[s]) /\ resv[r] \in Row \cup {Unused} /\ tx[s].call \in CallNames
  BY Committing DEF TxInv, Sound, TxTypeOK, OrderTypeOK, TypeOK
<1>3. resv' = WrittenRows(s)
  BY DEF Commit
<1>4. CASE r \notin tx[s].done
  BY <1>3, <1>4 DEF WrittenRows
<1>5. CASE r \in tx[s].done /\ tx[s].call # "reserve"
  <2> DEFINE to == Calls[tx[s].call].to
             ttn == IF tx[s].call \in {"ship", "updateTtn"} THEN tx[s].ttn ELSE resv[r].ttn
  <2>1. resv[r] \in Row
    BY <1>2, <1>5 DEF RowsKnown, Unused
  <2>2. to \in Statuses /\ to # "active"
    BY <1>2, <1>5, CallType DEF RowsKnown
  <2>3. ttn \in BOOLEAN
    BY <1>1, <2>1 DEF Session, Row
  <2>4. resv'[r] = [resv[r] EXCEPT !.status = to, !.ttn = ttn]
    BY <1>3, <1>5 DEF WrittenRows
  <2> HIDE DEF to, ttn
  <2>5. /\ resv'[r] \in Row /\ resv'[r].status = to
        /\ resv'[r].order = resv[r].order /\ resv'[r].variant = resv[r].variant
        /\ resv'[r].qty = resv[r].qty /\ resv'[r].deadline = resv[r].deadline
    BY <2>1, <2>2, <2>3, <2>4 DEF Row
  <2> QED
    BY <1>5, <2>1, <2>2, <2>5 DEF to
<1>6. CASE r \in tx[s].done /\ tx[s].call = "reserve"
  <2>1. r \in DOMAIN tx[s].rseen /\ resv[r] = Unused /\ tx[s].rseen[r] \in NewRows
        /\ tx[s].rseen[r].order = tx[s].order
    BY <1>2, <1>6 DEF RowsKnown
  <2>2. resv'[r] = [tx[s].rseen[r] EXCEPT !.status = Calls["reserve"].to, !.ttn = tx[s].rseen[r].ttn]
    BY <1>3, <1>6 DEF WrittenRows
  <2>3. Calls["reserve"].to = "active"
    BY <1>2, <1>6, CallType
  <2>4. resv'[r] = tx[s].rseen[r] /\ tx[s].rseen[r] \in Row
    BY <2>1, <2>2, <2>3, NewRowIs
  <2> QED
    BY <1>6, <2>1, <2>4
<1> QED
  BY <1>4, <1>5, <1>6

\* A commit places an order nobody else can place, or decides on one that is there.
LEMMA CommitOrder ==
    ASSUME TxInv, NEW s \in Sessions, Commit(s), NEW o \in Orders
    PROVE  \/ order'[o] = order[o] /\ tx[s].order # o
           \/ /\ tx[s].order = o /\ tx[s].kind = "place" /\ lock[o] = s
              /\ order[o] = "none" /\ order'[o] = "pending"
           \/ /\ tx[s].order = o /\ tx[s].kind \in {"confirm", "cancel"}
              /\ order[o] # "none" /\ order'[o] \in {"fulfilled", "canceled"}
              /\ Held(o) \subseteq tx[s].done
<1>1. order'[o] = WrittenOrder(s)[o]
  BY DEF Commit
<1>2. OrderKnown(s, tx[s]) /\ Programmed(tx[s])
  BY DEF TxInv, Sound
<1>3. CASE tx[s].order # o
  BY <1>1, <1>3 DEF WrittenOrder
<1>4. CASE tx[s].order = o
  <2>1. tx[s].kind \in {"place", "confirm", "cancel"} /\ tx[s].pc = "commit"
    BY <1>2, <1>4, Committing, NoneAssumption DEF Programmed, Resting
  <2> QED
    BY <1>1, <1>2, <1>4, <2>1 DEF WrittenOrder, OrderKnown
<1> QED
  BY <1>3, <1>4

\* np_tracking() after a commit: only the copies it refers to are left.
Shown(todo, rows, item, held, seen) ==
    [Resting EXCEPT !.kind = "np", !.pc = "show", !.todo = todo, !.rseen = rows,
                    !.item = item, !.held = held, !.vseen = seen]

\* It is a session with just these.
LEMMA Showing ==
    ASSUME NEW R \in SUBSET Reservations, NEW H \in SUBSET Variants,
           NEW todo \in SUBSET Reservations, NEW rows \in [R -> Row], NEW item \in Item,
           NEW seen \in [H -> Copy]
    PROVE  Shown(todo, rows, item, H, seen) \in Session(H, R)
<1> DEFINE T1 == [Resting EXCEPT !.kind = "np", !.pc = "show", !.todo = todo,
                                 !.item = item, !.held = H]
<1>1. T1 \in Session({}, {})
  BY RestingType DEF Session, RequestKinds, Statements
<1>2. ASSUME NEW T \in Session({}, {}) PROVE [T EXCEPT !.rseen = rows] \in Session({}, R)
  BY DEF Session
<1>3. ASSUME NEW T \in Session({}, R) PROVE [T EXCEPT !.vseen = seen] \in Session(H, R)
  BY DEF Session
<1>4. Shown(todo, rows, item, H, seen) = [T1 EXCEPT !.rseen = rows, !.vseen = seen]
  BY DEF Shown, Resting
<1>5. [T1 EXCEPT !.rseen = rows, !.vseen = seen]
        = [[T1 EXCEPT !.rseen = rows] EXCEPT !.vseen = seen]
  BY DEF Resting
<1> HIDE DEF T1
<1>6. [[T1 EXCEPT !.rseen = rows] EXCEPT !.vseen = seen] \in Session(H, R)
  BY <1>1, <1>2, <1>3
<1> QED
  BY <1>4, <1>5, <1>6

\* A commit stores values of the right kind.
LEMMA CommitTyped ==
    ASSUME TxInv, NEW s \in Sessions, Commit(s)
    PROVE  TxTypeOK'
<1>1. PICK V \in SUBSET Variants, R \in SUBSET Reservations : tx[s] \in Session(V, R)
  BY DEF TxInv, TxTypeOK
<1>2. /\ DOMAIN tx = Sessions /\ lock \in [LockRows -> Sessions \cup {Free}]
      /\ OrderTypeOK /\ TypeOK /\ CopiesKnown(tx[s])
  BY DEF TxInv, TxTypeOK, OrderTypeOK, Sound
<1>3. onHand' \in [Variants -> Int] /\ reserved' \in [Variants -> Int] /\ notified' \in [Variants -> BOOLEAN]
  <2>1. \A v \in Variants, c \in Columns : <<v, c>> \in tx[s].wrote => tx[s].vseen[v] \in Copy
    BY <1>1, <1>2 DEF CopiesKnown, Session
  <2> QED
    BY <1>2, <2>1 DEF Commit, Written, TypeOK, Columns, Copy
<1>4. resv' \in [Reservations -> Row \cup {Unused}]
  <2>1. \A r \in Reservations : resv'[r] \in Row \cup {Unused}
    BY <1>2, CommitRow DEF TypeOK
  <2> QED
    BY <2>1 DEF Commit, WrittenRows
<1>5. journal' \in [Variants -> [MovementTypes -> Int]]
  <2> DEFINE c == Calls[tx[s].call]
             delta == [v \in Variants |-> c.sign * tx[s].units[v]]
  <2>1. c.type \in MovementTypes /\ c.sign \in {-1, 0, 1}
    BY Committing, CallType
  <2>2. \A v \in Variants : tx[s].units[v] \in Nat
    BY <1>1 DEF Session
  <2>3. delta \in [Variants -> Int]
    <3> HIDE DEF c
    <3>1. \A v \in Variants : c.sign * tx[s].units[v] \in Int
      BY <2>1, <2>2
    <3> QED
      BY <3>1
  <2>4. journal' = Moved(c.type, delta)
    BY DEF Commit
  <2> HIDE DEF c, delta
  <2> QED
    BY <1>2, <2>1, <2>3, <2>4, MovedType
<1>6. order' \in [Orders -> OrderStatuses]
  <2>1. \A o \in Orders : order'[o] \in OrderStatuses
    BY <1>2, CommitOrder DEF OrderTypeOK, OrderStatuses
  <2> QED
    BY <2>1 DEF Commit, WrittenOrder
<1>7. lock' \in [LockRows -> Sessions \cup {Free}]
  BY <1>2 DEF Commit, Unlocked
<1>8. DOMAIN tx' = Sessions /\ \A t \in Sessions \ {s} : tx'[t] = tx[t]
  BY <1>2 DEF Commit
<1>9. \E W \in SUBSET Variants, Q \in SUBSET Reservations : tx'[s] \in Session(W, Q)
  <2>1. CASE tx[s].kind # "np"
    <3>1. tx'[s] = Resting
      BY <1>2, <2>1 DEF Commit
    <3> QED
      BY <3>1, RestingType
  <2>2. CASE tx[s].kind = "np"
    <3> DEFINE seen == [v \in tx[s].held |-> tx[s].vseen[v]]
    <3>1. tx'[s] = Shown(tx[s].todo, tx[s].rseen, tx[s].item, tx[s].held, seen)
      BY <1>2, <2>2 DEF Commit, Shown
    <3>2. tx[s].held \in SUBSET Variants /\ seen \in [tx[s].held -> Copy]
      BY <1>1, <1>2 DEF CopiesKnown, Session
    <3>3. /\ tx[s].todo \in SUBSET Reservations /\ tx[s].item \in Item
          /\ tx[s].rseen \in [R -> Row]
      BY <1>1 DEF Session
    <3> HIDE DEF seen
    <3>4. tx'[s] \in Session(tx[s].held, R)
      BY <3>1, <3>2, <3>3, Showing
    <3> QED
      BY <3>2, <3>4
  <2> QED
    BY <2>1, <2>2
<1> QED
  BY <1>2, <1>3, <1>4, <1>5, <1>6, <1>7, <1>8, <1>9
     DEF TxTypeOK, OrderTypeOK, TypeOK, TxInv

\* A reservation that was handed out stays so.
LEMMA UsedStays ==
    ASSUME TxInv, NEW s \in Sessions, Commit(s), NEW r \in Reservations,
           resv[r].status # "unused"
    PROVE  resv'[r].status # "unused" /\ resv'[r].order = resv[r].order
<1>1. resv[r] \in Row
  BY DEF TxInv, TxTypeOK, OrderTypeOK, TypeOK, Unused
<1> QED
  BY <1>1, CommitRow DEF Row, Statuses, Unused

\* Once an order exists, it gains no reservation, active or not.
LEMMA HeldShrinks ==
    ASSUME TxInv, NEW s \in Sessions, Commit(s), NEW o \in Orders, order[o] # "none"
    PROVE  RowsOf(o)' = RowsOf(o) /\ Held(o)' \subseteq Held(o) \ tx[s].done
<1>1. ASSUME NEW r \in Reservations
      PROVE  /\ resv'[r].order = o <=> resv[r].order = o
             /\ resv'[r].order = o /\ resv'[r].status = "active" =>
                   resv[r].status = "active" /\ r \notin tx[s].done
  <2>1. CASE r \in tx[s].done /\ tx[s].call = "reserve"
    <3>1. resv[r] = Unused /\ resv'[r].order = tx[s].order
      BY <2>1, CommitRow
    <3>2. tx[s].order # o
      BY CommitOrder, Committing, <2>1
    <3> QED
      BY <3>1, <3>2, NoneAssumption DEF Unused
  <2>2. CASE ~(r \in tx[s].done /\ tx[s].call = "reserve")
    BY <2>2, CommitRow
  <2> QED
    BY <2>1, <2>2
<1> QED
  BY <1>1 DEF RowsOf, Held, With, InStatus

\* The commit of a session keeps it and the others sound.
LEMMA CommitKeeps ==
    ASSUME TxInv, NEW s \in Sessions, Commit(s)
    PROVE  TxInv'
<1>1. PICK V \in SUBSET Variants, R \in SUBSET Reservations : tx[s] \in Session(V, R)
  BY DEF TxInv, TxTypeOK
<1>2. /\ DOMAIN tx = Sessions /\ lock \in [LockRows -> Sessions \cup {Free}]
      /\ resv \in [Reservations -> Row \cup {Unused}] /\ Sound(s, tx[s])
  BY DEF TxInv, TxTypeOK, OrderTypeOK, TypeOK
<1>3. TxTypeOK'
  BY CommitTyped
<1>4. \A t \in Sessions \ {s} : /\ tx'[t] = tx[t]
                                /\ \A x \in LockRows : lock[x] = t => lock'[x] = t
  BY <1>2, SessionAssumption DEF Commit, Unlocked
<1>5. Sound(s, tx[s])' /\ tx'[s].call # "reserve"
  <2>1. CASE tx[s].kind # "np"
    <3>1. tx'[s] = Resting
      BY <1>2, <2>1 DEF Commit
    <3> QED
      BY <3>1 DEF Sound, Resting, Programmed, RowsKnown, ItemKnown, CopiesKnown, OrderKnown, VariantCalls
  <2>2. CASE tx[s].kind = "np"
    <3>1. tx'[s] = [Resting EXCEPT
                      !.kind = "np", !.pc = "show", !.todo = tx[s].todo,
                      !.rseen = tx[s].rseen, !.item = tx[s].item, !.held = tx[s].held,
                      !.vseen = [v \in tx[s].held |-> tx[s].vseen[v]]]
      BY <1>2, <2>2 DEF Commit
    <3>2. tx[s].call # "reserve" /\ tx[s].pc = "commit"
      BY <1>2, <2>2, Committing DEF Sound, Programmed, Resting
    <3>3. \A r \in tx[s].todo : resv'[r].status # "unused"
      BY <1>1, <1>2, <3>2, UsedStays DEF Sound, RowsKnown, Session
    <3>4. tx[s].item.variant \in Variants
      BY <1>2, <2>2, <3>2 DEF Sound, ItemKnown
    <3> QED
      BY <3>1, <3>3, <3>4 DEF Sound, Resting, Programmed, RowsKnown, ItemKnown, CopiesKnown, OrderKnown, VariantCalls
  <2> QED
    BY <2>1, <2>2
<1>6. RowsApart'
  BY <1>4, <1>5 DEF TxInv, RowsApart
<1>7. ASSUME NEW t \in Sessions \ {s} PROVE Sound(t, tx[t])'
  <2>1. PICK W \in SUBSET Variants, Q \in SUBSET Reservations : tx[t] \in Session(W, Q)
    BY DEF TxInv, TxTypeOK
  <2>2. Sound(t, tx[t]) /\ tx'[t] = tx[t]
    BY <1>4 DEF TxInv
  <2>3. Programmed(tx[t])' /\ CopiesKnown(tx[t])'
    BY <2>2 DEF Sound, Programmed, CopiesKnown
  <2>4. RowsKnown(tx[t])'
    <3>1. ASSUME tx[t].call = "reserve", NEW r \in DOMAIN tx[t].rseen
          PROVE  resv'[r] = Unused
      <4>1. r \in Reservations /\ resv[r] = Unused
        BY <2>1, <2>2, <3>1 DEF Sound, RowsKnown, Session
      <4>2. ~(tx[s].call = "reserve" /\ r \in DOMAIN tx[s].rseen)
        BY <3>1 DEF TxInv, RowsApart
      <4>3. Unused \notin Row
        BY DEF Unused, Row, Statuses
      <4> QED
        BY <4>1, <4>2, <4>3, CommitRow
    <3>2. ASSUME tx[t].call # "reserve", NEW r \in tx[t].todo \cup tx[t].done
          PROVE  resv'[r].status # "unused"
      BY <2>1, <2>2, <3>2, UsedStays DEF Sound, RowsKnown, Session
    <3> QED
      BY <2>2, <3>1, <3>2 DEF Sound, RowsKnown
  <2>5. ItemKnown(tx[t])'
    BY <2>2, UsedStays DEF Sound, ItemKnown
  <2>6. OrderKnown(t, tx[t])'
    <3>1. tx[t].kind \in {"place", "confirm", "cancel"} => tx[t].order \in Orders
      BY <2>2 DEF Sound, Programmed, Resting
    <3>2. ASSUME tx[t].kind = "place", tx[t].pc # "insert"
          PROVE  lock'[tx[t].order] = t /\ order'[tx[t].order] = "none"
      <4>1. lock[tx[t].order] = t /\ order[tx[t].order] = "none" /\ tx[t].order \in Orders
        BY <2>2, <3>1, <3>2 DEF Sound, OrderKnown
      <4> QED
        BY <1>4, <4>1, CommitOrder DEF LockRows
    <3>3. ASSUME tx[t].kind \in {"confirm", "cancel"}
          PROVE  /\ order'[tx[t].order] # "none"
                 /\ tx[t].pc # "list" => Held(tx[t].order)' \subseteq tx[t].todo \cup tx[t].done
                 /\ tx[t].pc = "commit" => tx[t].todo = {}
      <4> DEFINE o == tx[t].order
      <4>1. o \in Orders /\ order[o] # "none"
        BY <2>2, <3>1, <3>3 DEF Sound, OrderKnown
      <4>2. /\ tx[t].pc # "list" => Held(o) \subseteq tx[t].todo \cup tx[t].done
            /\ tx[t].pc = "commit" => tx[t].todo = {}
        BY <2>2, <3>3 DEF Sound, OrderKnown
      <4>3. order'[o] # "none"
        BY <4>1, CommitOrder
      <4>4. \A p \in Orders : order[p] # "none" => Held(p)' \subseteq Held(p)
        BY HeldShrinks
      <4>5. tx'[t].order = o
        BY <2>2
      <4> HIDE DEF o
      <4> QED
        BY <1>4, <4>1, <4>2, <4>3, <4>4, <4>5
    <3> QED
      BY <2>2, <3>2, <3>3 DEF OrderKnown
  <2> QED
    BY <2>3, <2>4, <2>5, <2>6 DEF Sound
<1> QED
  BY <1>3, <1>5, <1>6, <1>7 DEF TxInv

-----------------------------------------------------------------------------

\* What is known of a session and of the rows it has in hand, for any kinds of
\* requests running next to each other.
LEMMA StepKeeps ==
    ASSUME TxInv, [TxNext]_txVars
    PROVE  TxInv'
<1>1. CASE UNCHANGED txVars
  BY <1>1 DEF txVars, TxInv, TxTypeOK, OrderTypeOK, TypeOK, Sound, RowsApart, Programmed,
              RowsKnown, ItemKnown, CopiesKnown, OrderKnown, Held, With, InStatus
<1>2. ASSUME NEW s \in Sessions, Step(s) PROVE TxInv'
  <2>1. CASE Commit(s)
    BY <2>1, CommitKeeps
  <2>2. CASE NpEnds(s)
    BY <2>2, RollbackKeeps DEF NpEnds
  <2>3. CASE LockVariant(s) \/ \E r \in Reservations : ExpireOne(s, r)
    BY <2>3, ChangeKeeps
  <2> QED
    BY <1>2, <2>1, <2>2, <2>3, ReadKeeps, Zenon DEF Step
<1>3. ASSUME NEW s \in Sessions, Abort(s) PROVE TxInv'
  BY <1>3, RollbackKeeps DEF Abort
<1> QED
  BY <1>1, <1>2, <1>3, ArriveKeeps DEF TxNext

\* At first every session is at rest.
LEMMA TxInvInit ==
    ASSUME TxInit
    PROVE  TxInv
<1>1. DOMAIN tx = Sessions /\ \A s \in Sessions : tx[s] = Resting
  BY DEF TxInit
<1>2. TxTypeOK
  <2>1. OrderTypeOK
    BY OpeningAssumption DEF TxInit, OrderInit, Init, OrderTypeOK, TypeOK, OrderStatuses
  <2>2. \A s \in Sessions : tx[s] \in Session({}, {})
    BY <1>1, RestingType
  <2> QED
    BY <1>1, <2>1, <2>2 DEF TxInit, TxTypeOK
<1>3. \A s \in Sessions : Sound(s, tx[s])
  BY <1>1 DEF Sound, Resting, Programmed, RowsKnown, ItemKnown, CopiesKnown, OrderKnown, VariantCalls
<1>4. RowsApart
  BY <1>1 DEF RowsApart, Resting
<1> QED
  BY <1>2, <1>3, <1>4 DEF TxInv

\* The invariant holds whatever kinds of requests overlap.
LEMMA TxInvAlways == TxSafe => []TxInv
<1>1. TxInit => TxInv
  BY TxInvInit
<1>2. TxInv /\ [TxNext]_txVars => TxInv'
  BY StepKeeps
<1> QED
  BY <1>1, <1>2, PTL DEF TxSafe

\* Whatever runs next to whatever, and wherever a session dies: rows, counters,
\* locks and sessions keep their types.
THEOREM TxTyped == TxSafe => []TxTypeOK
<1>1. TxInv => TxTypeOK
  BY DEF TxInv
<1> QED
  BY <1>1, TxInvAlways, PTL

\* Only a commit writes.
LEMMA OnlyCommits ==
    ASSUME [TxNext]_txVars
    PROVE  UNCHANGED dbVars \/ \E s \in Sessions : Commit(s)
<1>1. ASSUME NEW s \in Sessions, Step(s) PROVE UNCHANGED dbVars \/ Commit(s)
  BY <1>1 DEF Step, InsertOrder, ListHeld, LockVariant, ShowName, NpEnds, Preload,
              LockReservation, TakeAnswer, SkipAnswer, ExpireOne, Flush, Rollback, dbVars
<1>2. ASSUME NEW s \in Sessions, Arrive(s) \/ Abort(s) PROVE UNCHANGED dbVars
  BY <1>2 DEF Arrive, BeginOnReservation, BeginReserve, BeginOnVariant, BeginPlace,
              BeginDecision, BeginTtn, BeginNp, BeginExpire, BeginScan, Begin, Abort, Rollback
<1> QED
  BY <1>1, <1>2 DEF TxNext, txVars, dbVars

\* Idempotency, statement by statement: two requests with one key at a time, a
\* confirmation next to them or a crash between, and the key still buys its
\* reservations once.
THEOREM TxKeyBuysOnce == TxSafe => PlacedOnce
<1>1. ASSUME TxInv, [TxNext]_txVars
      PROVE  [\A o \in Orders : order[o] # "none" => RowsOf(o)' = RowsOf(o)]_orderVars
  <2>1. CASE UNCHANGED dbVars
    BY <2>1 DEF dbVars, orderVars
  <2>2. CASE \E s \in Sessions : Commit(s)
    BY <1>1, <2>2, HeldShrinks
  <2> QED
    BY <1>1, <2>1, <2>2, OnlyCommits
<1> QED
  BY <1>1, TxInvAlways, PTL DEF TxSafe, PlacedOnce

\* A decided order holds nothing, though the decision was taken on a list of
\* reservations and on a status that may be out of date, and a second decision
\* may overlap it.
THEOREM TxDecidedHoldsNothing == TxSafe => []SettledOrderHoldsNothing
<1>1. TxInit => SettledOrderHoldsNothing
  BY DEF TxInit, OrderInit, SettledOrderHoldsNothing
<1>2. ASSUME TxInv, [TxNext]_txVars, SettledOrderHoldsNothing PROVE SettledOrderHoldsNothing'
  <2>1. CASE UNCHANGED dbVars
    BY <1>2, <2>1 DEF dbVars, SettledOrderHoldsNothing, Held, With, InStatus
  <2>2. ASSUME NEW s \in Sessions, Commit(s), NEW o \in Orders,
               order'[o] \in {"fulfilled", "canceled"}
        PROVE  Held(o)' = {}
    <3>1. order[o] # "none" /\ (order[o] = order'[o] \/ Held(o) \subseteq tx[s].done)
      BY <1>2, <2>2, CommitOrder
    <3>2. Held(o)' \subseteq Held(o) \ tx[s].done
      BY <1>2, <2>2, <3>1, HeldShrinks
    <3> QED
      BY <1>2, <2>2, <3>1, <3>2 DEF SettledOrderHoldsNothing
  <2> QED
    BY <1>2, <2>1, <2>2, OnlyCommits DEF SettledOrderHoldsNothing
<1> QED
  BY <1>1, <1>2, TxInvAlways, PTL DEF TxSafe

-----------------------------------------------------------------------------
(* One after the other: what the copies of a session are worth when its    *)
(* requests lock before they read, or run alone.                           *)

\* The endpoints run next to each other, every other kind of request alone: the
\* others read rows before they lock them, and a run shows what becomes of it.
OnlyApiOverlaps == Kinds \ {"api"} \subseteq Solo

\* The rows a session moves units of: those it makes, or those of the table.
Rows(T) == IF T.call = "reserve" THEN T.rseen ELSE resv

\* The calls that move the units of reservations.
Moving == (ReservationCalls \ {"updateTtn"}) \cup {"reserve", "expire"}

\* The units moved are those of the reservations changed.
UnitsDue(T) ==
    /\ T.call \in Moving => \A v \in Variants : T.units[v] = QtyOn(Rows(T), T.done, v)
    /\ T.call \in VariantCalls =>
          \A v \in Variants :
              T.units[v] = IF T.pc = "commit" /\ v = T.item.variant THEN T.item.qty ELSE 0
    /\ T.call \in {"none", "scan", "updateTtn"} => \A v \in Variants : T.units[v] = 0

\* The copy of v a session has: the row as it is stored, with the units of the
\* session taken.
Due(T, v) ==
    CASE T.call = "none" -> Stored(v)
      [] T.call = "scan" -> [Stored(v) EXCEPT !.notified = TRUE]
      [] OTHER -> After(Stored(v), v, T.call, T.units[v])

CopiesDue(T) ==
    /\ \A v \in Variants \ DOMAIN T.vseen : T.units[v] = 0
    /\ \A v \in DOMAIN T.vseen : T.vseen[v] = Due(T, v)
    /\ \A v \in DOMAIN T.vseen, c \in Columns :
          T.vseen[v][c] = Stored(v)[c] \/ <<v, c>> \in T.wrote

\* The check on the counters, made unit by unit, holds of all of them together
\* and of the row as it is stored now.
Checked(T) ==
    \A v \in Variants : T.units[v] > 0 =>
        /\ T.call \in {"reserve", "sell", "writeOff"} => T.units[v] <= Available(v)
        /\ T.call = "fulfill" => T.units[v] <= onHand[v]

\* What a session has read of the reservations it works on is still so.
RowsDue(T) ==
    /\ T.call # "updateTtn" => T.todo \cap T.done = {}
    /\ T.call # "reserve" =>
          /\ \A r \in DOMAIN T.rseen \cap (T.todo \cup T.done) : T.rseen[r] = resv[r]
          /\ \A r \in T.done : resv[r].status = Calls[T.call].from
    /\ T.pc = "variant" =>
          /\ T.item.qty \in Qtys /\ T.call # "updateTtn"
          /\ T.call \notin VariantCalls =>
                /\ T.item.r \notin T.done
                /\ Rows(T)[T.item.r].variant = T.item.variant
                /\ Rows(T)[T.item.r].qty = T.item.qty
                /\ T.call # "reserve" =>
                      T.item.r \in T.todo /\ resv[T.item.r].status = Calls[T.call].from

\* What the request of each kind is about.
Whole(T) ==
    /\ T.kind \in {"api", "ttn", "np"} /\ T.call \notin VariantCalls =>
          T.done = IF T.pc = "commit" THEN {T.item.r} ELSE {}
    /\ T.call \in VariantCalls /\ T.pc = "commit" =>
          T.item.qty \in Qtys /\ T.item.variant \in Variants
    /\ T.call = "restock" =>
          journal[T.item.variant]["restock"] + T.item.qty <= MaxRestock
    /\ T.kind = "ttn" => \A a, b \in T.todo : a = b
    /\ T.kind = "place" =>
          /\ T.todo \cup T.done = DOMAIN T.rseen
          /\ DOMAIN T.rseen # {}
          /\ \A r \in DOMAIN T.rseen : ~T.rseen[r].deadline
          /\ T.pc = "commit" => T.todo = {}
    /\ T.kind \in {"confirm", "cancel"} =>
          /\ order[T.order] = "pending"
          /\ IF T.pc = "list" THEN T.todo \cup T.done = {}
             ELSE T.todo \cup T.done = Held(T.order)
    /\ T.kind = "expire" =>
          /\ \A r \in T.todo \cup T.done :
                r \in DOMAIN T.rseen /\ resv[r].status = "active" /\ resv[r].deadline
          /\ \A v \in DOMAIN T.vseen : T.units[v] > 0
    /\ T.kind = "scan" =>
          DOMAIN T.vseen = {v \in Variants : ~notified[v] /\ Available(v) <= Threshold[v]}
    /\ T.kind = "np" /\ T.pc # "commit" => T.wrote = {}

\* What an endpoint has read, it has locked first.
Owned(s, T) ==
    T.kind = "api" =>
       /\ \A v \in DOMAIN T.vseen : lock[v] = s
       /\ DOMAIN T.vseen \subseteq IF T.pc = "commit" THEN {T.item.variant} ELSE {}
       /\ T.pc = "call" => DOMAIN T.rseen = {}
       /\ T.call \in ReservationCalls /\ T.pc # "call" =>
             T.todo \cup T.done = {T.item.r} /\ lock[T.item.r] = s /\ T.item.r \in Reservations

Exact(s, T) ==
    /\ UnitsDue(T)
    /\ CopiesDue(T)
    /\ Checked(T)
    /\ RowsDue(T)
    /\ Whole(T)
    /\ Owned(s, T)

\* What Solo of all kinds but the endpoints comes to.
Solos ==
    /\ \A s \in Sessions : tx[s].pc # "idle" => tx[s].kind \in Kinds
    /\ \A s, t \in Sessions :
          s # t /\ tx[s].pc # "idle" /\ tx[t].pc # "idle" =>
             /\ tx[s].kind = "api" /\ tx[t].kind = "api"
             /\ ~(tx[s].call = "restock" /\ tx[t].call = "restock")

SerialInv ==
    /\ TxInv
    /\ \A s \in Sessions : Exact(s, tx[s])
    /\ Solos

-----------------------------------------------------------------------------
(* Statements that write nothing keep what was read exact. *)

\* A call that takes nothing changes nothing.
LEMMA AfterNothing ==
    ASSUME NEW copy \in Copy, NEW v \in Variants, NEW name \in CallNames \ {"restock", "expire"}
    PROVE  After(copy, v, name, 0) = copy
<1>1. Calls[name].hand * 0 = 0 /\ Calls[name].earmark * 0 = 0
  BY CallType
<1> HIDE DEF Calls
<1> QED
  BY <1>1 DEF After, Copy

\* A call made twice on a copy is the call made once for the units of both.
LEMMA AfterAdds ==
    ASSUME NEW copy \in Copy, NEW v \in Variants, NEW name \in CallNames \ {"restock"},
           NEW n \in Nat, NEW q \in Nat
    PROVE  After(After(copy, v, name, n), v, name, q) = After(copy, v, name, n + q)
<1> DEFINE h == Calls[name].hand
           e == Calls[name].earmark
<1>1. h \in {-1, 0, 1} /\ e \in {-1, 0, 1}
  BY CallType
<1>2. name = "expire" => e = -1
  BY DEF Calls, Call, ExpireCall
<1>3. h * (n + q) = h * n + h * q /\ e * (n + q) = e * n + e * q
  BY <1>1
<1>4. h * n \in Int /\ h * q \in Int /\ e * n \in Int /\ e * q \in Int
  BY <1>1
<1>5. \A c \in Copy, m \in Nat :
        After(c, v, name, m) =
          [onHand |-> c.onHand + h * m,
           reserved |-> IF name = "expire" /\ c.reserved + e * m < 0 THEN 0 ELSE c.reserved + e * m,
           notified |-> c.notified]
  BY DEF After, Copy
<1>6. After(copy, v, name, n) \in Copy
  BY AfterType
<1>7. e = -1 => e * n = -n /\ e * q = -q
  OBVIOUS
<1> HIDE DEF h, e
<1>8. copy.onHand + h * n + h * q = copy.onHand + h * (n + q)
  BY <1>3, <1>4 DEF Copy
<1>9. (copy.reserved + e * n) + e * q = copy.reserved + e * (n + q)
  BY <1>3, <1>4 DEF Copy
<1> QED
  BY <1>2, <1>4, <1>5, <1>6, <1>7, <1>8, <1>9 DEF Copy

\* What every proof about a session begins with.
LEMMA SessionIs ==
    ASSUME TxInv, NEW s \in Sessions
    PROVE  /\ \E V \in SUBSET Variants, R \in SUBSET Reservations : tx[s] \in Session(V, R)
           /\ Sound(s, tx[s])
           /\ DOMAIN tx = Sessions /\ lock \in [LockRows -> Sessions \cup {Free}]
           /\ TypeOK /\ order \in [Orders -> OrderStatuses]
BY DEF TxInv, TxTypeOK, OrderTypeOK

\* A session is idle when it rests.
LEMMA IdleRests ==
    ASSUME TxInv, NEW s \in Sessions
    PROVE  /\ tx[s].pc = "idle" <=> tx[s] = Resting
           /\ tx[s].pc # "idle" => tx[s].kind # "none"
<1>1. Programmed(tx[s])
  BY DEF TxInv, Sound
<1>2. CASE tx[s] = Resting
  BY <1>2 DEF Resting
<1>3. CASE tx[s] # Resting
  <2>1. tx[s].kind # "none" /\ tx[s].pc # "idle"
    BY <1>1, <1>3 DEF Programmed
  <2> QED
    BY <1>3, <2>1
<1> QED
  BY <1>2, <1>3

\* While nothing is written, what a session has read stays what is stored.
LEMMA ExactStays ==
    ASSUME SerialInv, NEW t \in Sessions, UNCHANGED dbVars, tx'[t] = tx[t],
           \A x \in LockRows : lock[x] = t => lock'[x] = t
    PROVE  Exact(t, tx[t])'
<1>1. PICK V \in SUBSET Variants, R \in SUBSET Reservations : tx[t] \in Session(V, R)
  BY SessionIs DEF SerialInv
<1>2. Exact(t, tx[t])
  BY DEF SerialInv
<1>3. UnitsDue(tx[t])'
  BY <1>2 DEF Exact, UnitsDue, Rows, QtyOn, Units, dbVars
<1>4. CopiesDue(tx[t])'
  BY <1>2 DEF Exact, CopiesDue, Due, Stored, dbVars
<1>5. Checked(tx[t])'
  BY <1>2 DEF Exact, Checked, Available, dbVars
<1>6. RowsDue(tx[t])'
  BY <1>2 DEF Exact, RowsDue, Rows, dbVars
<1>7. Whole(tx[t])'
  <2>1. \A o : Held(o)' = Held(o)
    BY DEF dbVars, Held, With, InStatus
  <2>2. \A v \in Variants : Available(v)' = Available(v)
    BY DEF dbVars, Available
  <2> QED
    BY <1>2, <2>1, <2>2 DEF Exact, Whole, dbVars
<1>8. Owned(t, tx[t])'
  BY <1>1, <1>2 DEF Exact, Owned, LockRows, Session
<1> QED
  BY <1>3, <1>4, <1>5, <1>6, <1>7, <1>8 DEF Exact

\* Session s writes nothing and leaves the others and their locks alone.
Calm(s) ==
    /\ UNCHANGED dbVars
    /\ \A t \in Sessions \ {s} :
          /\ tx'[t] = tx[t]
          /\ \A x \in LockRows : lock[x] = t => lock'[x] = t

\* A statement that writes nothing keeps the other sessions exact.
LEMMA QuietSerial ==
    ASSUME SerialInv, NEW s \in Sessions, Calm(s), TxInv', Exact(s, tx[s])',
           \/ tx'[s].pc = "idle"
           \/ /\ tx[s].pc # "idle" /\ tx'[s].kind = tx[s].kind
              /\ tx'[s].call = "restock" => tx[s].call = "restock"
           \/ Solos'
    PROVE  SerialInv'
<1>1. ASSUME NEW t \in Sessions PROVE Exact(t, tx[t])'
  <2>1. CASE t # s
    <3>1. UNCHANGED dbVars /\ tx'[t] = tx[t]
      BY <2>1 DEF Calm
    <3>2. \A x \in LockRows : lock[x] = t => lock'[x] = t
      BY <2>1 DEF Calm
    <3> QED
      BY <3>1, <3>2, ExactStays
  <2> QED
    BY <2>1
<1>2. Solos'
  <2>1. \A t \in Sessions \ {s} : tx'[t] = tx[t]
    BY DEF Calm
  <2>2. CASE tx'[s].pc = "idle"
    BY <2>1, <2>2 DEF SerialInv, Solos
  <2>3. CASE /\ tx[s].pc # "idle" /\ tx'[s].kind = tx[s].kind
             /\ tx'[s].call = "restock" => tx[s].call = "restock"
    BY <2>1, <2>3 DEF SerialInv, Solos
  <2> QED
    BY <2>2, <2>3
<1> QED
  BY <1>1, <1>2 DEF SerialInv

\* A session at rest has read nothing.
LEMMA RestingExact ==
    ASSUME NEW s
    PROVE  Exact(s, Resting)
<1>1. \A v \in Variants : Resting.units[v] = 0
  BY DEF Resting
<1>2. UnitsDue(Resting) /\ Checked(Resting)
  BY <1>1 DEF UnitsDue, Checked, Resting, Moving, ReservationCalls, VariantCalls
<1>3. CopiesDue(Resting)
  BY <1>1 DEF CopiesDue, Resting
<1>4. RowsDue(Resting) /\ Whole(Resting) /\ Owned(s, Resting)
  BY DEF RowsDue, Whole, Owned, Resting, VariantCalls
<1> QED
  BY <1>2, <1>3, <1>4 DEF Exact

\* The same of the next state.
LEMMA RestingExactNext ==
    ASSUME NEW s \in Sessions, tx'[s] = Resting
    PROVE  Exact(s, tx[s])'
<1>1. \A v \in Variants : Resting.units[v] = 0
  BY DEF Resting
<1>2. UnitsDue(tx[s])' /\ Checked(tx[s])'
  BY <1>1 DEF UnitsDue, Checked, Resting, Moving, ReservationCalls, VariantCalls
<1>3. CopiesDue(tx[s])'
  BY <1>1 DEF CopiesDue, Resting
<1>4. RowsDue(tx[s])' /\ Whole(tx[s])' /\ Owned(s, tx[s])'
  BY DEF RowsDue, Whole, Owned, Resting, VariantCalls
<1> QED
  BY <1>2, <1>3, <1>4 DEF Exact

\* Giving up writes nothing and gives back what was locked.
LEMMA RollbackSerial ==
    ASSUME SerialInv, NEW s \in Sessions, Rollback(s)
    PROVE  SerialInv'
<1>0. TxInv
  BY DEF SerialInv
<1>1. DOMAIN tx = Sessions /\ lock \in [LockRows -> Sessions \cup {Free}]
  BY <1>0, SessionIs
<1>2. tx'[s] = Resting
  BY <1>1 DEF Rollback
<1>3. TxInv'
  BY <1>0, RollbackKeeps
<1>4. Calm(s)
  BY <1>1, SessionAssumption DEF Calm, Rollback, Unlocked
<1>5. tx'[s].pc = "idle"
  BY <1>2 DEF Resting
<1> QED
  BY <1>2, <1>3, <1>4, <1>5, QuietSerial, RestingExactNext

\* A request that has not called the stock service yet has moved no units.
LEMMA Fresh ==
    ASSUME NEW T, T.done = {}, \A v \in Variants : T.units[v] = 0, DOMAIN T.vseen = {},
           T.pc # "commit"
    PROVE  UnitsDue(T) /\ CopiesDue(T) /\ Checked(T)
<1>1. \A v \in Variants : QtyOn(Rows(T), {}, v) = 0
  BY QtyNone
<1> QED
  BY <1>1 DEF UnitsDue, CopiesDue, Checked, Moving

\* A request begins exact, and alone if it must be.
LEMMA BeginSerial ==
    ASSUME SerialInv, OnlyApiOverlaps, NEW s \in Sessions, NEW request, Begin(s, request),
           TxInv', Exact(s, request), request.kind \in Kinds, request.pc # "idle",
           request.call = "restock" => \A t \in Sessions : tx[t].call # "restock"
    PROVE  SerialInv'
<1>1. DOMAIN tx = Sessions /\ TxInv
  BY SessionIs DEF SerialInv
<1>2. /\ tx'[s] = request /\ UNCHANGED dbVars /\ lock' = lock
      /\ \A t \in Sessions \ {s} : tx'[t] = tx[t]
  BY <1>1 DEF Begin
<1>3. Exact(s, tx[s])'
  <2>1. UnitsDue(tx[s])'
    BY <1>2 DEF Exact, UnitsDue, Rows, QtyOn, Units, dbVars
  <2>2. CopiesDue(tx[s])'
    BY <1>2 DEF Exact, CopiesDue, Due, Stored, dbVars
  <2>3. Checked(tx[s])'
    BY <1>2 DEF Exact, Checked, Available, dbVars
  <2>4. RowsDue(tx[s])'
    BY <1>2 DEF Exact, RowsDue, Rows, dbVars
  <2>5. Whole(tx[s])'
    <3>1. \A o : Held(o)' = Held(o)
      BY <1>2 DEF dbVars, Held, With, InStatus
    <3>2. \A v \in Variants : Available(v)' = Available(v)
      BY <1>2 DEF dbVars, Available
    <3> QED
      BY <1>2, <3>1, <3>2 DEF Exact, Whole, dbVars
  <2>6. Owned(s, tx[s])'
    BY <1>2 DEF Exact, Owned
  <2> QED
    BY <2>1, <2>2, <2>3, <2>4, <2>5, <2>6 DEF Exact
<1>4. ASSUME NEW t \in Sessions \ {s} PROVE Exact(t, tx[t])'
  BY <1>2, ExactStays
<1>5. Solos'
  <2>1. \A t \in Sessions \ {s} : tx[t].pc # "idle" =>
          tx[t].kind = "api" /\ request.kind = "api"
    BY DEF Begin, SerialInv, Solos, OnlyApiOverlaps
  <2> QED
    BY <1>2, <2>1 DEF SerialInv, Solos
<1> QED
  BY <1>3, <1>4, <1>5 DEF SerialInv

\* So do all kinds of requests.
LEMMA ArriveSerial ==
    ASSUME SerialInv, OnlyApiOverlaps, NEW s \in Sessions, Arrive(s)
    PROVE  SerialInv'
<1> USE DEF RowsDue, Whole, Owned, Rows, Exact
<1>0. TypeOK /\ order \in [Orders -> OrderStatuses] /\ TxInv
  BY SessionIs DEF SerialInv
<1>a. TxInv'
  BY <1>0, ArriveKeeps
<1>1. ASSUME NEW r \in Reservations, NEW name \in ReservationCalls, NEW ttn \in BOOLEAN,
             BeginOnReservation(s, r, name, ttn)
      PROVE  SerialInv'
  <2> DEFINE request == [Resting EXCEPT !.kind = "api", !.pc = "call", !.call = name,
                                        !.todo = {r}, !.ttn = ttn]
  <2>1. Begin(s, request) /\ "api" \in Kinds
    BY <1>1 DEF BeginOnReservation
  <2>2. UnitsDue(request) /\ CopiesDue(request) /\ Checked(request)
    <3>1. /\ request.done = {} /\ DOMAIN request.vseen = {} /\ request.pc # "commit"
          /\ \A v \in Variants : request.units[v] = 0
      BY DEF Resting
    <3> HIDE DEF request
    <3> QED
      BY <3>1, Fresh
  <2>3. Exact(s, request)
    BY <2>2 DEF Resting, ReservationCalls, VariantCalls
  <2>4. request.kind = "api" /\ request.pc = "call" /\ request.call # "restock"
    BY DEF Resting, ReservationCalls
  <2> HIDE DEF request, RowsDue, Whole, Owned, Rows, Exact
  <2> QED
    BY <1>a, <2>1, <2>3, <2>4, BeginSerial
<1>2. ASSUME NEW r \in Reservations, NEW v \in Variants, NEW q \in Qtys, NEW d \in BOOLEAN,
             BeginReserve(s, r, v, q, d)
      PROVE  SerialInv'
  <2> DEFINE request == [Resting EXCEPT !.kind = "api", !.pc = "variant", !.call = "reserve",
                                !.item = [r |-> r, variant |-> v, qty |-> q],
                                !.rseen = [x \in {r} |-> NewRow(v, q, NoOrder, d)]]
  <2>1. Begin(s, request) /\ "api" \in Kinds
    BY <1>2 DEF BeginReserve
  <2>2. UnitsDue(request) /\ CopiesDue(request) /\ Checked(request)
    <3>1. /\ request.done = {} /\ DOMAIN request.vseen = {} /\ request.pc # "commit"
          /\ \A x \in Variants : request.units[x] = 0
      BY DEF Resting
    <3> HIDE DEF request
    <3> QED
      BY <3>1, Fresh
  <2>3. Exact(s, request)
    BY <2>2 DEF Resting, ReservationCalls, VariantCalls, NewRow
  <2>4. request.kind = "api" /\ request.pc = "variant" /\ request.call # "restock"
    BY DEF Resting
  <2> HIDE DEF request, RowsDue, Whole, Owned, Rows, Exact
  <2> QED
    BY <1>a, <2>1, <2>3, <2>4, BeginSerial
<1>3. ASSUME NEW v \in Variants, NEW q \in Qtys, NEW name \in VariantCalls,
             BeginOnVariant(s, v, q, name)
      PROVE  SerialInv'
  <2> DEFINE request == [Resting EXCEPT !.kind = "api", !.pc = "variant", !.call = name,
                                !.item = [r |-> NoReservation, variant |-> v, qty |-> q]]
  <2>1. Begin(s, request) /\ "api" \in Kinds
    BY <1>3 DEF BeginOnVariant
  <2>2. UnitsDue(request) /\ CopiesDue(request) /\ Checked(request)
    <3>1. /\ request.done = {} /\ DOMAIN request.vseen = {} /\ request.pc # "commit"
          /\ \A x \in Variants : request.units[x] = 0
      BY DEF Resting
    <3> HIDE DEF request
    <3> QED
      BY <3>1, Fresh
  <2>3. Exact(s, request)
    BY <1>3, <2>2 DEF Resting, ReservationCalls, VariantCalls, BeginOnVariant
  <2>4. /\ request.kind = "api" /\ request.pc = "variant"
        /\ request.call = "restock" => \A t \in Sessions : tx[t].call # "restock"
    BY <1>3 DEF Resting, BeginOnVariant
  <2> HIDE DEF request, RowsDue, Whole, Owned, Rows, Exact
  <2> QED
    BY <1>a, <2>1, <2>3, <2>4, BeginSerial
<1>4. ASSUME NEW o \in Orders, NEW S \in (SUBSET With("unused")) \ {{}},
             NEW rows \in [S -> OrderRows(o)], BeginPlace(s, o, rows)
      PROVE  SerialInv'
  <2> DEFINE request == [Resting EXCEPT !.kind = "place", !.pc = "insert", !.call = "reserve",
                                !.order = o, !.todo = DOMAIN rows, !.rseen = rows]
  <2>1. Begin(s, request) /\ "place" \in Kinds
    BY <1>4 DEF BeginPlace
  <2>2. UnitsDue(request) /\ CopiesDue(request) /\ Checked(request)
    <3>1. /\ request.done = {} /\ DOMAIN request.vseen = {} /\ request.pc # "commit"
          /\ \A v \in Variants : request.units[v] = 0
      BY DEF Resting
    <3> HIDE DEF request
    <3> QED
      BY <3>1, Fresh
  <2>3. S # {} /\ DOMAIN rows = S /\ \A r \in S : ~rows[r].deadline
    BY DEF OrderRows
  <2>4. Exact(s, request)
    <3>1. /\ request.kind = "place" /\ request.pc = "insert" /\ request.call = "reserve"
          /\ request.todo = S /\ request.done = {} /\ request.rseen = rows
      BY <2>3 DEF Resting
    <3> HIDE DEF request
    <3> QED
      BY <2>2, <2>3, <3>1 DEF VariantCalls
  <2>5. request.kind = "place" /\ request.pc = "insert" /\ request.call # "restock"
    BY DEF Resting
  <2> HIDE DEF request, RowsDue, Whole, Owned, Rows, Exact
  <2> QED
    BY <1>a, <2>1, <2>4, <2>5, BeginSerial
<1>5. ASSUME NEW o \in Orders, NEW kind \in {"confirm", "cancel"}, BeginDecision(s, o, kind)
      PROVE  SerialInv'
  <2> DEFINE name == IF kind = "confirm" THEN "fulfill" ELSE "release"
             request == [Resting EXCEPT !.kind = kind, !.pc = "list", !.order = o,
                                        !.call = name]
  <2>1. Begin(s, request) /\ kind \in Kinds /\ order[o] = "pending"
    BY <1>5 DEF BeginDecision
  <2>2. UnitsDue(request) /\ CopiesDue(request) /\ Checked(request)
    <3>1. /\ request.done = {} /\ DOMAIN request.vseen = {} /\ request.pc # "commit"
          /\ \A v \in Variants : request.units[v] = 0
      BY DEF Resting
    <3> HIDE DEF request
    <3> QED
      BY <3>1, Fresh
  <2>3. Exact(s, request)
    BY <2>1, <2>2 DEF Resting, VariantCalls
  <2>4. request.kind = kind /\ request.pc = "list" /\ request.call # "restock"
    BY DEF Resting
  <2> HIDE DEF request, RowsDue, Whole, Owned, Rows, Exact
  <2> QED
    BY <1>a, <2>1, <2>3, <2>4, BeginSerial
<1>6. ASSUME NEW r \in Reservations, BeginTtn(s, r)
      PROVE  SerialInv'
  <2> DEFINE request == [Resting EXCEPT !.kind = "ttn", !.pc = "preload", !.call = "ship",
                                !.ttn = TRUE, !.todo = {r}, !.rseen = [x \in {r} |-> resv[r]]]
  <2>1. Begin(s, request) /\ "ttn" \in Kinds
    BY <1>6 DEF BeginTtn
  <2>2. UnitsDue(request) /\ CopiesDue(request) /\ Checked(request)
    <3>1. /\ request.done = {} /\ DOMAIN request.vseen = {} /\ request.pc # "commit"
          /\ \A v \in Variants : request.units[v] = 0
      BY DEF Resting
    <3> HIDE DEF request
    <3> QED
      BY <3>1, Fresh
  <2>3. Exact(s, request)
    BY <2>2 DEF Resting, VariantCalls
  <2>4. request.kind = "ttn" /\ request.pc = "preload" /\ request.call # "restock"
    BY DEF Resting
  <2> HIDE DEF request, RowsDue, Whole, Owned, Rows, Exact
  <2> QED
    BY <1>a, <2>1, <2>3, <2>4, BeginSerial
<1>7. ASSUME BeginNp(s)
      PROVE  SerialInv'
  <2> DEFINE S == {r \in With("shipped") : resv[r].ttn}
             request == [Resting EXCEPT !.kind = "np", !.pc = "answer", !.todo = S,
                                    !.rseen = [r \in S |-> resv[r]]]
  <2>1. Begin(s, request) /\ "np" \in Kinds
    BY <1>7 DEF BeginNp
  <2>2. UnitsDue(request) /\ CopiesDue(request) /\ Checked(request)
    <3>1. /\ request.done = {} /\ DOMAIN request.vseen = {} /\ request.pc # "commit"
          /\ \A v \in Variants : request.units[v] = 0
      BY DEF Resting
    <3> HIDE DEF request
    <3> QED
      BY <3>1, Fresh
  <2>3. Exact(s, request)
    <3> HIDE DEF S
    <3> QED
      BY <2>2 DEF Resting, VariantCalls
  <2>4. request.kind = "np" /\ request.pc = "answer" /\ request.call # "restock"
    BY DEF Resting
  <2> HIDE DEF request, RowsDue, Whole, Owned, Rows, Exact
  <2> QED
    BY <1>a, <2>1, <2>3, <2>4, BeginSerial
<1>8. ASSUME NEW S, BeginExpire(s, S)
      PROVE  SerialInv'
  <2> DEFINE request == [Resting EXCEPT !.kind = "expire", !.pc = "flush", !.call = "expire",
                                !.todo = S, !.rseen = [r \in S |-> resv[r]]]
  <2>1. Begin(s, request) /\ "expire" \in Kinds
        /\ \A r \in S : resv[r].status = "active" /\ resv[r].deadline
    BY <1>8 DEF BeginExpire, With, InStatus
  <2>2. UnitsDue(request) /\ CopiesDue(request) /\ Checked(request)
    <3>1. /\ request.done = {} /\ DOMAIN request.vseen = {} /\ request.pc # "commit"
          /\ \A v \in Variants : request.units[v] = 0
      BY DEF Resting
    <3> HIDE DEF request
    <3> QED
      BY <3>1, Fresh
  <2>3. Exact(s, request)
    BY <2>1, <2>2 DEF Resting, VariantCalls
  <2>4. request.kind = "expire" /\ request.pc = "flush" /\ request.call # "restock"
    BY DEF Resting
  <2> HIDE DEF request, RowsDue, Whole, Owned, Rows, Exact
  <2> QED
    BY <1>a, <2>1, <2>3, <2>4, BeginSerial
<1>9. ASSUME BeginScan(s)
      PROVE  SerialInv'
  <2> DEFINE S == {v \in Variants : ~notified[v] /\ Available(v) <= Threshold[v]}
             request == [Resting EXCEPT !.kind = "scan", !.pc = "flush", !.call = "scan",
                       !.wrote = S \X {"notified"},
                       !.vseen = [v \in S |-> [Stored(v) EXCEPT !.notified = TRUE]]]
  <2>1. Begin(s, request) /\ "scan" \in Kinds
    BY <1>9 DEF BeginScan
  <2>2. \A v \in Variants : request.units[v] = 0
    BY DEF Resting
  <2>3. /\ request.kind = "scan" /\ request.pc = "flush" /\ request.call = "scan"
        /\ request.wrote = S \X {"notified"} /\ request.todo = {} /\ request.done = {}
        /\ request.vseen = [v \in S |-> [Stored(v) EXCEPT !.notified = TRUE]]
        /\ request.rseen = <<>>
    BY DEF Resting
  <2> HIDE DEF request
  <2>4. UnitsDue(request) /\ Checked(request)
    BY <2>2, <2>3 DEF UnitsDue, Checked, Moving, ReservationCalls, VariantCalls
  <2>5. CopiesDue(request)
    <3>1. \A v \in S : request.vseen[v] = Due(request, v)
      BY <2>3 DEF Due
    <3>2. \A v \in S, c \in Columns : request.vseen[v][c] = Stored(v)[c] \/ <<v, c>> \in request.wrote
      BY <2>3 DEF Columns, Stored
    <3>3. DOMAIN request.vseen = S
      BY <2>3
    <3> HIDE DEF S
    <3> QED
      BY <2>2, <3>1, <3>2, <3>3 DEF CopiesDue
  <2>6. Exact(s, request)
    BY <2>3, <2>4, <2>5 DEF VariantCalls
  <2> QED
    BY <1>a, <2>1, <2>3, <2>6, BeginSerial
<1> QED
  BY <1>1, <1>2, <1>3, <1>4, <1>5, <1>6, <1>7, <1>8, <1>9, Zenon DEF Arrive

\* A variant read by a plain SELECT is what the session should have of it.
LEMMA ReadsDue ==
    ASSUME SerialInv, NEW s \in Sessions, NEW v \in Variants,
           tx[s].call \in (CallNames \ {"restock", "expire", "scan"}) \cup {"none"}
    PROVE  /\ ReadVariant(s, v) = Due(tx[s], v)
           /\ \A c \in Columns : ReadVariant(s, v)[c] = Stored(v)[c] \/ <<v, c>> \in tx[s].wrote
<1>1. CopiesDue(tx[s]) /\ TypeOK
  BY SessionIs DEF SerialInv, Exact
<1>2. CASE v \in DOMAIN tx[s].vseen
  BY <1>1, <1>2 DEF CopiesDue, ReadVariant
<1>3. CASE v \notin DOMAIN tx[s].vseen
  <2>1. ReadVariant(s, v) = Stored(v) /\ tx[s].units[v] = 0
    BY <1>1, <1>3 DEF CopiesDue, ReadVariant
  <2>2. Stored(v) \in Copy
    BY <1>1 DEF TypeOK, Stored, Copy
  <2>3. tx[s].call # "none" => After(Stored(v), v, tx[s].call, 0) = Stored(v)
    BY <2>2, AfterNothing
  <2>4. Due(tx[s], v) = Stored(v)
    BY <2>1, <2>3 DEF Due
  <2> QED
    BY <2>1, <2>4
<1> QED
  BY <1>2, <1>3

\* Statements that read, or take a lock, keep the copies exact.
LEMMA ReadSerial ==
    ASSUME SerialInv, NEW s \in Sessions,
           \/ InsertOrder(s)
           \/ ListHeld(s)
           \/ ShowName(s)
           \/ \E x \in LockRows : Flush(s, x)
           \/ \E r \in Reservations :
                 \/ Preload(s, r)
                 \/ LockReservation(s, r)
                 \/ \E name \in {"pickUp", "notPickedUp"} : TakeAnswer(s, r, name)
                 \/ SkipAnswer(s, r)
    PROVE  SerialInv'
<1>0. TxInv /\ TxInv' /\ Exact(s, tx[s])
  BY ReadKeeps DEF SerialInv
<1>1. PICK V \in SUBSET Variants, R \in SUBSET Reservations : tx[s] \in Session(V, R)
  BY <1>0, SessionIs
<1>2. /\ DOMAIN tx = Sessions /\ lock \in [LockRows -> Sessions \cup {Free}]
      /\ Programmed(tx[s]) /\ RowsKnown(tx[s]) /\ ItemKnown(tx[s])
      /\ TypeOK /\ resv \in [Reservations -> Row \cup {Unused}]
  BY <1>0, SessionIs DEF Sound, TypeOK
<1>3. UnitsDue(tx[s]) /\ CopiesDue(tx[s]) /\ Checked(tx[s]) /\ RowsDue(tx[s])
      /\ Whole(tx[s]) /\ Owned(s, tx[s])
  BY <1>0 DEF Exact
\* The parts that speak of units only stay as long as these stay.
<1>4. ASSUME UNCHANGED dbVars, tx'[s].call = tx[s].call, tx'[s].units = tx[s].units,
             tx'[s].done = tx[s].done,
             tx[s].call = "reserve" => tx'[s].rseen = tx[s].rseen,
             tx[s].call \notin VariantCalls
      PROVE  UnitsDue(tx[s])' /\ Checked(tx[s])' /\ \A v \in Variants : Due(tx[s], v)' = Due(tx[s], v)
  <2>1. UnitsDue(tx[s])'
    <3>1. Rows(tx[s])' = Rows(tx[s])
      BY <1>4 DEF Rows, dbVars
    <3>2. \A v \in Variants : QtyOn(Rows(tx[s]), tx[s].done, v)' = QtyOn(Rows(tx[s]), tx[s].done, v)
      BY <1>4, <3>1 DEF QtyOn, Units
    <3> QED
      BY <1>3, <1>4, <3>2 DEF UnitsDue
  <2>2. Checked(tx[s])'
    BY <1>3, <1>4 DEF Checked, Available, dbVars
  <2>3. \A v \in Variants : Due(tx[s], v)' = Due(tx[s], v)
    BY <1>4 DEF Due, Stored, dbVars
  <2> QED
    BY <2>1, <2>2, <2>3
<1>5. ASSUME \A v \in Variants : Due(tx[s], v)' = Due(tx[s], v), UNCHANGED dbVars,
             tx'[s].units = tx[s].units, tx'[s].wrote = tx[s].wrote,
             tx'[s].vseen = tx[s].vseen
      PROVE  CopiesDue(tx[s])'
  <2>1. DOMAIN tx[s].vseen \subseteq Variants
    BY <1>1 DEF Session
  <2> QED
    BY <1>3, <1>5, <2>1 DEF CopiesDue, Stored, dbVars
<1>6. ASSUME NEW v \in Variants, \A w \in Variants : Due(tx[s], w)' = Due(tx[s], w), UNCHANGED dbVars,
             tx'[s].units = tx[s].units, tx'[s].wrote = tx[s].wrote,
             tx'[s].vseen = Loaded(tx[s].vseen, v, ReadVariant(s, v)),
             tx[s].call \in (CallNames \ {"restock", "expire", "scan"}) \cup {"none"}
      PROVE  CopiesDue(tx[s])'
  <2>1. DOMAIN tx[s].vseen \subseteq Variants
    BY <1>1 DEF Session
  <2>2. /\ ReadVariant(s, v) = Due(tx[s], v)
        /\ \A c \in Columns : ReadVariant(s, v)[c] = Stored(v)[c] \/ <<v, c>> \in tx[s].wrote
    BY <1>6, ReadsDue
  <2>3. /\ DOMAIN tx'[s].vseen = DOMAIN tx[s].vseen \cup {v}
        /\ tx'[s].vseen[v] = ReadVariant(s, v)
        /\ \A w \in DOMAIN tx[s].vseen \ {v} : tx'[s].vseen[w] = tx[s].vseen[w]
    BY <1>6 DEF Loaded
  <2>4. \A w : Stored(w)' = Stored(w)
    BY <1>6 DEF Stored, dbVars
  <2> QED
    BY <1>3, <1>6, <2>1, <2>2, <2>3, <2>4 DEF CopiesDue
<1> USE DEF RowsDue, Whole, Owned, Rows
<1>10. ASSUME InsertOrder(s) PROVE SerialInv'
  <2>1. CASE order[tx[s].order] = "none"
    <3>1. /\ lock' = [lock EXCEPT ![tx[s].order] = s] /\ tx' = [tx EXCEPT ![s].pc = "preload"]
          /\ UNCHANGED dbVars /\ tx[s].pc = "insert" /\ CanLock(s, tx[s].order)
      BY <1>10, <2>1 DEF InsertOrder
    <3>2. tx[s].kind = "place" /\ tx[s].call = "reserve"
      BY <1>2, <3>1 DEF Programmed, Resting
    <3>3. tx'[s] = [tx[s] EXCEPT !.pc = "preload"]
      BY <1>2, <3>1
    <3>4. /\ tx'[s].pc = "preload" /\ tx'[s].kind = "place" /\ tx'[s].call = "reserve"
          /\ tx'[s].todo = tx[s].todo /\ tx'[s].done = tx[s].done
          /\ tx'[s].rseen = tx[s].rseen /\ tx'[s].vseen = tx[s].vseen
          /\ tx'[s].wrote = tx[s].wrote /\ tx'[s].units = tx[s].units
      BY <1>1, <3>2, <3>3 DEF Session
    <3>5. Calm(s)
      BY <1>2, <3>1, SessionAssumption DEF Calm, CanLock
    <3>6. UnitsDue(tx[s])' /\ Checked(tx[s])' /\ CopiesDue(tx[s])'
      BY <1>4, <1>5, <3>1, <3>2, <3>4 DEF VariantCalls
    <3>7. RowsDue(tx[s])' /\ Whole(tx[s])' /\ Owned(s, tx[s])'
      BY <1>3, <3>1, <3>2, <3>4 DEF VariantCalls
    <3>8. Exact(s, tx[s])'
      BY <3>6, <3>7 DEF Exact
    <3> QED
      BY <1>0, <3>1, <3>2, <3>4, <3>5, <3>8, QuietSerial
  <2>2. CASE order[tx[s].order] # "none"
    BY <1>10, <2>2, RollbackSerial DEF InsertOrder
  <2> QED
    BY <2>1, <2>2
<1>11. ASSUME ListHeld(s) PROVE SerialInv'
  <2> DEFINE S == Held(tx[s].order)
             pc == IF S = {} THEN "commit" ELSE "call"
             rows == [r \in S |-> resv[r]]
  <2>1. /\ tx[s].pc = "list" /\ tx' = [tx EXCEPT ![s].todo = S, ![s].rseen = rows, ![s].pc = pc]
        /\ UNCHANGED <<dbVars, lock>> /\ pc \in {"commit", "call"} /\ (pc = "commit" => S = {})
    BY <1>11 DEF ListHeld
  <2>2. DOMAIN rows = S /\ S = Held(tx[s].order) /\ \A r \in S : rows[r] = resv[r]
    OBVIOUS
  <2> HIDE DEF S, pc, rows
  <2>3. \/ tx[s].kind = "confirm" /\ tx[s].call = "fulfill"
        \/ tx[s].kind = "cancel" /\ tx[s].call = "release"
    BY <1>2, <2>1 DEF Programmed, Resting
  <2>4. /\ tx'[s].pc = pc /\ tx'[s].kind = tx[s].kind /\ tx'[s].call = tx[s].call
        /\ tx'[s].order = tx[s].order
        /\ tx'[s].todo = S /\ tx'[s].done = tx[s].done
        /\ tx'[s].rseen = rows /\ tx'[s].vseen = tx[s].vseen
        /\ tx'[s].wrote = tx[s].wrote /\ tx'[s].units = tx[s].units
    BY <1>1, <1>2, <2>1 DEF Session
  <2>5. Calm(s)
    BY <1>2, <2>1 DEF Calm
  <2>6. UnitsDue(tx[s])' /\ Checked(tx[s])' /\ CopiesDue(tx[s])'
    BY <1>4, <1>5, <2>1, <2>3, <2>4 DEF VariantCalls
  <2>7. tx[s].done = {} /\ Held(tx[s].order)' = S /\ order'[tx'[s].order] = "pending"
    <3>1. Held(tx[s].order)' = Held(tx[s].order)
      BY <2>1, <2>4 DEF dbVars, Held, With, InStatus
    <3> QED
      BY <1>3, <2>1, <2>2, <2>3, <2>4, <3>1 DEF dbVars
  <2>8. RowsDue(tx[s])' /\ Owned(s, tx[s])'
    BY <2>1, <2>2, <2>3, <2>4, <2>7 DEF VariantCalls, dbVars
  <2>9. Whole(tx[s])'
    BY <2>1, <2>2, <2>3, <2>4, <2>7 DEF VariantCalls, dbVars
  <2>10. Exact(s, tx[s])'
    BY <2>6, <2>8, <2>9 DEF Exact
  <2> QED
    BY <1>0, <2>1, <2>3, <2>4, <2>5, <2>10, QuietSerial
<1>12. ASSUME ShowName(s) PROVE SerialInv'
  <2> DEFINE v == tx[s].item.variant
             seen == Loaded(tx[s].vseen, v, ReadVariant(s, v))
  <2>1. /\ tx[s].pc = "show" /\ UNCHANGED <<dbVars, lock>>
        /\ tx' = [tx EXCEPT ![s].vseen = seen, ![s].held = tx[s].held \cup {v}, ![s].item = NoItem,
                            ![s].pc = "answer"]
    BY <1>12 DEF ShowName
  <2>2. v \in Variants /\ tx[s].kind = "np" /\ tx[s].call = "none"
    BY <1>2, <2>1 DEF Programmed, ItemKnown, Resting
  <2>a. seen = Loaded(tx[s].vseen, v, ReadVariant(s, v))
    OBVIOUS
  <2> HIDE DEF v, seen
  <2>3. /\ tx'[s].pc = "answer" /\ tx'[s].kind = "np" /\ tx'[s].call = "none"
        /\ tx'[s].todo = tx[s].todo /\ tx'[s].done = tx[s].done
        /\ tx'[s].rseen = tx[s].rseen /\ tx'[s].vseen = seen
        /\ tx'[s].wrote = tx[s].wrote /\ tx'[s].units = tx[s].units
    BY <1>1, <1>2, <2>1, <2>2 DEF Session
  <2>4. Calm(s)
    BY <1>2, <2>1 DEF Calm
  <2>5. UnitsDue(tx[s])' /\ Checked(tx[s])' /\ \A w \in Variants : Due(tx[s], w)' = Due(tx[s], w)
    BY <1>4, <2>1, <2>2, <2>3 DEF VariantCalls
  <2>6. CopiesDue(tx[s])'
    BY <1>6, <2>1, <2>2, <2>3, <2>5, <2>a
  <2>7. RowsDue(tx[s])'
    <3>1. tx[s].done = {}
      BY <1>3, <2>1, <2>2 DEF VariantCalls
    <3>2. resv' = resv
      BY <2>1 DEF dbVars
    <3>3. \A r \in DOMAIN tx[s].rseen \cap tx[s].todo : tx[s].rseen[r] = resv[r]
      BY <1>3, <2>2
    <3> QED
      BY <2>3, <3>1, <3>2, <3>3
  <2>x. Whole(tx[s])'
    BY <1>3, <2>1, <2>2, <2>3 DEF VariantCalls, dbVars
  <2>y. Owned(s, tx[s])'
    BY <1>3, <2>1, <2>2, <2>3 DEF VariantCalls, dbVars
  <2>8. Exact(s, tx[s])'
    BY <2>5, <2>6, <2>7, <2>x, <2>y DEF Exact
  <2> QED
    BY <1>0, <2>1, <2>2, <2>3, <2>4, <2>8, QuietSerial
<1>13. ASSUME NEW x \in LockRows, Flush(s, x) PROVE SerialInv'
  <2>1. /\ UNCHANGED <<dbVars, tx>> /\ tx[s].pc = "flush"
        /\ lock[x] = Free /\ lock' = [lock EXCEPT ![x] = s]
    BY <1>13 DEF Flush
  <2>2. Calm(s)
    BY <1>2, <2>1, SessionAssumption DEF Calm
  <2>3. \A y \in LockRows : lock[y] = s => lock'[y] = s
    BY <1>2, <2>1, SessionAssumption
  <2>4. Exact(s, tx[s])'
    BY <2>1, <2>3, ExactStays
  <2> QED
    BY <1>0, <2>1, <2>2, <2>4, QuietSerial
<1>14. ASSUME NEW r \in Reservations, SkipAnswer(s, r) PROVE SerialInv'
  <2>1. /\ tx[s].pc = "answer" /\ UNCHANGED <<dbVars, lock>>
        /\ tx' = [tx EXCEPT ![s].todo = tx[s].todo \ {r}]
    BY <1>14 DEF SkipAnswer
  <2>2. tx[s].kind = "np" /\ tx[s].call = "none"
    BY <1>2, <2>1 DEF Programmed, Resting
  <2>3. /\ tx'[s].pc = "answer" /\ tx'[s].kind = "np" /\ tx'[s].call = "none"
        /\ tx'[s].todo = tx[s].todo \ {r} /\ tx'[s].done = tx[s].done
        /\ tx'[s].rseen = tx[s].rseen /\ tx'[s].vseen = tx[s].vseen
        /\ tx'[s].wrote = tx[s].wrote /\ tx'[s].units = tx[s].units
    BY <1>1, <1>2, <2>1, <2>2 DEF Session
  <2>4. Calm(s)
    BY <1>2, <2>1 DEF Calm
  <2>5. UnitsDue(tx[s])' /\ Checked(tx[s])' /\ CopiesDue(tx[s])'
    BY <1>4, <1>5, <2>1, <2>2, <2>3 DEF VariantCalls
  <2>6. RowsDue(tx[s])'
    BY <1>3, <2>1, <2>2, <2>3 DEF VariantCalls, dbVars
  <2>x. Whole(tx[s])'
    BY <1>3, <2>1, <2>2, <2>3 DEF VariantCalls, dbVars
  <2>y. Owned(s, tx[s])'
    BY <1>3, <2>1, <2>2, <2>3 DEF VariantCalls, dbVars
  <2>7. Exact(s, tx[s])'
    BY <2>5, <2>6, <2>x, <2>y DEF Exact
  <2> QED
    BY <1>0, <2>1, <2>2, <2>3, <2>4, <2>7, QuietSerial
<1>15. ASSUME NEW r \in Reservations, NEW name \in {"pickUp", "notPickedUp"}, TakeAnswer(s, r, name)
      PROVE  SerialInv'
  <2>1. /\ tx[s].pc = "answer" /\ UNCHANGED <<dbVars, lock>> /\ r \in tx[s].todo
        /\ tx' = [tx EXCEPT ![s].pc = "call", ![s].call = name,
                            ![s].item = [NoItem EXCEPT !.r = r]]
    BY <1>15 DEF TakeAnswer
  <2>2. tx[s].kind = "np" /\ tx[s].call = "none"
    BY <1>2, <2>1 DEF Programmed, Resting
  <2>3. /\ tx'[s].pc = "call" /\ tx'[s].kind = "np" /\ tx'[s].call = name
        /\ tx'[s].todo = tx[s].todo /\ tx'[s].done = tx[s].done
        /\ tx'[s].rseen = tx[s].rseen /\ tx'[s].vseen = tx[s].vseen
        /\ tx'[s].wrote = tx[s].wrote /\ tx'[s].units = tx[s].units
    BY <1>1, <1>2, <2>1, <2>2 DEF Session
  <2>4. Calm(s)
    BY <1>2, <2>1 DEF Calm
  <2>5. /\ tx[s].done = {} /\ \A v \in Variants : tx[s].units[v] = 0
        /\ resv' = resv /\ \A v : Stored(v)' = Stored(v)
    BY <1>3, <2>1, <2>2 DEF VariantCalls, UnitsDue, dbVars, Stored
  <2>6. UnitsDue(tx[s])' /\ Checked(tx[s])'
    <3>1. \A v \in Variants : QtyOn(resv, {}, v) = 0
      BY QtyNone
    <3>2. \A v \in Variants : QtyOn(resv, {}, v)' = 0
      BY <2>5, <3>1 DEF QtyOn, Units
    <3>3. /\ UnitsDue(tx[s])'
      BY <2>3, <2>5, <3>2 DEF UnitsDue, VariantCalls, Moving, ReservationCalls
    <3> QED
      BY <2>3, <2>5, <3>3 DEF Checked
  <2>7. CopiesDue(tx[s])'
    <3>1. \A v \in Variants : After(Stored(v), v, name, 0) = Stored(v)
      <4>1. name \in CallNames \ {"restock", "expire"}
        BY DEF CallNames, ReservationCalls
      <4>2. \A v \in Variants : Stored(v) \in Copy
        BY <1>2 DEF TypeOK, Stored, Copy
      <4> QED
        BY <4>1, <4>2, AfterNothing
    <3>2. \A v \in Variants : Due(tx[s], v)' = Stored(v)
      BY <2>3, <2>5, <3>1 DEF Due
    <3>3. \A v \in Variants : Due(tx[s], v) = Stored(v)
      BY <2>2 DEF Due
    <3> QED
      BY <1>5, <2>1, <2>3, <3>2, <3>3
  <2>8. RowsDue(tx[s])'
    <3>1. \A q \in DOMAIN tx[s].rseen \cap tx[s].todo : tx[s].rseen[q] = resv[q]
      BY <1>3, <2>2
    <3> QED
      BY <2>3, <2>5, <3>1
  <2>9. Whole(tx[s])'
    BY <1>3, <2>1, <2>2, <2>3, <2>5 DEF VariantCalls, dbVars
  <2>10. Owned(s, tx[s])'
    BY <2>3
  <2>11. Exact(s, tx[s])'
    BY <2>6, <2>7, <2>8, <2>9, <2>10 DEF Exact
  <2> QED
    BY <1>0, <2>1, <2>2, <2>3, <2>4, <2>11, QuietSerial
<1>16. ASSUME NEW r \in Reservations, Preload(s, r) PROVE SerialInv'
  <2> DEFINE row == tx[s].rseen[r]
             v == row.variant
             seen == Loaded(tx[s].vseen, v, ReadVariant(s, v))
             item == [r |-> r, variant |-> v, qty |-> row.qty]
             pc == IF tx[s].kind = "place" THEN "variant" ELSE "call"
  <2>1. /\ tx[s].pc = "preload" /\ r \in tx[s].todo /\ UNCHANGED <<dbVars, lock>>
        /\ tx' = [tx EXCEPT ![s].vseen = seen, ![s].pc = pc, ![s].item = item]
    BY <1>16 DEF Preload
  <2>2. row \in Row /\ r \in DOMAIN tx[s].rseen
    BY <1>1, <1>2, <2>1 DEF Session, RowsKnown
  <2>3. v \in Variants /\ row.qty \in Qtys /\ item.r = r /\ item.variant = v /\ item.qty = row.qty
    BY <2>2 DEF Row, Qtys
  <2>4. seen = Loaded(tx[s].vseen, v, ReadVariant(s, v)) /\ v = row.variant /\ row = tx[s].rseen[r]
    OBVIOUS
  <2>5. \/ pc = "variant" /\ tx[s].kind = "place" /\ tx[s].call = "reserve"
        \/ pc = "call" /\ tx[s].kind = "ttn" /\ tx[s].call = "ship"
    <3>1. \/ tx[s].kind = "place" /\ tx[s].call = "reserve"
          \/ tx[s].kind = "ttn" /\ tx[s].call = "ship"
      BY <1>2, <2>1 DEF Programmed, Resting
    <3> QED
      BY <3>1
  <2> HIDE DEF row, v, seen, item, pc
  <2>6. /\ tx'[s].pc = pc /\ tx'[s].kind = tx[s].kind /\ tx'[s].call = tx[s].call
        /\ tx'[s].todo = tx[s].todo /\ tx'[s].done = tx[s].done /\ tx'[s].item = item
        /\ tx'[s].rseen = tx[s].rseen /\ tx'[s].vseen = seen
        /\ tx'[s].wrote = tx[s].wrote /\ tx'[s].units = tx[s].units
    BY <1>1, <1>2, <2>1 DEF Session
  <2>7. Calm(s)
    BY <1>2, <2>1 DEF Calm
  <2>8. UnitsDue(tx[s])' /\ Checked(tx[s])' /\ \A w \in Variants : Due(tx[s], w)' = Due(tx[s], w)
    BY <1>4, <2>1, <2>5, <2>6 DEF VariantCalls
  <2>9. CopiesDue(tx[s])'
    <3>1. tx[s].call \in CallNames \ {"restock", "expire", "scan"}
      BY <2>5 DEF CallNames, ReservationCalls
    <3> QED
      BY <1>6, <2>1, <2>3, <2>4, <2>6, <2>8, <3>1
  <2>10. RowsDue(tx[s])'
    <3>1. tx[s].todo \cap tx[s].done = {}
      BY <1>3, <2>5
    <3>2. resv' = resv
      BY <2>1 DEF dbVars
    <3>3. tx[s].call # "reserve" =>
             /\ \A q \in DOMAIN tx[s].rseen \cap (tx[s].todo \cup tx[s].done) : tx[s].rseen[q] = resv[q]
             /\ \A q \in tx[s].done : resv[q].status = Calls[tx[s].call].from
      BY <1>3, <2>5
    <3>4. tx'[s].call # "updateTtn" => tx'[s].todo \cap tx'[s].done = {}
      BY <2>6, <3>1
    <3>5. tx'[s].call # "reserve" =>
             /\ \A q \in DOMAIN tx'[s].rseen \cap (tx'[s].todo \cup tx'[s].done) : tx'[s].rseen[q] = resv'[q]
             /\ \A q \in tx'[s].done : resv'[q].status = Calls[tx'[s].call].from
      BY <2>6, <3>2, <3>3
    <3>6. tx'[s].pc = "variant" =>
             /\ tx'[s].call = "reserve" /\ tx'[s].item = item /\ tx'[s].rseen[r] = row
             /\ r \notin tx'[s].done
      BY <2>1, <2>4, <2>5, <2>6, <3>1
    <3>7. tx'[s].pc = "variant" =>
             /\ tx'[s].item.qty \in Qtys /\ tx'[s].call # "updateTtn" /\ tx'[s].call = "reserve"
             /\ tx'[s].item.r \notin tx'[s].done
             /\ tx'[s].rseen[tx'[s].item.r].variant = tx'[s].item.variant
             /\ tx'[s].rseen[tx'[s].item.r].qty = tx'[s].item.qty
      BY <2>3, <2>4, <3>6
    <3> QED
      BY <3>4, <3>5, <3>7
  <2>11. Whole(tx[s])'
    <3>1. CASE tx[s].kind = "place"
      BY <1>3, <2>1, <2>5, <2>6, <3>1 DEF VariantCalls
    <3>2. CASE tx[s].kind = "ttn"
      <4>1. tx[s].done = {} /\ \A a, b \in tx[s].todo : a = b
        BY <1>3, <2>1, <2>5, <3>2 DEF VariantCalls
      <4>2. pc = "call" /\ tx[s].call = "ship"
        BY <2>5, <3>2
      <4> QED
        BY <2>6, <3>2, <4>1, <4>2 DEF VariantCalls
    <3> QED
      BY <2>5, <3>1, <3>2
  <2>12. Owned(s, tx[s])'
    BY <2>5, <2>6
  <2>13. Exact(s, tx[s])'
    BY <2>8, <2>9, <2>10, <2>11, <2>12 DEF Exact
  <2> QED
    BY <1>0, <2>1, <2>5, <2>6, <2>7, <2>13, QuietSerial
<1>17. ASSUME NEW r \in Reservations, LockReservation(s, r) PROVE SerialInv'
  <2> DEFINE row == ReadReservation(s, r)
             seen == Loaded(tx[s].rseen, r, row)
             item == [r |-> r, variant |-> row.variant, qty |-> row.qty]
             pc == IF tx[s].call = "updateTtn" THEN "commit" ELSE "variant"
             done == IF tx[s].call = "updateTtn" THEN {r} ELSE tx[s].done
  <2>1. tx[s].pc = "call" /\ r \in tx[s].todo /\ CanLock(s, r)
    BY <1>17 DEF LockReservation
  <2>2. /\ tx[s].call \in ReservationCalls /\ resv[r].status # "unused"
        /\ tx[s].kind \in {"api", "confirm", "cancel", "ttn", "np"}
        /\ tx[s].kind \in {"confirm", "cancel", "ttn", "np"} => tx[s].call # "updateTtn"
    BY <1>2, <2>1 DEF Programmed, RowsKnown, Resting, ReservationCalls
  <2>3. row = resv[r] /\ resv[r] \in Row
    BY <1>2, <1>3, <2>1, <2>2 DEF ReadReservation, Unused, ReservationCalls
  <2>4. CASE row.status = Calls[tx[s].call].from
    <3>1. /\ lock' = [lock EXCEPT ![r] = s] /\ UNCHANGED dbVars
          /\ tx' = [tx EXCEPT ![s].rseen = seen, ![s].pc = pc, ![s].done = done, ![s].item = item]
      BY <1>17, <2>4 DEF LockReservation
    <3>2. /\ item.r = r /\ item.variant = resv[r].variant /\ item.qty = resv[r].qty
          /\ item.qty \in Qtys /\ resv[r].status = Calls[tx[s].call].from
      BY <2>3, <2>4 DEF Row, Qtys
    <3>3. \/ tx[s].call = "updateTtn" /\ tx[s].kind = "api" /\ pc = "commit" /\ done = {r}
          \/ tx[s].call # "updateTtn" /\ pc = "variant" /\ done = tx[s].done
      BY <2>2
    <3>4. /\ DOMAIN seen = DOMAIN tx[s].rseen \cup {r} /\ seen[r] = resv[r]
          /\ \A q \in DOMAIN tx[s].rseen \ {r} : seen[q] = tx[s].rseen[q]
      BY <2>3 DEF Loaded
    <3> HIDE DEF row, seen, item, pc, done
    <3>5. /\ tx'[s].pc = pc /\ tx'[s].kind = tx[s].kind /\ tx'[s].call = tx[s].call
          /\ tx'[s].order = tx[s].order
          /\ tx'[s].todo = tx[s].todo /\ tx'[s].done = done /\ tx'[s].item = item
          /\ tx'[s].rseen = seen /\ tx'[s].vseen = tx[s].vseen
          /\ tx'[s].wrote = tx[s].wrote /\ tx'[s].units = tx[s].units
      BY <1>1, <1>2, <3>1 DEF Session
    <3>6. Calm(s)
      BY <1>2, <2>1, <3>1, SessionAssumption DEF Calm, CanLock
    <3>7. UnitsDue(tx[s])' /\ Checked(tx[s])' /\ \A w \in Variants : Due(tx[s], w)' = Due(tx[s], w)
      <4>1. CASE tx[s].call # "updateTtn"
        BY <1>4, <2>2, <3>1, <3>3, <3>5, <4>1 DEF VariantCalls, ReservationCalls
      <4>2. CASE tx[s].call = "updateTtn"
        <5>1. \A w \in Variants : tx[s].units[w] = 0
          BY <1>3, <4>2 DEF UnitsDue
        <5>2. UnitsDue(tx[s])' /\ Checked(tx[s])'
          BY <3>5, <4>2, <5>1 DEF UnitsDue, Checked, Moving, VariantCalls
        <5>3. \A w \in Variants : Due(tx[s], w)' = Due(tx[s], w)
          BY <3>1, <3>5 DEF Due, Stored, dbVars
        <5> QED
          BY <5>2, <5>3
      <4> QED
        BY <4>1, <4>2
    <3>8. CopiesDue(tx[s])'
      BY <1>5, <3>1, <3>5, <3>7
    <3>9. RowsDue(tx[s])'
      <4>1. resv' = resv /\ tx[s].call # "reserve" /\ tx[s].call \notin VariantCalls
        BY <2>2, <3>1 DEF dbVars, ReservationCalls, VariantCalls
      <4>2. \A q \in DOMAIN seen \cap (tx[s].todo \cup done) : seen[q] = resv[q]
        BY <1>3, <2>1, <3>3, <3>4, <4>1
      <4>3. \A q \in done : resv[q].status = Calls[tx[s].call].from
        BY <1>3, <3>2, <3>3, <4>1
      <4>4. tx[s].call # "updateTtn" => tx[s].todo \cap done = {}
        BY <1>3, <3>3
      <4> QED
        BY <2>1, <3>2, <3>3, <3>5, <4>1, <4>2, <4>3, <4>4
    <3>10. Whole(tx[s])'
      <4>1. Held(tx[s].order)' = Held(tx[s].order) /\ order' = order
        BY <3>1, <3>5 DEF dbVars, Held, With, InStatus
      <4>2. tx[s].call \notin VariantCalls /\ tx[s].call # "restock"
        BY <2>2 DEF ReservationCalls, VariantCalls
      <4>3. tx[s].kind \in {"api", "ttn", "np"} => tx[s].done = {}
        BY <1>3, <2>1, <4>2
      <4>4. /\ tx[s].kind = "ttn" => \A a, b \in tx[s].todo : a = b
            /\ tx[s].kind = "np" => tx[s].wrote = {}
            /\ tx[s].kind \in {"confirm", "cancel"} =>
                 order[tx[s].order] = "pending" /\ tx[s].todo \cup tx[s].done = Held(tx[s].order)
        BY <1>3, <2>1
      <4> QED
        BY <2>2, <3>2, <3>3, <3>5, <4>1, <4>2, <4>3, <4>4
    <3>11. Owned(s, tx[s])'
      <4> SUFFICES ASSUME tx[s].kind = "api" PROVE Owned(s, tx[s])'
        BY <3>5
      <4>1. DOMAIN tx[s].vseen = {} /\ tx[s].done = {} /\ tx[s].todo = {r}
        <5>1. tx[s].call \notin VariantCalls
          BY <2>2 DEF ReservationCalls, VariantCalls
        <5>2. \A a, b \in tx[s].todo : a = b
          BY <1>2 DEF ItemKnown
        <5> QED
          BY <1>3, <2>1, <5>1, <5>2
      <4>2. lock'[r] = s /\ r \in Reservations
        BY <1>2, <3>1 DEF LockRows
      <4> QED
        BY <2>1, <3>2, <3>3, <3>5, <4>1, <4>2
    <3>12. Exact(s, tx[s])'
      BY <3>7, <3>8, <3>9, <3>10, <3>11 DEF Exact
    <3> QED
      BY <1>0, <2>1, <3>5, <3>6, <3>12, QuietSerial
  <2>5. CASE row.status # Calls[tx[s].call].from
    BY <1>17, <2>5, RollbackSerial DEF LockReservation
  <2> QED
    BY <2>4, <2>5
<1> QED
  BY <1>10, <1>11, <1>12, <1>13, <1>14, <1>15, <1>16, <1>17

-----------------------------------------------------------------------------
(* The statements that move units. *)

\* What a statement that changes copies needs for them to stay exact.
LEMMA AppliedExact ==
    ASSUME SerialInv, NEW s \in Sessions, UNCHANGED dbVars,
           tx[s].call \in CallNames \ {"scan", "updateTtn"},
           NEW item, item.variant \in Variants, item.qty \in Qtys, NEW pc,
           Changed(tx'[s], s, item, pc),
           tx[s].call # "expire" =>
              Meets(ReadVariant(s, item.variant), Calls[tx[s].call], item.qty),
           tx[s].call \notin VariantCalls =>
              /\ item.r \in Reservations /\ item.r \notin tx[s].done
              /\ Rows(tx[s])[item.r].variant = item.variant
              /\ Rows(tx[s])[item.r].qty = item.qty,
           tx[s].call \in VariantCalls =>
              /\ item.r = NoReservation /\ pc = "commit" /\ tx[s].item = item
              /\ \A v \in Variants : tx[s].units[v] = 0
              /\ DOMAIN tx[s].vseen = {}
    PROVE  UnitsDue(tx[s])' /\ CopiesDue(tx[s])' /\ Checked(tx[s])'
<1> DEFINE v == item.variant
           q == item.qty
           name == tx[s].call
           old == ReadVariant(s, v)
           new == After(old, v, name, q)
<1>0. TxInv /\ UnitsDue(tx[s]) /\ CopiesDue(tx[s]) /\ Checked(tx[s])
  BY DEF SerialInv, Exact
<1>1. PICK V \in SUBSET Variants, R \in SUBSET Reservations : tx[s] \in Session(V, R)
  BY <1>0, SessionIs
<1>2. q \in Nat /\ q > 0 /\ q \in 0..MaxQty /\ v \in Variants
  BY BoundAssumption DEF Qtys
<1>3. /\ DOMAIN tx[s].vseen = V /\ tx[s].units \in [Variants -> Nat]
      /\ tx[s].done \in SUBSET Reservations
  BY <1>1 DEF Session
<1>4. /\ tx'[s].call = name /\ tx'[s].item = tx[s].item /\ tx'[s].pc = pc
      /\ tx'[s].rseen = tx[s].rseen
      /\ tx'[s].done = tx[s].done \cup ({item.r} \cap Reservations)
      /\ tx'[s].vseen = Loaded(tx[s].vseen, v, new)
      /\ tx'[s].wrote = tx[s].wrote \cup {<<v, c>> : c \in {c \in Columns : new[c] # old[c]}}
      /\ tx'[s].units = [tx[s].units EXCEPT ![v] = @ + q]
  BY Zenon DEF Changed
<1>5. /\ tx'[s].units[v] = tx[s].units[v] + q
      /\ \A w \in Variants \ {v} : tx'[s].units[w] = tx[s].units[w]
      /\ \A w \in Variants : tx'[s].units[w] \in Nat
  BY <1>2, <1>3, <1>4
<1>6. /\ DOMAIN tx'[s].vseen = DOMAIN tx[s].vseen \cup {v}
      /\ tx'[s].vseen[v] = new
      /\ \A w \in DOMAIN tx[s].vseen \ {v} : tx'[s].vseen[w] = tx[s].vseen[w]
  BY <1>4 DEF Loaded
<1>7. Stored(v) \in Copy /\ (\A w : Stored(w)' = Stored(w)) /\ resv' = resv
  BY <1>0, SessionIs DEF TypeOK, Stored, Copy, dbVars
<1>8. name # "none"
  BY DEF CallNames, ReservationCalls, VariantCalls
<1>9. \/ v \in DOMAIN tx[s].vseen /\ old = After(Stored(v), v, name, tx[s].units[v])
      \/ v \notin DOMAIN tx[s].vseen /\ old = Stored(v) /\ tx[s].units[v] = 0
  BY <1>0, <1>8 DEF CopiesDue, Due, ReadVariant
<1>10. new = After(Stored(v), v, name, tx'[s].units[v])
  <2>1. CASE v \in DOMAIN tx[s].vseen
    <3>1. name # "restock" /\ tx[s].units[v] \in Nat
      BY <1>2, <1>3, <2>1 DEF VariantCalls
    <3> HIDE DEF name, old
    <3> QED
      BY <1>2, <1>5, <1>7, <1>9, <2>1, <3>1, AfterAdds DEF name
  <2>2. CASE v \notin DOMAIN tx[s].vseen
    <3>1. tx'[s].units[v] = q
      BY <1>2, <1>5, <1>9, <2>2
    <3> QED
      BY <1>9, <2>2, <3>1
  <2> QED
    BY <2>1, <2>2
<1> HIDE DEF name, old, new, v, q
<1>11. UnitsDue(tx[s])'
  <2>1. Rows(tx[s])' = Rows(tx[s])
    BY <1>4, <1>7 DEF Rows, name
  <2>2. CASE name \in Moving
    <3>1. /\ item.r \in Reservations /\ item.r \notin tx[s].done
          /\ Rows(tx[s])[item.r].variant = v /\ Rows(tx[s])[item.r].qty = q
      BY <2>2 DEF name, v, q, Moving, ReservationCalls, VariantCalls
    <3>2. tx'[s].done = tx[s].done \cup {item.r}
      BY <1>4, <3>1
    <3>3. ASSUME NEW w \in Variants
          PROVE  tx'[s].units[w] = QtyOn(Rows(tx[s]), tx[s].done \cup {item.r}, w)
      <4> DEFINE rows == Rows(tx[s])
                 D == tx[s].done
      <4>1. QtyOn(rows, D, w) = tx[s].units[w]
        BY <1>0, <2>2 DEF UnitsDue, name
      <4>2. D \cap {item.r} = {} /\ {item.r} \in SUBSET Reservations /\ D \in SUBSET Reservations
        BY <1>3, <3>1
      <4>3. rows[item.r].variant = v /\ rows[item.r].qty = q
        BY <3>1
      <4> HIDE DEF rows, D
      <4>4. QtyOn(rows, D \cup {item.r}, w) = QtyOn(rows, D, w) + QtyOn(rows, {item.r}, w)
        BY <4>2, QtySplit
      <4>5. QtyOn(rows, {item.r}, w) = IF v = w THEN q ELSE 0
        BY <1>2, <3>1, <4>3, QtyOne
      <4>6. tx[s].units[w] \in Nat
        BY <1>3
      <4>7. tx'[s].units[w] = QtyOn(rows, D \cup {item.r}, w)
        BY <1>2, <1>5, <4>1, <4>4, <4>5, <4>6
      <4> QED
        BY <4>7 DEF rows, D
    <3>4. \A w \in Variants : tx'[s].units[w] = QtyOn(Rows(tx[s]), tx'[s].done, w)
      BY <3>2, <3>3
    <3>5. \A w \in Variants : QtyOn(Rows(tx[s]), tx[s].done, w)' = QtyOn(Rows(tx[s]), tx'[s].done, w)
      BY <2>1 DEF QtyOn, Units
    <3> QED
      BY <1>4, <2>2, <3>4, <3>5 DEF UnitsDue, Moving, VariantCalls, ReservationCalls
  <2>3. CASE name \in VariantCalls
    <3>1. \A w \in Variants : tx'[s].units[w] = IF w = tx'[s].item.variant THEN tx'[s].item.qty ELSE 0
      BY <1>2, <1>4, <1>5, <2>3 DEF name, v, q
    <3>2. tx'[s].pc = "commit"
      BY <1>4, <2>3 DEF name
    <3> QED
      BY <1>4, <2>3, <3>1, <3>2 DEF UnitsDue, Moving, VariantCalls, ReservationCalls
  <2>4. name \in Moving \cup VariantCalls
    BY DEF name, CallNames, Moving, VariantCalls, ReservationCalls
  <2> QED
    BY <2>2, <2>3, <2>4
<1>12. CopiesDue(tx[s])'
  <2>1. ASSUME NEW w \in Variants PROVE Due(tx[s], w)' = After(Stored(w), w, name, tx'[s].units[w])
    <3>1. name # "none" /\ name # "scan"
      BY <1>8 DEF name
    <3> QED
      BY <1>4, <1>7, <3>1 DEF Due
  <2>2. ASSUME NEW w \in Variants PROVE Due(tx[s], w) = After(Stored(w), w, name, tx[s].units[w])
    BY <1>8 DEF Due, name
  <2>3. ASSUME NEW w \in Variants \ DOMAIN tx'[s].vseen PROVE tx'[s].units[w] = 0
    BY <1>0, <1>5, <1>6, <2>3 DEF CopiesDue
  <2>4. ASSUME NEW w \in DOMAIN tx'[s].vseen
        PROVE  /\ tx'[s].vseen[w] = Due(tx[s], w)'
               /\ \A c \in Columns : tx'[s].vseen[w][c] = Stored(w)[c] \/ <<w, c>> \in tx'[s].wrote
    <3>1. CASE w = v
      <4>1. \A c \in Columns : old[c] = Stored(v)[c] \/ <<v, c>> \in tx[s].wrote
        BY <1>0, <1>9 DEF CopiesDue, old, ReadVariant
      <4>2. \A c \in Columns : new[c] = old[c] \/ <<v, c>> \in tx'[s].wrote
        BY <1>4
      <4>3. tx[s].wrote \subseteq tx'[s].wrote
        BY <1>4
      <4> QED
        BY <1>2, <1>6, <1>10, <2>1, <3>1, <4>1, <4>2, <4>3
    <3>2. CASE w # v
      <4>1. w \in DOMAIN tx[s].vseen /\ w \in Variants /\ tx'[s].vseen[w] = tx[s].vseen[w]
        BY <1>3, <1>6, <2>4, <3>2
      <4>2. tx'[s].units[w] = tx[s].units[w]
        BY <1>5, <3>2, <4>1
      <4>3. /\ tx[s].vseen[w] = Due(tx[s], w)
            /\ \A c \in Columns : tx[s].vseen[w][c] = Stored(w)[c] \/ <<w, c>> \in tx[s].wrote
        BY <1>0, <4>1 DEF CopiesDue
      <4> QED
        BY <1>4, <2>1, <2>2, <4>1, <4>2, <4>3
    <3> QED
      BY <3>1, <3>2
  <2> QED
    BY <1>7, <2>3, <2>4 DEF CopiesDue
<1>13. Checked(tx[s])'
  <2>1. ASSUME NEW w \in Variants PROVE Available(w)' = Available(w) /\ onHand' = onHand
    BY DEF dbVars, Available
  <2>2. ASSUME name \in {"reserve", "sell", "writeOff"} PROVE tx'[s].units[v] <= Available(v)
    <3>1. q <= old.onHand - old.reserved
      <4>1. Calls[name].needs = "available" /\ name # "expire"
        BY <2>2 DEF Calls, Call, ReserveCall, SellCall, WriteOffCall
      <4>2. Meets(old, Calls[name], q)
        BY <4>1 DEF name, old, v, q
      <4> QED
        BY <4>1, <4>2 DEF Meets
    <3>2. tx[s].units[v] \in Nat /\ onHand[v] \in Int /\ reserved[v] \in Int
      BY <1>0, <1>2, <1>3, SessionIs DEF TypeOK
    <3>3. old.onHand - old.reserved = Available(v) - tx[s].units[v]
      <4>1. CASE old = Stored(v) /\ tx[s].units[v] = 0
        BY <3>2, <4>1 DEF Stored, Available
      <4>2. CASE v \in DOMAIN tx[s].vseen /\ old = After(Stored(v), v, name, tx[s].units[v])
        <5>1. name = "reserve"
          BY <2>2, <4>2 DEF VariantCalls, name
        <5>2. Calls[name].hand = 0 /\ Calls[name].earmark = 1
          BY <5>1 DEF Calls, Call, ReserveCall
        <5>3. old.onHand = onHand[v] /\ old.reserved = reserved[v] + tx[s].units[v]
          BY <3>2, <4>2, <5>1, <5>2 DEF After, Stored
        <5> QED
          BY <3>2, <5>3 DEF Available
      <4> QED
        BY <1>9, <4>1, <4>2
    <3> QED
      BY <1>2, <1>5, <3>1, <3>2, <3>3 DEF Available
  <2>3. ASSUME name = "fulfill" PROVE tx'[s].units[v] <= onHand[v]
    <3>1. q <= old.onHand
      <4>1. Calls[name].needs = "onHand" /\ name # "expire"
        BY <2>3 DEF Calls, Call, FulfillCall
      <4>2. Meets(old, Calls[name], q)
        BY <4>1 DEF name, old, v, q
      <4> QED
        BY <4>1, <4>2 DEF Meets
    <3>2. tx[s].units[v] \in Nat /\ onHand[v] \in Int
      BY <1>0, <1>2, <1>3, SessionIs DEF TypeOK
    <3>3. old.onHand = onHand[v] - tx[s].units[v]
      <4>1. CASE old = Stored(v) /\ tx[s].units[v] = 0
        BY <3>2, <4>1 DEF Stored
      <4>2. CASE old = After(Stored(v), v, name, tx[s].units[v])
        <5>1. Calls[name].hand = -1
          BY <2>3 DEF Calls, Call, FulfillCall
        <5> QED
          BY <3>2, <4>2, <5>1 DEF After, Stored
      <4> QED
        BY <1>9, <4>1, <4>2
    <3> QED
      BY <1>2, <1>5, <3>1, <3>2, <3>3
  <2>4. ASSUME NEW w \in Variants, tx'[s].units[w] > 0
        PROVE  /\ name \in {"reserve", "sell", "writeOff"} => tx'[s].units[w] <= Available(w)
               /\ name = "fulfill" => tx'[s].units[w] <= onHand[w]
    <3>1. CASE w = v
      BY <2>2, <2>3, <3>1
    <3>2. CASE w # v
      <4>1. tx[s].units[w] > 0 /\ tx'[s].units[w] = tx[s].units[w]
        BY <1>5, <2>4, <3>2
      <4> QED
        BY <1>0, <4>1 DEF Checked, name
    <3> QED
      BY <3>1, <3>2
  <2> QED
    BY <1>4, <2>1, <2>4 DEF Checked
<1> QED
  BY <1>11, <1>12, <1>13

\* The change of a variant takes its units from the row as it is stored.
LEMMA LockVariantSerial ==
    ASSUME SerialInv, NEW s \in Sessions, LockVariant(s)
    PROVE  SerialInv'
<1> DEFINE item == tx[s].item
           v == item.variant
           left == tx[s].todo \ {item.r}
           pc == IF left = {} \/ tx[s].kind = "np" THEN "commit"
                 ELSE IF tx[s].kind = "place" THEN "preload" ELSE "call"
           T == Applied(s, item, pc)
<1>0. TxInv /\ TxInv' /\ Exact(s, tx[s])
  BY ChangeKeeps DEF SerialInv
<1>1. PICK V \in SUBSET Variants, R \in SUBSET Reservations : tx[s] \in Session(V, R)
  BY <1>0, SessionIs
<1>2. /\ DOMAIN tx = Sessions /\ lock \in [LockRows -> Sessions \cup {Free}]
      /\ Programmed(tx[s]) /\ RowsKnown(tx[s]) /\ ItemKnown(tx[s]) /\ TypeOK
  BY <1>0, SessionIs DEF Sound
<1>3. UnitsDue(tx[s]) /\ CopiesDue(tx[s]) /\ Checked(tx[s]) /\ RowsDue(tx[s])
      /\ Whole(tx[s]) /\ Owned(s, tx[s])
  BY <1>0 DEF Exact
<1>4. tx[s].pc = "variant" /\ CanLock(s, v)
  BY DEF LockVariant
<1>5. CASE ~Meets(ReadVariant(s, v), Calls[tx[s].call], item.qty)
  BY <1>5, RollbackSerial DEF LockVariant
<1>6. CASE Meets(ReadVariant(s, v), Calls[tx[s].call], item.qty)
  <2>1. /\ lock' = [lock EXCEPT ![v] = s] /\ UNCHANGED dbVars
        /\ tx' = [tx EXCEPT ![s] = T]
    BY <1>6 DEF LockVariant
  <2>2. /\ pc \in {"commit", "preload", "call"}
        /\ pc = "commit" <=> left = {} \/ tx[s].kind = "np"
    OBVIOUS
  <2>3. /\ tx[s].call \in CallNames \ {"scan", "updateTtn", "expire"} /\ item.qty \in Qtys
        /\ item \in Item /\ v \in Variants /\ tx[s].kind \notin {"expire", "scan"}
    <3>1. tx[s].call \in CallNames \ {"scan", "expire"} /\ tx[s].kind \notin {"expire", "scan"}
      BY <1>2, <1>4 DEF Programmed, CallNames, Resting, ReservationCalls, VariantCalls
    <3>2. tx[s].call # "updateTtn" /\ item.qty \in Qtys
      BY <1>3, <1>4 DEF RowsDue
    <3>3. item \in Item /\ v \in Variants
      BY <1>1, <1>2, <1>4 DEF Session, ItemKnown
    <3> QED
      BY <3>1, <3>2, <3>3
  <2>4. tx[s].call \notin VariantCalls =>
           /\ item.r \in Reservations /\ item.r \notin tx[s].done
           /\ Rows(tx[s])[item.r].variant = v
           /\ Rows(tx[s])[item.r].qty = item.qty
           /\ tx[s].call # "reserve" =>
                 item.r \in tx[s].todo /\ resv[item.r].status = Calls[tx[s].call].from
    BY <1>2, <1>3, <1>4 DEF RowsDue, ItemKnown
  <2>5. tx[s].kind = "api" => left = {}
    BY <1>2, <1>4 DEF ItemKnown
  <2>6. tx[s].call \in VariantCalls =>
           /\ tx[s].kind = "api" /\ item.r = NoReservation /\ pc = "commit"
           /\ tx[s].todo = {} /\ tx[s].done = {}
           /\ \A w \in Variants : tx[s].units[w] = 0
           /\ DOMAIN tx[s].vseen = {}
    <3> SUFFICES ASSUME tx[s].call \in VariantCalls
                 PROVE  /\ tx[s].kind = "api" /\ item.r = NoReservation /\ left = {}
                        /\ tx[s].todo = {} /\ tx[s].done = {}
                        /\ \A w \in Variants : tx[s].units[w] = 0
                        /\ DOMAIN tx[s].vseen = {}
      BY <2>2
    <3>1. tx[s].kind = "api"
      BY <1>2, <1>4 DEF Programmed, VariantCalls, ReservationCalls, Resting
    <3>2. item.r = NoReservation /\ tx[s].todo = {} /\ tx[s].done = {}
      BY <1>2, <1>4 DEF ItemKnown, RowsKnown
    <3>3. \A w \in Variants : tx[s].units[w] = 0
      BY <1>3, <1>4 DEF UnitsDue
    <3>4. DOMAIN tx[s].vseen = {}
      BY <1>3, <1>4, <3>1 DEF Owned
    <3> QED
      BY <2>5, <3>1, <3>2, <3>3, <3>4
  <2> HIDE DEF pc, T, left, item, v
  <2>7. T \in Session(V \cup {v}, R) /\ Changed(T, s, item, pc)
    <3>1. pc \in Statements /\ tx[s].call \in CallNames
      BY <2>2, <2>3 DEF Statements
    <3> QED
      BY <1>0, <1>1, <2>3, <3>1, AppliedIs DEF T, v
  <2>8. tx'[s] = T
    BY <1>2, <2>1
  <2>9. UnitsDue(tx[s])' /\ CopiesDue(tx[s])' /\ Checked(tx[s])'
    BY <1>6, <2>1, <2>3, <2>4, <2>6, <2>7, <2>8, AppliedExact DEF item, v
  <2>10. /\ tx'[s].kind = tx[s].kind /\ tx'[s].pc = pc /\ tx'[s].call = tx[s].call
         /\ tx'[s].order = tx[s].order /\ tx'[s].item = item
         /\ tx'[s].todo = left
         /\ tx'[s].done = tx[s].done \cup ({item.r} \cap Reservations)
         /\ DOMAIN tx'[s].vseen = DOMAIN tx[s].vseen \cup {v}
         /\ tx'[s].rseen = tx[s].rseen
    <3>1. /\ T.kind = tx[s].kind /\ T.pc = pc /\ T.call = tx[s].call
          /\ T.order = tx[s].order /\ T.item = tx[s].item
          /\ T.todo = tx[s].todo \ {item.r}
          /\ T.done = tx[s].done \cup ({item.r} \cap Reservations)
          /\ T.vseen = Loaded(tx[s].vseen, item.variant,
                            After(ReadVariant(s, item.variant), item.variant, tx[s].call, item.qty))
          /\ T.rseen = tx[s].rseen
      BY <2>7, Zenon DEF Changed
    <3>2. DOMAIN T.vseen = DOMAIN tx[s].vseen \cup {item.variant}
      BY <3>1 DEF Loaded
    <3> QED
      BY <2>8, <3>1, <3>2 DEF left, item, v
  <2>11. /\ item.r \in Reservations => tx'[s].done = tx[s].done \cup {item.r}
         /\ item.r \in tx[s].todo => tx'[s].todo \cup {item.r} = tx[s].todo
         /\ left = tx[s].todo \ {item.r}
    BY <2>10 DEF left
  <2>12. Calm(s)
    BY <1>2, <1>4, <2>1, <2>3, SessionAssumption DEF Calm, CanLock, LockRows
  <2>13. RowsDue(tx[s])'
    <3>1. resv' = resv
      BY <2>1 DEF dbVars
    <3>2. tx[s].todo \cap tx[s].done = {}
      BY <1>3, <2>3 DEF RowsDue
    <3>3. tx'[s].todo \cap tx'[s].done = {}
      BY <2>10, <2>11, <3>2
    <3>4. CASE tx[s].call = "reserve"
      BY <2>2, <2>10, <3>3, <3>4 DEF RowsDue
    <3>5. CASE tx[s].call \in VariantCalls
      <4>1. tx'[s].todo = {} /\ tx'[s].done = {}
        BY <2>6, <2>10, <2>11, <3>5, SessionAssumption
      <4> QED
        BY <2>2, <2>10, <4>1 DEF RowsDue
    <3>6. CASE tx[s].call # "reserve" /\ tx[s].call \notin VariantCalls
      <4>1. tx'[s].todo \cup tx'[s].done = tx[s].todo \cup tx[s].done
        BY <2>4, <2>10, <2>11, <3>6
      <4>2. \A r \in DOMAIN tx[s].rseen \cap (tx[s].todo \cup tx[s].done) : tx[s].rseen[r] = resv[r]
        BY <1>3, <3>6 DEF RowsDue
      <4>3. \A r \in tx'[s].done : resv[r].status = Calls[tx[s].call].from
        BY <1>3, <2>4, <2>11, <3>6 DEF RowsDue
      <4> QED
        BY <2>2, <2>10, <3>1, <3>3, <4>1, <4>2, <4>3 DEF RowsDue
    <3> QED
      BY <3>4, <3>5, <3>6
  <2>14. Whole(tx[s])'
    <3>1. /\ tx[s].kind \in {"api", "ttn", "np"} /\ tx[s].call \notin VariantCalls =>
                tx'[s].done = {item.r} /\ pc = "commit"
      <4> SUFFICES ASSUME tx[s].kind \in {"api", "ttn", "np"}, tx[s].call \notin VariantCalls
                   PROVE  tx'[s].done = {item.r} /\ pc = "commit"
        OBVIOUS
      <4>1. tx[s].done = {}
        BY <1>3, <1>4 DEF Whole
      <4>2. tx[s].kind = "ttn" => left = {}
        <5>1. tx[s].kind = "ttn" => tx[s].call = "ship"
          BY <1>2, <1>4 DEF Programmed, Resting
        <5> QED
          BY <1>3, <2>4, <2>11, <5>1 DEF Whole
      <4> QED
        BY <2>2, <2>4, <2>5, <2>11, <4>1, <4>2
    <3>2. tx[s].call \in VariantCalls => item.qty \in Qtys /\ v \in Variants
      BY <2>3
    <3>3. tx[s].call = "restock" => journal'[item.variant]["restock"] + item.qty <= MaxRestock
      BY <1>3, <2>1 DEF Whole, item, dbVars
    <3>4. tx[s].kind = "ttn" => \A a, b \in left : a = b
      BY <1>3, <2>11 DEF Whole
    <3>5. tx[s].kind = "place" =>
             /\ left \cup tx'[s].done = DOMAIN tx[s].rseen
             /\ DOMAIN tx[s].rseen # {}
             /\ \A r \in DOMAIN tx[s].rseen : ~tx[s].rseen[r].deadline
             /\ pc = "commit" => left = {}
      <4> SUFFICES ASSUME tx[s].kind = "place"
                   PROVE  /\ left \cup tx'[s].done = DOMAIN tx[s].rseen
                          /\ DOMAIN tx[s].rseen # {}
                          /\ \A r \in DOMAIN tx[s].rseen : ~tx[s].rseen[r].deadline
                          /\ pc = "commit" => left = {}
        OBVIOUS
      <4>1. tx[s].call = "reserve"
        BY <1>2, <1>4 DEF Programmed, Resting
      <4>2. item.r \in DOMAIN tx[s].rseen /\ item.r \in Reservations
        BY <1>2, <1>4, <4>1 DEF ItemKnown, item, VariantCalls
      <4> QED
        BY <1>3, <2>2, <2>11, <4>2 DEF Whole
    <3>6. tx[s].kind \in {"confirm", "cancel"} =>
             /\ order'[tx[s].order] = "pending"
             /\ left \cup tx'[s].done = Held(tx[s].order)
             /\ Held(tx[s].order)' = Held(tx[s].order)
      <4> SUFFICES ASSUME tx[s].kind \in {"confirm", "cancel"}
                   PROVE  /\ order'[tx[s].order] = "pending"
                          /\ left \cup tx'[s].done = Held(tx[s].order)
                          /\ Held(tx[s].order)' = Held(tx[s].order)
        OBVIOUS
      <4>1. tx[s].call \in {"fulfill", "release"}
        BY <1>2, <1>4 DEF Programmed, Resting
      <4>2. item.r \in tx[s].todo /\ item.r \in Reservations
        BY <2>4, <4>1 DEF VariantCalls
      <4>3. order[tx[s].order] = "pending" /\ tx[s].todo \cup tx[s].done = Held(tx[s].order)
        BY <1>3, <1>4 DEF Whole
      <4>4. order' = order /\ Held(tx[s].order)' = Held(tx[s].order)
        BY <2>1, <2>10 DEF dbVars, Held, With, InStatus
      <4> QED
        BY <2>11, <4>2, <4>3, <4>4
    <3>7. tx[s].kind = "np" => pc = "commit"
      BY <2>2
    <3> QED
      BY <2>2, <2>3, <2>10, <3>1, <3>2, <3>3, <3>4, <3>5, <3>6, <3>7 DEF Whole, v
  <2>15. Owned(s, tx[s])'
    <3> SUFFICES ASSUME tx[s].kind = "api" PROVE Owned(s, tx[s])'
      BY <2>10 DEF Owned
    <3>1. DOMAIN tx[s].vseen = {} /\ pc = "commit"
      BY <1>3, <1>4, <2>2, <2>5 DEF Owned
    <3>2. tx[s].call \in ReservationCalls =>
             tx[s].todo \cup tx[s].done = {item.r} /\ lock[item.r] = s /\ item.r \in Reservations
      BY <1>3, <1>4 DEF Owned, item
    <3>3. \A x \in LockRows : lock[x] = s => lock'[x] = s
      BY <1>2, <2>1
    <3>4. lock'[v] = s
      BY <1>2, <2>1, <2>3 DEF LockRows
    <3>5. tx[s].call \in ReservationCalls => lock'[item.r] = s /\ tx'[s].todo \cup tx'[s].done = {item.r}
      BY <2>10, <2>11, <3>2, <3>3 DEF LockRows
    <3> QED
      BY <2>10, <3>1, <3>2, <3>4, <3>5 DEF Owned, v
  <2>16. Exact(s, tx[s])'
    BY <2>9, <2>13, <2>14, <2>15 DEF Exact
  <2> QED
    BY <1>0, <1>4, <2>10, <2>12, <2>16, QuietSerial
<1> QED
  BY <1>5, <1>6

\* So does the expiry job, which has locked nothing, when it runs alone.
LEMMA ExpireOneSerial ==
    ASSUME SerialInv, NEW s \in Sessions, NEW r \in Reservations, ExpireOne(s, r)
    PROVE  SerialInv'
<1> DEFINE row == tx[s].rseen[r]
           v == row.variant
           item == [r |-> r, variant |-> v, qty |-> row.qty]
           T == Applied(s, item, "flush")
<1>0. TxInv /\ TxInv' /\ Exact(s, tx[s])
  BY ChangeKeeps DEF SerialInv
<1>1. PICK V \in SUBSET Variants, R \in SUBSET Reservations : tx[s] \in Session(V, R)
  BY <1>0, SessionIs
<1>2. /\ DOMAIN tx = Sessions
      /\ Programmed(tx[s]) /\ RowsKnown(tx[s]) /\ TypeOK
  BY <1>0, SessionIs DEF Sound
<1>3. UnitsDue(tx[s]) /\ CopiesDue(tx[s]) /\ Checked(tx[s]) /\ RowsDue(tx[s])
      /\ Whole(tx[s]) /\ Owned(s, tx[s])
  BY <1>0 DEF Exact
<1>4. /\ tx[s].pc = "flush" /\ r \in tx[s].todo /\ UNCHANGED <<dbVars, lock>>
      /\ tx' = [tx EXCEPT ![s] = T]
  BY DEF ExpireOne
<1>5. tx[s].kind = "expire" /\ tx[s].call = "expire"
  BY <1>2, <1>4 DEF Programmed, RowsKnown, Resting
<1>6. /\ row \in Row /\ r \in DOMAIN tx[s].rseen
      /\ row = resv[r] /\ resv[r].status = "active" /\ resv[r].deadline /\ r \notin tx[s].done
  <2>1. r \in DOMAIN tx[s].rseen /\ resv[r].status = "active" /\ resv[r].deadline
    BY <1>3, <1>4, <1>5 DEF Whole
  <2>2. row = resv[r] /\ r \notin tx[s].done
    BY <1>3, <1>4, <1>5, <2>1 DEF RowsDue
  <2>3. row \in Row
    BY <1>1, <2>1 DEF Session
  <2> QED
    BY <2>1, <2>2, <2>3
<1>7. /\ item \in Item /\ item.r = r /\ item.variant = v /\ item.qty = row.qty
      /\ v \in Variants /\ row.qty \in Qtys
  BY <1>6, BoundAssumption DEF Item, Row, Qtys
<1>8. resv[r].variant = v /\ resv[r].qty = row.qty
  BY <1>6
<1> HIDE DEF row, v, item, T
<1>9. T \in Session(V \cup {v}, R) /\ Changed(T, s, item, "flush")
  BY <1>0, <1>1, <1>5, <1>7, AppliedIs DEF T, Statements, CallNames
<1>10. tx'[s] = T
  BY <1>2, <1>4
<1>11. UnitsDue(tx[s])' /\ CopiesDue(tx[s])' /\ Checked(tx[s])'
  <2>1. tx[s].call \in CallNames \ {"scan", "updateTtn"} /\ tx[s].call \notin VariantCalls
    BY <1>5 DEF CallNames, VariantCalls
  <2>2. Rows(tx[s]) = resv
    BY <1>5 DEF Rows
  <2> QED
    BY <1>4, <1>5, <1>6, <1>7, <1>8, <1>9, <1>10, <2>1, <2>2, AppliedExact
<1>12. /\ tx'[s].kind = "expire" /\ tx'[s].pc = "flush" /\ tx'[s].call = "expire"
       /\ tx'[s].todo = tx[s].todo \ {item.r}
       /\ tx'[s].done = tx[s].done \cup ({item.r} \cap Reservations)
       /\ DOMAIN tx'[s].vseen = DOMAIN tx[s].vseen \cup {item.variant}
       /\ tx'[s].rseen = tx[s].rseen
       /\ tx'[s].units = [tx[s].units EXCEPT ![item.variant] = @ + item.qty]
  <2>1. /\ T.kind = tx[s].kind /\ T.pc = "flush" /\ T.call = tx[s].call
        /\ T.todo = tx[s].todo \ {item.r}
        /\ T.done = tx[s].done \cup ({item.r} \cap Reservations)
        /\ T.vseen = Loaded(tx[s].vseen, item.variant,
                          After(ReadVariant(s, item.variant), item.variant, tx[s].call, item.qty))
        /\ T.rseen = tx[s].rseen
        /\ T.units = [tx[s].units EXCEPT ![item.variant] = @ + item.qty]
    BY <1>9, Zenon DEF Changed
  <2>2. DOMAIN T.vseen = DOMAIN tx[s].vseen \cup {item.variant}
    BY <2>1 DEF Loaded
  <2> QED
    BY <1>5, <1>10, <2>1, <2>2
<1>13. tx'[s].todo = tx[s].todo \ {r} /\ tx'[s].done = tx[s].done \cup {r}
  BY <1>7, <1>12
<1>14. Calm(s)
  BY <1>2, <1>4 DEF Calm
<1>15. RowsDue(tx[s])'
  <2>1. resv' = resv
    BY <1>4 DEF dbVars
  <2>2. /\ tx'[s].todo \cap tx'[s].done = {}
        /\ tx'[s].todo \cup tx'[s].done = tx[s].todo \cup tx[s].done
    BY <1>3, <1>4, <1>5, <1>13 DEF RowsDue
  <2>3. \A p \in DOMAIN tx[s].rseen \cap (tx[s].todo \cup tx[s].done) : tx[s].rseen[p] = resv[p]
    BY <1>3, <1>5 DEF RowsDue
  <2>4. \A p \in tx'[s].done : resv[p].status = Calls["expire"].from
    <3>1. Calls["expire"].from = "active"
      BY DEF Calls, Call, ExpireCall
    <3> QED
      BY <1>3, <1>5, <1>6, <1>13, <3>1 DEF RowsDue
  <2> QED
    BY <1>12, <2>1, <2>2, <2>3, <2>4 DEF RowsDue
<1>16. Whole(tx[s])'
  <2>1. resv' = resv /\ tx'[s].todo \cup tx'[s].done = tx[s].todo \cup tx[s].done
    BY <1>4, <1>13 DEF dbVars
  <2>2. \A w \in DOMAIN tx'[s].vseen : tx'[s].units[w] > 0
    <3>1. tx[s].units \in [Variants -> Nat] /\ DOMAIN tx[s].vseen \subseteq Variants
      BY <1>1 DEF Session
    <3>2. \A w \in DOMAIN tx[s].vseen : tx[s].units[w] > 0
      BY <1>3, <1>5 DEF Whole
    <3>3. item.qty \in Nat /\ item.qty > 0 /\ item.variant \in Variants
      BY <1>7, BoundAssumption DEF Qtys
    <3>4. ASSUME NEW w \in DOMAIN tx[s].vseen \cup {item.variant} PROVE tx'[s].units[w] > 0
      BY <1>12, <3>1, <3>2, <3>3
    <3> QED
      BY <1>12, <3>4
  <2>3. \A p \in tx[s].todo \cup tx[s].done :
           p \in DOMAIN tx[s].rseen /\ resv[p].status = "active" /\ resv[p].deadline
    BY <1>3, <1>5 DEF Whole
  <2> QED
    BY <1>12, <2>1, <2>2, <2>3 DEF Whole, VariantCalls
<1>17. Owned(s, tx[s])'
  BY <1>12 DEF Owned
<1>18. Exact(s, tx[s])'
  BY <1>11, <1>15, <1>16, <1>17 DEF Exact
<1> QED
  BY <1>0, <1>4, <1>5, <1>12, <1>14, <1>18, QuietSerial

-----------------------------------------------------------------------------
(* Commits. *)

\* A commit stores the copies of the session as they are.
LEMMA CommitWrites ==
    ASSUME SerialInv, NEW s \in Sessions, Commit(s), NEW v \in Variants
    PROVE  Stored(v)' = IF v \in DOMAIN tx[s].vseen THEN tx[s].vseen[v] ELSE Stored(v)
<1>0. TxInv /\ CopiesDue(tx[s])
  BY DEF SerialInv, Exact
<1>1. PICK V \in SUBSET Variants, R \in SUBSET Reservations : tx[s] \in Session(V, R)
  BY <1>0, SessionIs
<1>2. CopiesKnown(tx[s])
  BY <1>0 DEF TxInv, Sound
<1>3. v \in DOMAIN tx[s].vseen => tx[s].vseen[v] \in Copy
  BY <1>1 DEF Session
<1>4. /\ onHand'[v] = IF <<v, "onHand">> \in tx[s].wrote THEN tx[s].vseen[v]["onHand"] ELSE onHand[v]
      /\ reserved'[v] = IF <<v, "reserved">> \in tx[s].wrote THEN tx[s].vseen[v]["reserved"] ELSE reserved[v]
      /\ notified'[v] = IF <<v, "notified">> \in tx[s].wrote THEN tx[s].vseen[v]["notified"] ELSE notified[v]
  BY DEF Commit, Written
<1>5. v \in DOMAIN tx[s].vseen => \A c \in Columns :
        tx[s].vseen[v][c] = Stored(v)[c] \/ <<v, c>> \in tx[s].wrote
  BY <1>0 DEF CopiesDue
<1>6. \A c \in Columns : <<v, c>> \in tx[s].wrote => v \in DOMAIN tx[s].vseen
  BY <1>2 DEF CopiesKnown
<1>7. CASE v \notin DOMAIN tx[s].vseen
  BY <1>4, <1>6, <1>7 DEF Stored, Columns
<1>8. CASE v \in DOMAIN tx[s].vseen
  <2>1. /\ onHand'[v] = tx[s].vseen[v].onHand /\ reserved'[v] = tx[s].vseen[v].reserved
        /\ notified'[v] = tx[s].vseen[v].notified
    BY <1>4, <1>5, <1>8 DEF Stored, Columns
  <2> QED
    BY <1>3, <1>8, <2>1 DEF Stored, Copy
<1> QED
  BY <1>7, <1>8

\* A session that goes on after its commit is np_tracking().
LEMMA CommitGoesOn ==
    ASSUME SerialInv, NEW s \in Sessions, Commit(s)
    PROVE  /\ Exact(s, tx[s])'
           /\ tx'[s].pc = "idle" \/ (tx'[s].kind = tx[s].kind /\ tx'[s].call = "none")
<1>0. TxInv /\ Exact(s, tx[s])
  BY DEF SerialInv
<1>1. PICK V \in SUBSET Variants, R \in SUBSET Reservations : tx[s] \in Session(V, R)
  BY <1>0, SessionIs
<1>2. DOMAIN tx = Sessions /\ Programmed(tx[s]) /\ CopiesKnown(tx[s])
  BY <1>0, SessionIs DEF Sound
<1>3. CASE tx[s].kind # "np"
  <2>1. tx'[s] = Resting
    BY <1>2, <1>3 DEF Commit
  <2>2. tx'[s].pc = "idle"
    BY <2>1 DEF Resting
  <2> QED
    BY <2>1, <2>2, RestingExactNext
<1>4. CASE tx[s].kind = "np"
  <2>1. tx'[s] = [Resting EXCEPT
                    !.kind = "np", !.pc = "show", !.todo = tx[s].todo,
                    !.rseen = tx[s].rseen, !.item = tx[s].item, !.held = tx[s].held,
                    !.vseen = [v \in tx[s].held |-> tx[s].vseen[v]]]
    BY <1>2, <1>4 DEF Commit
  <2>2. /\ tx'[s].kind = "np" /\ tx'[s].pc = "show" /\ tx'[s].call = "none"
        /\ tx'[s].todo = tx[s].todo /\ tx'[s].done = {} /\ tx'[s].wrote = {}
        /\ tx'[s].rseen = tx[s].rseen
        /\ tx'[s].vseen = [v \in tx[s].held |-> tx[s].vseen[v]]
        /\ \A v \in Variants : tx'[s].units[v] = 0
    BY <2>1 DEF Resting
  <2>3. tx[s].call \in {"pickUp", "notPickedUp"} /\ tx[s].pc = "commit"
    BY <1>0, <1>2, <1>4, Committing DEF Programmed, Resting
  <2>4. tx[s].held \subseteq DOMAIN tx[s].vseen /\ tx[s].held \subseteq Variants
    BY <1>1, <1>2 DEF CopiesKnown, Session
  <2>5. UnitsDue(tx[s])' /\ Checked(tx[s])'
    BY <2>2 DEF UnitsDue, Checked, Moving, ReservationCalls, VariantCalls
  <2>6. CopiesDue(tx[s])'
    <3>1. \A v \in tx[s].held : tx'[s].vseen[v] = Stored(v)'
      BY <2>2, <2>4, CommitWrites
    <3> QED
      BY <2>2, <2>4, <3>1 DEF CopiesDue, Due
  <2>7. RowsDue(tx[s])'
    <3>1. RowsDue(tx[s])
      BY <1>0 DEF Exact
    <3>2. \A r \in tx[s].todo : r \in Reservations /\ r \notin tx[s].done
      BY <1>1, <2>3, <3>1 DEF RowsDue, Session
    <3>3. \A r \in tx[s].todo : resv'[r] = resv[r]
      BY <1>0, <3>2, CommitRow
    <3>4. \A r \in DOMAIN tx[s].rseen \cap tx[s].todo : tx[s].rseen[r] = resv[r]
      BY <2>3, <3>1 DEF RowsDue
    <3> QED
      BY <2>2, <3>3, <3>4 DEF RowsDue
  <2>8. Whole(tx[s])' /\ Owned(s, tx[s])'
    BY <2>2 DEF Whole, Owned, VariantCalls
  <2> QED
    BY <1>4, <2>2, <2>5, <2>6, <2>7, <2>8 DEF Exact
<1> QED
  BY <1>3, <1>4

\* The commit of an endpoint leaves alone what another one has read.
LEMMA CommitOthers ==
    ASSUME SerialInv, NEW s \in Sessions, Commit(s), NEW t \in Sessions \ {s}
    PROVE  Exact(t, tx[t])'
<1>0. TxInv /\ Exact(s, tx[s]) /\ Exact(t, tx[t])
  BY DEF SerialInv
<1>1. PICK V \in SUBSET Variants, R \in SUBSET Reservations : tx[t] \in Session(V, R)
  BY <1>0, SessionIs
<1>2. /\ DOMAIN tx = Sessions /\ lock \in [LockRows -> Sessions \cup {Free}]
      /\ Programmed(tx[t]) /\ RowsKnown(tx[t]) /\ ItemKnown(tx[t]) /\ TypeOK
  BY <1>0, SessionIs DEF Sound
<1>3. tx'[t] = tx[t] /\ \A x \in LockRows : lock[x] = t => lock'[x] = t
  BY <1>2, SessionAssumption DEF Commit, Unlocked
<1>4. CASE tx[t].pc = "idle"
  BY <1>0, <1>3, <1>4, IdleRests, RestingExactNext
<1>5. CASE tx[t].pc # "idle"
  <2>1. tx[s].pc # "idle"
    BY DEF Commit
  <2>2. tx[s].kind = "api" /\ tx[t].kind = "api" /\ ~(tx[s].call = "restock" /\ tx[t].call = "restock")
    BY <1>5, <2>1 DEF SerialInv, Solos
  <2>3. Programmed(tx[s]) /\ RowsKnown(tx[s])
    BY <1>0, SessionIs DEF Sound
  <2>4. /\ tx[t].call \in ReservationCalls \cup VariantCalls \cup {"reserve"}
        /\ tx[s].call \in ReservationCalls \cup VariantCalls \cup {"reserve"}
        /\ tx[t].pc \in {"call", "variant", "commit"} /\ tx[s].pc = "commit"
    <3>1. tx[s].kind # "none" /\ tx[s].pc # "flush"
      BY <2>2, <2>3 DEF Programmed, Resting
    <3>2. tx[s].pc = "commit"
      BY <3>1 DEF Commit
    <3> QED
      BY <1>2, <2>2, <2>3, <3>2 DEF Programmed, Resting
  \* What the two have locked.
  <2>5. \A v \in DOMAIN tx[t].vseen :
          v \in Variants /\ Stored(v)' = Stored(v) /\ onHand'[v] = onHand[v] /\ Available(v)' = Available(v)
    <3>1. ASSUME NEW v \in DOMAIN tx[t].vseen PROVE v \in Variants /\ v \notin DOMAIN tx[s].vseen
      <4>1. v \in Variants /\ lock[v] = t
        BY <1>0, <1>1, <2>2, <3>1 DEF Exact, Owned, Session
      <4>2. v \in DOMAIN tx[s].vseen => lock[v] = s
        BY <1>0, <2>2 DEF Exact, Owned
      <4> QED
        BY <4>1, <4>2
    <3>2. ASSUME NEW v \in DOMAIN tx[t].vseen PROVE Stored(v)' = Stored(v)
      BY <3>1, CommitWrites
    <3>3. ASSUME NEW v \in DOMAIN tx[t].vseen PROVE onHand'[v] = onHand[v] /\ Available(v)' = Available(v)
      BY <3>2 DEF Stored, Available
    <3> QED
      BY <3>1, <3>2, <3>3
  <2>6. tx[t].call \in ReservationCalls /\ tx[t].pc # "call" =>
          /\ tx[t].todo \cup tx[t].done = {tx[t].item.r} /\ tx[t].item.r \in Reservations
          /\ resv'[tx[t].item.r] = resv[tx[t].item.r]
    <3> SUFFICES ASSUME tx[t].call \in ReservationCalls, tx[t].pc # "call"
                 PROVE  /\ tx[t].todo \cup tx[t].done = {tx[t].item.r} /\ tx[t].item.r \in Reservations
                        /\ resv'[tx[t].item.r] = resv[tx[t].item.r]
      OBVIOUS
    <3> DEFINE r == tx[t].item.r
    <3>1. tx[t].todo \cup tx[t].done = {r} /\ r \in Reservations /\ lock[r] = t
      BY <1>0, <2>2 DEF Exact, Owned
    <3>2. resv[r].status # "unused"
      <4>1. tx[t].call # "reserve" /\ r \in tx[t].todo \cup tx[t].done
        BY <3>1 DEF ReservationCalls
      <4> QED
        BY <1>2, <4>1 DEF RowsKnown
    <3>3. r \notin tx[s].done
      <4>1. CASE tx[s].call \in ReservationCalls
        <5>1. tx[s].todo \cup tx[s].done = {tx[s].item.r} /\ lock[tx[s].item.r] = s
          BY <1>0, <2>2, <2>4, <4>1 DEF Exact, Owned
        <5> QED
          BY <3>1, <5>1
      <4>2. CASE tx[s].call \in VariantCalls
        BY <2>3, <4>2 DEF RowsKnown
      <4>3. CASE tx[s].call = "reserve"
        <5>1. tx[s].done \subseteq DOMAIN tx[s].rseen /\ \A q \in DOMAIN tx[s].rseen : resv[q] = Unused
          BY <2>3, <4>3 DEF RowsKnown
        <5> QED
          BY <3>2, <5>1 DEF Unused
      <4> QED
        BY <2>4, <4>1, <4>2, <4>3
    <3>4. resv'[r] = resv[r]
      BY <1>0, <3>1, <3>3, CommitRow
    <3> QED
      BY <3>1, <3>4
  <2>7. tx[t].call \in ReservationCalls /\ tx[t].pc = "call" => tx[t].done = {} /\ DOMAIN tx[t].rseen = {}
    <3>1. tx[t].call \in ReservationCalls => tx[t].call \notin VariantCalls
      BY DEF ReservationCalls, VariantCalls
    <3> QED
      BY <1>0, <2>2, <3>1 DEF Exact, Whole, Owned
  <2>8. tx[t].call \in VariantCalls => tx[t].todo = {} /\ tx[t].done = {}
    BY <1>2 DEF RowsKnown
  <2>9. \A r \in tx[t].done : tx[t].call # "reserve" => resv'[r] = resv[r]
    BY <2>4, <2>6, <2>7, <2>8
  <2>10. UnitsDue(tx[t])'
    <3>1. ASSUME tx[t].call \in Moving, NEW v \in Variants
          PROVE  QtyOn(Rows(tx[t]), tx[t].done, v)' = QtyOn(Rows(tx[t]), tx[t].done, v)
      <4>1. tx[t].done \in SUBSET Reservations
        BY <1>1 DEF Session
      <4>2. CASE tx[t].call = "reserve"
        BY <1>3, <4>2 DEF Rows, QtyOn, Units
      <4>3. CASE tx[t].call # "reserve"
        <5>1. QtyOn(resv', tx[t].done, v) = QtyOn(resv, tx[t].done, v)
          BY <2>9, <4>1, <4>3, QtySame
        <5>2. Rows(tx[t]) = resv /\ Rows(tx[t])' = resv'
          BY <1>3, <4>3 DEF Rows
        <5>3. QtyOn(Rows(tx[t]), tx[t].done, v)' = QtyOn(resv', tx[t].done, v)
          BY <1>3, <5>2 DEF QtyOn, Units
        <5> QED
          BY <5>1, <5>2, <5>3
      <4> QED
        BY <4>2, <4>3
    <3>2. UnitsDue(tx[t])
      BY <1>0 DEF Exact
    <3> QED
      BY <1>3, <3>1, <3>2 DEF UnitsDue
  <2>11. CopiesDue(tx[t])'
    <3>1. CopiesDue(tx[t])
      BY <1>0 DEF Exact
    <3>2. \A v \in DOMAIN tx[t].vseen : Due(tx[t], v)' = Due(tx[t], v)
      BY <1>3, <2>5 DEF Due
    <3> QED
      BY <1>3, <2>5, <3>1, <3>2 DEF CopiesDue
  <2>12. Checked(tx[t])'
    <3>1. \A v \in Variants : tx[t].units[v] > 0 => v \in DOMAIN tx[t].vseen
      BY <1>0 DEF Exact, CopiesDue
    <3>2. Checked(tx[t])
      BY <1>0 DEF Exact
    <3> QED
      BY <1>3, <2>5, <3>1, <3>2 DEF Checked
  <2>13. RowsDue(tx[t])'
    <3>0. RowsDue(tx[t])
      BY <1>0 DEF Exact
    <3>1. CASE tx[t].call = "reserve"
      BY <1>3, <3>0, <3>1 DEF RowsDue, Rows
    <3>2. CASE tx[t].call \in VariantCalls
      BY <1>3, <2>8, <3>0, <3>2 DEF RowsDue
    <3>3. CASE tx[t].call \in ReservationCalls /\ tx[t].pc = "call"
      BY <1>3, <2>7, <3>0, <3>3 DEF RowsDue, ReservationCalls
    <3>4. CASE tx[t].call \in ReservationCalls /\ tx[t].pc # "call"
      <4>1. tx[t].call # "reserve" /\ tx[t].call \notin VariantCalls
        BY <3>4 DEF ReservationCalls, VariantCalls
      <4>2. \A r \in tx[t].todo \cup tx[t].done : resv'[r] = resv[r]
        BY <2>6, <3>4
      <4>3. Rows(tx[t]) = resv /\ Rows(tx[t])' = resv'
        BY <1>3, <4>1 DEF Rows
      <4>4. tx[t].pc = "variant" => tx[t].item.r \in tx[t].todo
        BY <3>0, <4>1 DEF RowsDue
      <4> QED
        BY <1>3, <3>0, <4>1, <4>2, <4>3, <4>4 DEF RowsDue
    <3> QED
      BY <2>4, <3>1, <3>2, <3>3, <3>4
  <2>14. Whole(tx[t])'
    <3>1. tx[t].call = "restock" => journal'[tx[t].item.variant]["restock"] = journal[tx[t].item.variant]["restock"]
      <4> SUFFICES ASSUME tx[t].call = "restock"
                   PROVE  journal'[tx[t].item.variant]["restock"] = journal[tx[t].item.variant]["restock"]
        OBVIOUS
      <4>1. tx[t].item.variant \in Variants
        <5>1. tx[t].call \in VariantCalls /\ tx[t].pc # "call"
          BY <1>2, <2>2 DEF Programmed, VariantCalls, ReservationCalls, Resting
        <5>2. tx[t].pc \in {"variant", "commit"}
          BY <2>4, <5>1
        <5> QED
          BY <1>0, <1>2, <5>1, <5>2 DEF ItemKnown, Exact, Whole
      <4>2. Calls[tx[s].call].type \in MovementTypes \ {"restock"}
        <5>1. tx[s].call # "restock"
          BY <2>2
        <5> QED
          BY <2>4, <5>1 DEF ReservationCalls, VariantCalls, Calls, Call, ReserveCall, ReleaseCall,
             FulfillCall, ShipCall, UpdateTtnCall, PickUpCall, NotPickedUpCall, SellCall,
             WriteOffCall, MovementTypes
      <4>3. journal' = Moved(Calls[tx[s].call].type,
                             [v \in Variants |-> Calls[tx[s].call].sign * tx[s].units[v]])
        BY DEF Commit
      <4> HIDE DEF Calls
      <4>4. "restock" \in MovementTypes
        BY DEF MovementTypes
      <4> QED
        BY <1>2, <4>1, <4>2, <4>3, <4>4, MovedAt
    <3>2. Whole(tx[t])
      BY <1>0 DEF Exact
    <3> QED
      BY <1>3, <2>2, <3>1, <3>2 DEF Whole
  <2>15. Owned(t, tx[t])'
    <3>1. Owned(t, tx[t]) /\ DOMAIN tx[t].vseen \subseteq Variants
      BY <1>0, <1>1 DEF Exact, Session
    <3> QED
      BY <1>3, <3>1 DEF Owned, LockRows
  <2> QED
    BY <2>10, <2>11, <2>12, <2>13, <2>14, <2>15 DEF Exact
<1> QED
  BY <1>4, <1>5

\* A commit keeps all sessions exact.
LEMMA CommitSerial ==
    ASSUME SerialInv, NEW s \in Sessions, Commit(s)
    PROVE  SerialInv'
<1>1. TxInv /\ TxInv'
  BY CommitKeeps DEF SerialInv
<1>2. ASSUME NEW t \in Sessions PROVE Exact(t, tx[t])'
  BY CommitGoesOn, CommitOthers
<1>3. Solos'
  <2>1. DOMAIN tx = Sessions
    BY <1>1, SessionIs
  <2>2. \A t \in Sessions \ {s} : tx'[t] = tx[t]
    BY <2>1 DEF Commit
  <2>3. tx[s].pc # "idle"
    BY DEF Commit
  <2>4. tx'[s].pc = "idle" \/ (tx'[s].kind = tx[s].kind /\ tx'[s].call = "none")
    BY CommitGoesOn
  <2> QED
    BY <2>2, <2>3, <2>4 DEF SerialInv, Solos
<1> QED
  BY <1>1, <1>2, <1>3 DEF SerialInv

\* The invariant holds if only endpoints overlap.
LEMMA SerialAlways ==
    ASSUME OnlyApiOverlaps
    PROVE  TxSafe => []SerialInv
<1>1. TxInit => SerialInv
  <2> SUFFICES ASSUME TxInit PROVE SerialInv
    OBVIOUS
  <2>1. \A s \in Sessions : tx[s] = Resting
    BY DEF TxInit
  <2>2. TxInv
    BY TxInvInit
  <2>3. Solos
    BY <2>1 DEF Solos, Resting
  <2>4. \A s \in Sessions : Exact(s, tx[s])
    BY <2>1, RestingExact
  <2> QED
    BY <2>2, <2>3, <2>4 DEF SerialInv
<1>2. SerialInv /\ [TxNext]_txVars => SerialInv'
  <2> SUFFICES ASSUME SerialInv, [TxNext]_txVars PROVE SerialInv'
    OBVIOUS
  <2>1. CASE UNCHANGED txVars
    <3>1. TxInv'
      BY <2>1, StepKeeps DEF SerialInv
    <3>2. UNCHANGED dbVars /\ tx' = tx /\ lock' = lock
      BY <2>1 DEF txVars, dbVars
    <3>3. ASSUME NEW t \in Sessions PROVE Exact(t, tx[t])'
      BY <3>2, ExactStays
    <3>4. Solos'
      BY <3>2 DEF SerialInv, Solos
    <3> QED
      BY <3>1, <3>3, <3>4 DEF SerialInv
  <2>2. ASSUME NEW s \in Sessions, Step(s) PROVE SerialInv'
    <3>1. CASE Commit(s)
      BY <3>1, CommitSerial
    <3>2. CASE NpEnds(s)
      BY <3>2, RollbackSerial DEF NpEnds
    <3>3. CASE LockVariant(s) \/ \E r \in Reservations : ExpireOne(s, r)
      BY <3>3, LockVariantSerial, ExpireOneSerial
    <3> QED
      BY <2>2, <3>1, <3>2, <3>3, ReadSerial, Zenon DEF Step
  <2>3. ASSUME NEW s \in Sessions, Abort(s) PROVE SerialInv'
    BY <2>3, RollbackSerial DEF Abort
  <2> QED
    BY <2>1, <2>2, <2>3, ArriveSerial DEF TxNext
<1> QED
  BY <1>1, <1>2, PTL DEF TxSafe

-----------------------------------------------------------------------------
(* Every commit is the step of Orders it stands for. *)

\* A commit moves the counters by what the call takes of each unit.
LEMMA CommitCounters ==
    ASSUME SerialInv, NEW s \in Sessions, Commit(s)
    PROVE  /\ tx[s].call # "scan" => \A v \in Variants :
                onHand'[v] = onHand[v] + Calls[tx[s].call].hand * tx[s].units[v]
           /\ tx[s].call \notin {"scan", "expire"} => \A v \in Variants :
                reserved'[v] = reserved[v] + Calls[tx[s].call].earmark * tx[s].units[v]
           /\ tx[s].call \notin {"scan", "restock"} => \A v \in Variants :
                notified'[v] = notified[v]
<1> DEFINE c == Calls[tx[s].call]
<1>0. TxInv /\ Exact(s, tx[s])
  BY DEF SerialInv
<1>1. PICK V \in SUBSET Variants, R \in SUBSET Reservations : tx[s] \in Session(V, R)
  BY <1>0, SessionIs
<1>2. tx[s].call \in CallNames /\ TypeOK
  BY <1>0, SessionIs, Committing
<1>3. c.hand \in Int /\ c.earmark \in Int
  BY <1>2, CallType
<1>4. ASSUME NEW v \in Variants
      PROVE  /\ tx[s].call # "scan" => onHand'[v] = onHand[v] + c.hand * tx[s].units[v]
             /\ tx[s].call \notin {"scan", "expire"} =>
                   reserved'[v] = reserved[v] + c.earmark * tx[s].units[v]
             /\ tx[s].call \notin {"scan", "restock"} => notified'[v] = notified[v]
  <2>1. Stored(v)' = IF v \in DOMAIN tx[s].vseen THEN tx[s].vseen[v] ELSE Stored(v)
    BY CommitWrites
  <2>2. /\ Stored(v)'.onHand = onHand'[v] /\ Stored(v)'.reserved = reserved'[v]
        /\ Stored(v)'.notified = notified'[v]
        /\ Stored(v).onHand = onHand[v] /\ Stored(v).reserved = reserved[v]
        /\ Stored(v).notified = notified[v] /\ notified[v] \in BOOLEAN
        /\ onHand[v] \in Int /\ reserved[v] \in Int
    BY <1>2 DEF Stored, TypeOK
  <2>3. CASE v \notin DOMAIN tx[s].vseen
    <3>1. tx[s].units[v] = 0
      BY <1>0, <2>3 DEF Exact, CopiesDue
    <3>2. c.hand * tx[s].units[v] = 0 /\ c.earmark * tx[s].units[v] = 0
      BY <1>3, <3>1
    <3> QED
      BY <2>1, <2>2, <2>3, <3>2
  <2>4. CASE v \in DOMAIN tx[s].vseen
    <3>1. Stored(v)' = Due(tx[s], v)
      BY <1>0, <2>1, <2>4 DEF Exact, CopiesDue
    <3>2. tx[s].call # "scan" =>
             Stored(v)' = After(Stored(v), v, tx[s].call, tx[s].units[v])
      BY <1>2, <3>1 DEF Due, CallNames, ReservationCalls, VariantCalls
    <3> DEFINE new == After(Stored(v), v, tx[s].call, tx[s].units[v])
    <3>3. /\ new.onHand = Stored(v).onHand + c.hand * tx[s].units[v]
          /\ tx[s].call # "expire" =>
                new.reserved = Stored(v).reserved + c.earmark * tx[s].units[v]
          /\ tx[s].call # "restock" => new.notified = (Stored(v).notified /\ TRUE)
      BY DEF After
    <3> HIDE DEF new
    <3> QED
      BY <2>2, <3>2, <3>3 DEF new
  <2> QED
    BY <2>3, <2>4
<1> QED
  BY <1>4

\* A request that is not about an order leaves the orders alone.
LEMMA CommitNoOrder ==
    ASSUME TxInv, NEW s \in Sessions, Commit(s),
           tx[s].kind \notin {"place", "confirm", "cancel"}
    PROVE  order' = order
<1>1. \A o \in Orders : order'[o] = order[o]
  BY CommitOrder
<1>2. order \in [Orders -> OrderStatuses]
  BY SessionIs
<1> QED
  BY <1>1, <1>2 DEF Commit, WrittenOrder

\* The rows after a call that sets the status alone.
LEMMA CommitStatus ==
    ASSUME TxInv, NEW s \in Sessions, Commit(s),
           tx[s].call \notin {"reserve", "ship", "updateTtn"}
    PROVE  resv' = SetStatus(tx[s].done, Calls[tx[s].call].to)
<1> DEFINE to == Calls[tx[s].call].to
<1>1. PICK V \in SUBSET Variants, R \in SUBSET Reservations : tx[s] \in Session(V, R)
  BY SessionIs
<1>2. TypeOK /\ RowsKnown(tx[s])
  BY SessionIs DEF Sound
<1>3. ASSUME NEW r \in tx[s].done PROVE r \in Reservations /\ resv[r] \in Row
  BY <1>1, <1>2 DEF TypeOK, RowsKnown, Session, Unused
<1> HIDE DEF to
<1>4. \A r \in tx[s].done :
         [resv[r] EXCEPT !.status = to, !.ttn = @] = [resv[r] EXCEPT !.status = to]
  BY <1>3 DEF Row
<1>5. resv' = [r \in Reservations |->
                 IF r \notin tx[s].done THEN resv[r]
                 ELSE [resv[r] EXCEPT !.status = to, !.ttn = @]]
  BY DEF Commit, WrittenRows, to
<1> QED
  BY <1>4, <1>5 DEF SetStatus, to

\* What a session that moved the units of reservations commits.
LEMMA CommitMoves ==
    ASSUME SerialInv, NEW s \in Sessions, Commit(s), tx[s].call \in Moving
    PROVE  /\ tx[s].done \in SUBSET Reservations
           /\ \A v \in Variants : /\ tx[s].units[v] = QtyOn(Rows(tx[s]), tx[s].done, v)
                                  /\ tx[s].units[v] \in Nat
           /\ tx[s].call # "reserve" =>
                 /\ Rows(tx[s]) = resv
                 /\ tx[s].done \subseteq With(Calls[tx[s].call].from)
           /\ journal' = Moved(Calls[tx[s].call].type,
                               [v \in Variants |-> Calls[tx[s].call].sign * tx[s].units[v]])
           /\ TypeOK
           /\ onHand' = [v \in Variants |-> onHand'[v]] /\ reserved' = [v \in Variants |-> reserved'[v]]
           /\ notified' = [v \in Variants |-> notified'[v]]
           /\ notified = [v \in Variants |-> notified[v]] /\ onHand = [v \in Variants |-> onHand[v]]
           /\ reserved = [v \in Variants |-> reserved[v]]
<1>0. TxInv /\ Exact(s, tx[s])
  BY DEF SerialInv
<1>1. PICK V \in SUBSET Variants, R \in SUBSET Reservations : tx[s] \in Session(V, R)
  BY <1>0, SessionIs
<1>2. TypeOK
  BY <1>0, SessionIs
<1>3. tx[s].done \in SUBSET Reservations /\ \A v \in Variants : tx[s].units[v] \in Nat
  BY <1>1 DEF Session
<1>4. \A v \in Variants : tx[s].units[v] = QtyOn(Rows(tx[s]), tx[s].done, v)
  BY <1>0 DEF Exact, UnitsDue
<1>5. tx[s].call # "reserve" => tx[s].done \subseteq With(Calls[tx[s].call].from)
  BY <1>0, <1>3 DEF Exact, RowsDue, With, InStatus
<1>6. onHand' = [v \in Variants |-> onHand'[v]] /\ reserved' = [v \in Variants |-> reserved'[v]]
      /\ notified' = [v \in Variants |-> notified'[v]]
  BY DEF Commit, Written
<1>7. notified = [v \in Variants |-> notified[v]] /\ onHand = [v \in Variants |-> onHand[v]]
      /\ reserved = [v \in Variants |-> reserved[v]]
  BY <1>2 DEF TypeOK
<1> QED
  BY <1>2, <1>3, <1>4, <1>5, <1>6, <1>7 DEF Commit, Rows

\* release(), of one reservation or of an order.
LEMMA CommitReleases ==
    ASSUME SerialInv, NEW s \in Sessions, Commit(s), tx[s].call = "release", tx[s].done # {}
    PROVE  Release(tx[s].done)
<1> DEFINE D == tx[s].done
<1>0. TxInv
  BY DEF SerialInv
<1>1. Calls["release"].from = "active" /\ Calls["release"].to = "released"
      /\ Calls["release"].hand = 0 /\ Calls["release"].earmark = -1
      /\ Calls["release"].type = "release" /\ Calls["release"].sign = -1
  BY DEF Calls, Call, ReleaseCall
<1>2. tx[s].call \in Moving
  BY DEF Moving, ReservationCalls
<1> HIDE DEF Calls
<1>3. /\ D \subseteq With("active") /\ TypeOK
      /\ \A v \in Variants : tx[s].units[v] = QtyOn(resv, D, v) /\ tx[s].units[v] \in Nat
      /\ journal' = Moved("release", [v \in Variants |-> (-1) * tx[s].units[v]])
  BY <1>1, <1>2, CommitMoves
<1>4. \A v \in Variants : onHand'[v] = onHand[v] /\ reserved'[v] = reserved[v] - QtyOn(resv, D, v)
                          /\ notified'[v] = notified[v]
  BY <1>1, <1>3, CommitCounters DEF TypeOK
<1>5. onHand' = onHand /\ notified' = notified /\ reserved' = Minus(reserved, D)
  BY <1>2, <1>4, CommitMoves DEF Minus
<1>6. journal' = Moved("release", [v \in Variants |-> -QtyOn(resv, D, v)])
  <2>1. \A v \in Variants : [w \in Variants |-> (-1) * tx[s].units[w]][v]
                              = [w \in Variants |-> -QtyOn(resv, D, w)][v]
    BY <1>3
  <2> QED
    BY <1>3, <2>1, MovedSame
<1>7. resv' = SetStatus(D, "released")
  BY <1>0, <1>1, CommitStatus
<1> QED
  BY <1>3, <1>5, <1>6, <1>7 DEF Release

\* fulfill(), likewise.
LEMMA CommitFulfills ==
    ASSUME SerialInv, NEW s \in Sessions, Commit(s), tx[s].call = "fulfill", tx[s].done # {}
    PROVE  Fulfill(tx[s].done)
<1> DEFINE D == tx[s].done
<1>0. TxInv /\ Exact(s, tx[s])
  BY DEF SerialInv
<1>1. Calls["fulfill"].from = "active" /\ Calls["fulfill"].to = "fulfilled"
      /\ Calls["fulfill"].hand = -1 /\ Calls["fulfill"].earmark = -1
      /\ Calls["fulfill"].type = "sale" /\ Calls["fulfill"].sign = -1
  BY DEF Calls, Call, FulfillCall
<1>2. tx[s].call \in Moving
  BY DEF Moving, ReservationCalls
<1> HIDE DEF Calls
<1>3. /\ D \subseteq With("active") /\ TypeOK
      /\ \A v \in Variants : tx[s].units[v] = QtyOn(resv, D, v) /\ tx[s].units[v] \in Nat
      /\ journal' = Moved("sale", [v \in Variants |-> (-1) * tx[s].units[v]])
  BY <1>1, <1>2, CommitMoves
<1>4. \A v \in Variants : /\ onHand'[v] = onHand[v] - QtyOn(resv, D, v)
                          /\ reserved'[v] = reserved[v] - QtyOn(resv, D, v)
                          /\ notified'[v] = notified[v]
  BY <1>1, <1>3, CommitCounters DEF TypeOK
<1>5. onHand' = Minus(onHand, D) /\ notified' = notified /\ reserved' = Minus(reserved, D)
  BY <1>2, <1>4, CommitMoves DEF Minus
<1>6. journal' = Moved("sale", [v \in Variants |-> -QtyOn(resv, D, v)])
  <2>1. \A v \in Variants : [w \in Variants |-> (-1) * tx[s].units[w]][v]
                              = [w \in Variants |-> -QtyOn(resv, D, w)][v]
    BY <1>3
  <2> QED
    BY <1>3, <2>1, MovedSame
<1>7. resv' = SetStatus(D, "fulfilled")
  BY <1>0, <1>1, CommitStatus
<1>8. Covers(onHand, resv, D)
  BY <1>0, <1>3 DEF Exact, Checked, Covers
<1> QED
  BY <1>3, <1>5, <1>6, <1>7, <1>8 DEF Fulfill

\* reserve(), of one position or of a whole order.
LEMMA CommitReserves ==
    ASSUME SerialInv, NEW s \in Sessions, Commit(s), tx[s].call = "reserve", tx[s].done # {}
    PROVE  /\ Reserve(tx[s].done, [r \in tx[s].done |-> tx[s].rseen[r]])
           /\ \A r \in tx[s].done : /\ r \in DOMAIN tx[s].rseen /\ tx[s].rseen[r] \in NewRows
                                    /\ tx[s].rseen[r].order = tx[s].order
<1> DEFINE D == tx[s].done
           rows == [r \in D |-> tx[s].rseen[r]]
<1>0. TxInv /\ Exact(s, tx[s]) /\ RowsKnown(tx[s])
  BY SessionIs DEF SerialInv, Sound
<1>1. Calls["reserve"].hand = 0 /\ Calls["reserve"].earmark = 1
      /\ Calls["reserve"].type = "reserve" /\ Calls["reserve"].sign = 1
  BY DEF Calls, Call, ReserveCall
<1>2. tx[s].call \in Moving
  BY DEF Moving
<1> HIDE DEF Calls
<1>3. /\ D \in SUBSET Reservations /\ TypeOK /\ Rows(tx[s]) = tx[s].rseen
      /\ \A v \in Variants : tx[s].units[v] = QtyOn(tx[s].rseen, D, v) /\ tx[s].units[v] \in Nat
      /\ journal' = Moved("reserve", [v \in Variants |-> 1 * tx[s].units[v]])
  BY <1>1, <1>2, CommitMoves DEF Rows
<1>4. \A r \in D : /\ r \in DOMAIN tx[s].rseen /\ resv[r] = Unused /\ tx[s].rseen[r] \in NewRows
                   /\ tx[s].rseen[r].order = tx[s].order
  BY <1>0 DEF RowsKnown
<1>5. D \subseteq With("unused")
  BY <1>3, <1>4 DEF With, InStatus, Unused
<1>6. \A v \in Variants : QtyOn(rows, D, v) = QtyOn(tx[s].rseen, D, v)
  <2>1. \A r \in D : rows[r].variant = tx[s].rseen[r].variant /\ rows[r].qty = tx[s].rseen[r].qty
    OBVIOUS
  <2> HIDE DEF rows
  <2> QED
    BY <1>3, <2>1, QtySame
<1>7. \A v \in Variants : /\ onHand'[v] = onHand[v] /\ notified'[v] = notified[v]
                          /\ reserved'[v] = reserved[v] + QtyOn(rows, D, v)
  <2> HIDE DEF rows
  <2> QED
    BY <1>1, <1>3, <1>6, CommitCounters DEF TypeOK
<1>8. onHand' = onHand /\ notified' = notified
      /\ reserved' = [v \in Variants |-> reserved[v] + QtyOn(rows, D, v)]
  <2> HIDE DEF rows
  <2> QED
    BY <1>2, <1>7, CommitMoves
<1>9. journal' = Moved("reserve", [v \in Variants |-> QtyOn(rows, D, v)])
  <2> HIDE DEF rows
  <2>1. \A v \in Variants : [w \in Variants |-> 1 * tx[s].units[w]][v]
                              = [w \in Variants |-> QtyOn(rows, D, w)][v]
    BY <1>3, <1>6
  <2> QED
    BY <1>3, <2>1, MovedSame
<1>10. Covers([v \in Variants |-> Available(v)], rows, D)
  <2> HIDE DEF rows
  <2>1. Checked(tx[s])
    BY <1>0 DEF Exact
  <2> QED
    BY <1>3, <1>6, <2>1 DEF Checked, Covers
<1>11. resv' = [r \in Reservations |-> IF r \in D THEN rows[r] ELSE resv[r]]
  <2>1. \A r \in Reservations : resv'[r] = IF r \in D THEN rows[r] ELSE resv[r]
    BY <1>0, CommitRow
  <2>2. resv' = [r \in Reservations |-> resv'[r]]
    BY DEF Commit, WrittenRows
  <2> HIDE DEF rows
  <2> QED
    BY <2>1, <2>2
<1> HIDE DEF rows
<1>12. Reserve(D, rows)
  BY <1>5, <1>8, <1>9, <1>10, <1>11 DEF Reserve
<1> QED
  BY <1>4, <1>12 DEF rows

\* pick_up()
LEMMA CommitPicksUp ==
    ASSUME SerialInv, NEW s \in Sessions, Commit(s), tx[s].call = "pickUp",
           NEW r \in Reservations, tx[s].done = {r}
    PROVE  PickUp(r)
<1>0. TxInv
  BY DEF SerialInv
<1> DEFINE D == {r}
<1>1. Calls["pickUp"].from = "shipped" /\ Calls["pickUp"].to = "fulfilled"
      /\ Calls["pickUp"].hand = 0 /\ Calls["pickUp"].earmark = 0
      /\ Calls["pickUp"].type = "sale" /\ Calls["pickUp"].sign = -1
  BY DEF Calls, Call, PickUpCall
<1>2. tx[s].call \in Moving
  BY DEF Moving, ReservationCalls
<1>8. tx[s].done = D
  OBVIOUS
<1> HIDE DEF Calls, D
<1>3. /\ D \subseteq With("shipped") /\ TypeOK
      /\ \A v \in Variants : tx[s].units[v] = QtyOn(resv, D, v) /\ tx[s].units[v] \in Nat
      /\ journal' = Moved("sale", [v \in Variants |-> (-1) * tx[s].units[v]])
  BY <1>1, <1>2, <1>8, CommitMoves
<1>4. \A v \in Variants : onHand'[v] = onHand[v] /\ reserved'[v] = reserved[v] /\ notified'[v] = notified[v]
  BY <1>1, <1>3, CommitCounters DEF TypeOK
<1>5. onHand' = onHand /\ notified' = notified /\ reserved' = reserved
  BY <1>2, <1>4, CommitMoves
<1>6. journal' = Moved("sale", [v \in Variants |-> -QtyOn(resv, D, v)])
  <2>1. \A v \in Variants : [w \in Variants |-> (-1) * tx[s].units[w]][v]
                              = [w \in Variants |-> -QtyOn(resv, D, w)][v]
    BY <1>3
  <2> QED
    BY <1>3, <2>1, MovedSame
<1>7. resv' = SetStatus(D, "fulfilled")
  BY <1>0, <1>1, CommitStatus DEF D
<1> QED
  BY <1>3, <1>5, <1>6, <1>7 DEF D, PickUp

\* not_picked_up()
LEMMA CommitTakesBack ==
    ASSUME SerialInv, NEW s \in Sessions, Commit(s), tx[s].call = "notPickedUp",
           NEW r \in Reservations, tx[s].done = {r}
    PROVE  NotPickedUp(r)
<1>0. TxInv
  BY DEF SerialInv
<1> DEFINE D == {r}
<1>1. Calls["notPickedUp"].from = "shipped" /\ Calls["notPickedUp"].to = "released"
      /\ Calls["notPickedUp"].hand = 1 /\ Calls["notPickedUp"].earmark = 0
      /\ Calls["notPickedUp"].type = "ret" /\ Calls["notPickedUp"].sign = 1
  BY DEF Calls, Call, NotPickedUpCall
<1>2. tx[s].call \in Moving
  BY DEF Moving, ReservationCalls
<1>8. tx[s].done = D
  OBVIOUS
<1> HIDE DEF Calls, D
<1>3. /\ D \subseteq With("shipped") /\ TypeOK
      /\ \A v \in Variants : tx[s].units[v] = QtyOn(resv, D, v) /\ tx[s].units[v] \in Nat
      /\ journal' = Moved("ret", [v \in Variants |-> 1 * tx[s].units[v]])
  BY <1>1, <1>2, <1>8, CommitMoves
<1>4. \A v \in Variants : /\ onHand'[v] = onHand[v] + QtyOn(resv, D, v)
                          /\ reserved'[v] = reserved[v] /\ notified'[v] = notified[v]
  BY <1>1, <1>3, CommitCounters DEF TypeOK
<1>5. onHand' = Plus(onHand, D) /\ notified' = notified /\ reserved' = reserved
  BY <1>2, <1>4, CommitMoves DEF Plus
<1>6. journal' = Moved("ret", [v \in Variants |-> QtyOn(resv, D, v)])
  <2>1. \A v \in Variants : [w \in Variants |-> 1 * tx[s].units[w]][v]
                              = [w \in Variants |-> QtyOn(resv, D, w)][v]
    BY <1>3
  <2> QED
    BY <1>3, <2>1, MovedSame
<1>7. resv' = SetStatus(D, "released")
  BY <1>0, <1>1, CommitStatus DEF D
<1> QED
  BY <1>3, <1>5, <1>6, <1>7 DEF D, NotPickedUp

\* ship()
LEMMA CommitShips ==
    ASSUME SerialInv, NEW s \in Sessions, Commit(s), tx[s].call = "ship",
           NEW r \in Reservations, tx[s].done = {r}
    PROVE  Ship(r, tx[s].ttn)
<1> DEFINE D == {r}
<1>1. Calls["ship"].from = "active" /\ Calls["ship"].to = "shipped"
      /\ Calls["ship"].hand = -1 /\ Calls["ship"].earmark = -1
      /\ Calls["ship"].type = "sale" /\ Calls["ship"].sign = 0
  BY DEF Calls, Call, ShipCall
<1>2. tx[s].call \in Moving
  BY DEF Moving, ReservationCalls
<1>8. tx[s].done = D
  OBVIOUS
<1> HIDE DEF Calls, D
<1>3. /\ D \subseteq With("active") /\ TypeOK
      /\ \A v \in Variants : tx[s].units[v] = QtyOn(resv, D, v) /\ tx[s].units[v] \in Nat
      /\ journal' = Moved("sale", [v \in Variants |-> 0 * tx[s].units[v]])
  BY <1>1, <1>2, <1>8, CommitMoves
<1>4. \A v \in Variants : /\ onHand'[v] = onHand[v] - QtyOn(resv, D, v)
                          /\ reserved'[v] = reserved[v] - QtyOn(resv, D, v)
                          /\ notified'[v] = notified[v]
  BY <1>1, <1>3, CommitCounters DEF TypeOK
<1>5. onHand' = Minus(onHand, D) /\ notified' = notified /\ reserved' = Minus(reserved, D)
  BY <1>2, <1>4, CommitMoves DEF Minus
<1>6. journal' = journal
  <2>1. \A v \in Variants : [w \in Variants |-> 0 * tx[s].units[w]][v] = 0
    BY <1>3
  <2>2. "sale" \in MovementTypes
    BY DEF MovementTypes
  <2> QED
    BY <1>3, <2>1, <2>2, MovedNothing
<1>7. resv' = [resv EXCEPT ![r].status = "shipped", ![r].ttn = tx[s].ttn]
  BY <1>1, <1>3 DEF D, Commit, WrittenRows, TypeOK, Row, Unused
<1> QED
  BY <1>3, <1>5, <1>6, <1>7 DEF D, Ship

\* update_ttn()
LEMMA CommitUpdatesTtn ==
    ASSUME SerialInv, NEW s \in Sessions, Commit(s), tx[s].call = "updateTtn",
           NEW r \in Reservations, tx[s].done = {r}
    PROVE  UpdateTtn(r, tx[s].ttn)
<1>0. TxInv /\ Exact(s, tx[s])
  BY DEF SerialInv
<1>1. Calls["updateTtn"].from = "shipped" /\ Calls["updateTtn"].to = "shipped"
      /\ Calls["updateTtn"].hand = 0 /\ Calls["updateTtn"].earmark = 0
      /\ Calls["updateTtn"].type = "sale" /\ Calls["updateTtn"].sign = 0
  BY DEF Calls, Call, UpdateTtnCall
<1> HIDE DEF Calls
<1>2. TypeOK /\ \A v \in Variants : tx[s].units[v] = 0
  BY <1>0, SessionIs DEF Exact, UnitsDue
<1>3. r \in With("shipped")
  BY <1>0, <1>1 DEF Exact, RowsDue, With, InStatus
<1>4. \A v \in Variants : /\ onHand'[v] = onHand[v] /\ reserved'[v] = reserved[v]
                          /\ notified'[v] = notified[v]
  BY <1>1, <1>2, CommitCounters DEF TypeOK
<1>5. onHand' = onHand /\ notified' = notified /\ reserved' = reserved
  BY <1>2, <1>4 DEF TypeOK, Commit, Written
<1>6. journal' = journal
  <2>1. journal' = Moved("sale", [v \in Variants |-> 0 * tx[s].units[v]])
    BY <1>1 DEF Commit
  <2>2. \A v \in Variants : [w \in Variants |-> 0 * tx[s].units[w]][v] = 0
    BY <1>2
  <2>3. "sale" \in MovementTypes
    BY DEF MovementTypes
  <2> QED
    BY <1>2, <2>1, <2>2, <2>3, MovedNothing
<1>7. resv' = [resv EXCEPT ![r].ttn = tx[s].ttn]
  BY <1>1, <1>2, <1>3 DEF Commit, WrittenRows, TypeOK, Row, Unused, With, InStatus
<1> QED
  BY <1>3, <1>5, <1>6, <1>7 DEF UpdateTtn

\* release_expired_reservations(), its clamp at 0 included.
LEMMA CommitExpires ==
    ASSUME SerialInv, NEW s \in Sessions, Commit(s), tx[s].kind = "expire"
    PROVE  ReleaseExpired(tx[s].done)
<1> DEFINE D == tx[s].done
<1>0. TxInv /\ Exact(s, tx[s])
  BY DEF SerialInv
<1>1. Calls["expire"].from = "active" /\ Calls["expire"].to = "released"
      /\ Calls["expire"].hand = 0 /\ Calls["expire"].earmark = -1
      /\ Calls["expire"].type = "release" /\ Calls["expire"].sign = 0
  BY DEF Calls, Call, ExpireCall
<1>2. tx[s].call = "expire" /\ tx[s].call \in Moving
  BY <1>0, SessionIs DEF Sound, Programmed, Resting, Moving
<1> HIDE DEF Calls
<1>3. /\ D \in SUBSET Reservations /\ TypeOK
      /\ \A v \in Variants : tx[s].units[v] = QtyOn(resv, D, v) /\ tx[s].units[v] \in Nat
      /\ journal' = Moved("release", [v \in Variants |-> 0 * tx[s].units[v]])
  BY <1>1, <1>2, CommitMoves
<1>4. D \subseteq {r \in With("active") : resv[r].deadline}
  BY <1>0, <1>3 DEF Exact, Whole, With, InStatus
<1>5. \A v \in Variants : onHand'[v] = onHand[v] /\ notified'[v] = notified[v]
  BY <1>1, <1>2, <1>3, CommitCounters DEF TypeOK
<1>6. ASSUME NEW v \in Variants
      PROVE  reserved'[v] = LET left == reserved[v] - QtyOn(resv, D, v)
                            IN  IF QtyOn(resv, D, v) > 0 /\ left < 0 THEN 0 ELSE left
  <2>1. Stored(v)' = IF v \in DOMAIN tx[s].vseen THEN tx[s].vseen[v] ELSE Stored(v)
    BY CommitWrites
  <2>2. Stored(v)'.reserved = reserved'[v] /\ Stored(v).reserved = reserved[v] /\ reserved[v] \in Int
    BY <1>3 DEF Stored, TypeOK
  <2>3. CASE v \notin DOMAIN tx[s].vseen
    <3>1. tx[s].units[v] = 0
      BY <1>0, <2>3 DEF Exact, CopiesDue
    <3> QED
      BY <1>3, <2>1, <2>2, <2>3, <3>1
  <2>4. CASE v \in DOMAIN tx[s].vseen
    <3>1. Stored(v)' = After(Stored(v), v, "expire", tx[s].units[v]) /\ tx[s].units[v] > 0
      BY <1>0, <1>2, <2>1, <2>4 DEF Exact, CopiesDue, Due, Whole
    <3>2. After(Stored(v), v, "expire", tx[s].units[v]).reserved =
             IF reserved[v] + (-1) * tx[s].units[v] < 0 THEN 0
             ELSE reserved[v] + (-1) * tx[s].units[v]
      BY <1>1, <2>2 DEF After
    <3> QED
      BY <1>3, <2>2, <3>1, <3>2
  <2> QED
    BY <2>3, <2>4
<1>7. /\ onHand' = onHand /\ notified' = notified
      /\ reserved' = [v \in Variants |->
                       LET left == reserved[v] - QtyOn(resv, D, v)
                       IN  IF QtyOn(resv, D, v) > 0 /\ left < 0 THEN 0 ELSE left]
  BY <1>2, <1>5, <1>6, CommitMoves
<1>8. journal' = journal
  <2>1. \A v \in Variants : [w \in Variants |-> 0 * tx[s].units[w]][v] = 0
    BY <1>3
  <2>2. "release" \in MovementTypes
    BY DEF MovementTypes
  <2> QED
    BY <1>3, <2>1, <2>2, MovedNothing
<1>9. resv' = SetStatus(D, "released")
  BY <1>0, <1>1, <1>2, CommitStatus
<1> QED
  BY <1>4, <1>7, <1>8, <1>9 DEF ReleaseExpired

\* A call on a variant alone touches no reservation and no other variant.
LEMMA CommitOfVariant ==
    ASSUME SerialInv, NEW s \in Sessions, Commit(s), tx[s].call \in VariantCalls
    PROVE  /\ tx[s].item.variant \in Variants /\ tx[s].item.qty \in Qtys /\ tx[s].item.qty \in Nat
           /\ \A v \in Variants : tx[s].units[v] = IF v = tx[s].item.variant THEN tx[s].item.qty ELSE 0
           /\ resv' = resv /\ TypeOK /\ tx[s].kind = "api"
<1>0. TxInv /\ Exact(s, tx[s])
  BY DEF SerialInv
<1>1. TypeOK /\ Programmed(tx[s]) /\ RowsKnown(tx[s])
  BY <1>0, SessionIs DEF Sound
<1>2. tx[s].kind = "api" /\ tx[s].pc = "commit"
  BY <1>0, <1>1, Committing DEF Programmed, Resting, VariantCalls, ReservationCalls
<1>3. tx[s].item.variant \in Variants /\ tx[s].item.qty \in Qtys
  BY <1>0, <1>2 DEF Exact, Whole
<1>4. tx[s].item.qty \in Nat
  BY <1>3, BoundAssumption DEF Qtys
<1>5. \A v \in Variants : tx[s].units[v] = IF v = tx[s].item.variant THEN tx[s].item.qty ELSE 0
  BY <1>0, <1>2 DEF Exact, UnitsDue
<1>6. tx[s].done = {}
  BY <1>1 DEF RowsKnown
<1>7. resv' = resv
  BY <1>1, <1>6 DEF Commit, WrittenRows, TypeOK
<1> QED
  BY <1>1, <1>2, <1>3, <1>4, <1>5, <1>7

\* sell_direct() and write_off()
LEMMA CommitTakes ==
    ASSUME SerialInv, NEW s \in Sessions, Commit(s), tx[s].call \in {"sell", "writeOff"}
    PROVE  \/ SellDirect(tx[s].item.variant, tx[s].item.qty)
           \/ WriteOff(tx[s].item.variant, tx[s].item.qty, "defect")
<1> DEFINE v == tx[s].item.variant
           q == tx[s].item.qty
           t == Calls[tx[s].call].type
<1>0. TxInv /\ Exact(s, tx[s])
  BY DEF SerialInv
<1>1. /\ Calls[tx[s].call].hand = -1 /\ Calls[tx[s].call].earmark = 0
      /\ Calls[tx[s].call].sign = -1
      /\ tx[s].call = "sell" => t = "direct"
      /\ tx[s].call = "writeOff" => t = "adjustment"
      /\ t \in MovementTypes
  BY DEF Calls, Call, SellCall, WriteOffCall, MovementTypes
<1> HIDE DEF Calls
<1>2. tx[s].call \in VariantCalls
  BY DEF VariantCalls
<1>3. /\ v \in Variants /\ q \in Qtys /\ q \in Nat /\ resv' = resv /\ TypeOK
      /\ \A w \in Variants : tx[s].units[w] = IF w = v THEN q ELSE 0
  BY <1>2, CommitOfVariant
<1> HIDE DEF v, q, t
<1>4. \A w \in Variants : /\ onHand'[w] = onHand[w] - (IF w = v THEN q ELSE 0)
                          /\ reserved'[w] = reserved[w] /\ notified'[w] = notified[w]
  BY <1>1, <1>3, CommitCounters DEF TypeOK
<1>5. onHand' = [onHand EXCEPT ![v] = @ - q] /\ reserved' = reserved /\ notified' = notified
  <2>1. onHand' = [w \in Variants |-> onHand'[w]] /\ reserved' = [w \in Variants |-> reserved'[w]]
        /\ notified' = [w \in Variants |-> notified'[w]]
    BY DEF Commit, Written
  <2> QED
    BY <1>3, <1>4, <2>1 DEF TypeOK
<1>6. journal' = MovedOne(v, t, -q)
  <2> DEFINE d == [w \in Variants |-> (-1) * tx[s].units[w]]
  <2>1. journal' = Moved(t, d)
    BY <1>1 DEF Commit, t
  <2>2. \A w \in Variants : d[w] = IF w = v THEN -q ELSE 0
    BY <1>3
  <2> HIDE DEF d
  <2>3. -q \in Int
    BY <1>3
  <2> QED
    BY <1>1, <1>3, <2>1, <2>2, <2>3, MovedAlone
<1>7. q <= Available(v)
  <2>1. tx[s].units[v] > 0 /\ tx[s].units[v] = q
    BY <1>3 DEF Qtys
  <2> QED
    BY <1>0, <1>3, <2>1 DEF Exact, Checked
<1> QED
  BY <1>1, <1>3, <1>5, <1>6, <1>7 DEF SellDirect, WriteOff, v, q

\* restock(), the low-stock flag included.
LEMMA CommitRestocks ==
    ASSUME SerialInv, NEW s \in Sessions, Commit(s), tx[s].call = "restock"
    PROVE  Restock(tx[s].item.variant, tx[s].item.qty)
<1>0. TxInv /\ Exact(s, tx[s])
  BY DEF SerialInv
<1>1. /\ Calls["restock"].hand = 1 /\ Calls["restock"].earmark = 0
      /\ Calls["restock"].sign = 1 /\ Calls["restock"].type = "restock"
  BY DEF Calls, Call, RestockCall
<1> HIDE DEF Calls
<1>2. tx[s].call \in VariantCalls
  BY DEF VariantCalls
<1>12. PICK v \in Variants, q \in Qtys : v = tx[s].item.variant /\ q = tx[s].item.qty
  BY <1>2, CommitOfVariant
<1>3. /\ v \in Variants /\ q \in Qtys /\ q \in Nat /\ resv' = resv /\ TypeOK
      /\ \A w \in Variants : tx[s].units[w] = IF w = v THEN q ELSE 0
  BY <1>2, <1>12, CommitOfVariant
<1>4. journal[v]["restock"] + q <= MaxRestock
  BY <1>0, <1>12 DEF Exact, Whole
<1>5. DOMAIN tx[s].vseen \subseteq {v} /\ tx[s].units[v] > 0
  BY <1>0, <1>2, <1>3, <1>12, CommitOfVariant, Committing DEF Exact, Owned, Qtys
<1>6. v \in DOMAIN tx[s].vseen
  BY <1>0, <1>3, <1>5 DEF Exact, CopiesDue
<1>7. \A w \in Variants : /\ onHand'[w] = onHand[w] + (IF w = v THEN q ELSE 0)
                          /\ reserved'[w] = reserved[w]
  BY <1>1, <1>3, CommitCounters DEF TypeOK
<1>8. \A w \in Variants \ {v} : notified'[w] = notified[w]
  <2>1. \A w \in Variants \ {v} : Stored(w)' = Stored(w)
    BY <1>5, CommitWrites
  <2> QED
    BY <2>1 DEF Stored
<1>9. notified'[v] = (notified[v] /\ Available(v) + q <= Threshold[v])
  <2>1. Stored(v)' = After(Stored(v), v, "restock", q)
    <3>1. Stored(v)' = tx[s].vseen[v]
      BY <1>3, <1>6, CommitWrites
    <3>2. tx[s].vseen[v] = Due(tx[s], v) /\ tx[s].units[v] = q
      BY <1>0, <1>3, <1>6 DEF Exact, CopiesDue
    <3> QED
      BY <3>1, <3>2 DEF Due
  <2>2. Stored(v)'.notified = notified'[v]
    BY DEF Stored
  <2>3. After(Stored(v), v, "restock", q).notified =
          (notified[v] /\ ~((onHand[v] + 1 * q) - (reserved[v] + 0 * q) > Threshold[v]))
    BY <1>1 DEF After, Stored
  <2>4. onHand[v] \in Int /\ reserved[v] \in Int /\ Threshold[v] \in Int
    BY <1>3, OpeningAssumption DEF TypeOK
  <2>5. ~((onHand[v] + 1 * q) - (reserved[v] + 0 * q) > Threshold[v])
           <=> Available(v) + q <= Threshold[v]
    BY <1>3, <2>4 DEF Available
  <2> QED
    BY <2>1, <2>2, <2>3, <2>5
<1>10. /\ onHand' = [onHand EXCEPT ![v] = @ + q] /\ reserved' = reserved
       /\ notified' = [notified EXCEPT ![v] = @ /\ Available(v) + q <= Threshold[v]]
  <2>1. onHand' = [w \in Variants |-> onHand'[w]] /\ reserved' = [w \in Variants |-> reserved'[w]]
        /\ notified' = [w \in Variants |-> notified'[w]]
    BY DEF Commit, Written
  <2>2. onHand' = [onHand EXCEPT ![v] = @ + q] /\ reserved' = reserved
    BY <1>3, <1>7, <2>1 DEF TypeOK
  <2> DEFINE low == Available(v) + q <= Threshold[v]
  <2>3. notified'[v] = (notified[v] /\ low)
    BY <1>9
  <2> HIDE DEF low
  <2>4. notified' = [notified EXCEPT ![v] = @ /\ low]
    BY <1>3, <1>8, <2>1, <2>3 DEF TypeOK
  <2> QED
    BY <2>2, <2>4 DEF low
<1>11. journal' = MovedOne(v, "restock", q)
  <2> DEFINE d == [w \in Variants |-> 1 * tx[s].units[w]]
  <2>1. journal' = Moved("restock", d)
    BY <1>1 DEF Commit
  <2>2. \A w \in Variants : d[w] = IF w = v THEN q ELSE 0
    BY <1>3
  <2> HIDE DEF d
  <2>3. q \in Int /\ "restock" \in MovementTypes
    BY <1>3 DEF MovementTypes
  <2> QED
    BY <1>3, <2>1, <2>2, <2>3, MovedAlone
<1> QED
  BY <1>3, <1>4, <1>10, <1>11, <1>12 DEF Restock

\* low_stock_scan()
LEMMA CommitScans ==
    ASSUME SerialInv, NEW s \in Sessions, Commit(s), tx[s].kind = "scan"
    PROVE  LowStockScan
<1>0. TxInv /\ Exact(s, tx[s])
  BY DEF SerialInv
<1>1. Calls["scan"].type = "release"
  BY DEF Calls, Call, ScanCall
<1>2. TypeOK /\ Programmed(tx[s]) /\ RowsKnown(tx[s])
  BY <1>0, SessionIs DEF Sound
<1>3. tx[s].call = "scan"
  BY <1>2 DEF Programmed, Resting
<1>4. tx[s].done = {} /\ \A v \in Variants : tx[s].units[v] = 0
  BY <1>0, <1>2, <1>3 DEF RowsKnown, Exact, UnitsDue
<1> DEFINE Low(v) == Available(v) <= Threshold[v]
<1>5. DOMAIN tx[s].vseen = {v \in Variants : ~notified[v] /\ Low(v)}
  BY <1>0 DEF Exact, Whole
<1> HIDE DEF Low
<1>6. \A v \in Variants : /\ onHand'[v] = onHand[v] /\ reserved'[v] = reserved[v]
                          /\ notified'[v] = (notified[v] \/ Low(v))
  <2> TAKE v \in Variants
  <2>1. Stored(v)' = IF v \in DOMAIN tx[s].vseen THEN tx[s].vseen[v] ELSE Stored(v)
    BY CommitWrites
  <2>2. v \in DOMAIN tx[s].vseen => tx[s].vseen[v] = [Stored(v) EXCEPT !.notified = TRUE]
    BY <1>0, <1>3 DEF Exact, CopiesDue, Due
  <2>3. notified[v] \in BOOLEAN
    BY <1>2 DEF TypeOK
  <2>4. CASE v \in DOMAIN tx[s].vseen
    <3>1. Stored(v)' = [Stored(v) EXCEPT !.notified = TRUE]
      BY <2>1, <2>2, <2>4
    <3>2. onHand'[v] = onHand[v] /\ reserved'[v] = reserved[v] /\ notified'[v] = TRUE
      BY <3>1 DEF Stored
    <3>3. Low(v)
      BY <1>5, <2>4
    <3> QED
      BY <3>2, <3>3
  <2>5. CASE v \notin DOMAIN tx[s].vseen
    <3>1. Stored(v)' = Stored(v)
      BY <2>1, <2>5
    <3>2. onHand'[v] = onHand[v] /\ reserved'[v] = reserved[v] /\ notified'[v] = notified[v]
      BY <3>1 DEF Stored
    <3>3. notified[v] \/ ~Low(v)
      BY <1>5, <2>5
    <3> QED
      BY <2>3, <3>2, <3>3, Zenon
  <2> QED
    BY <2>4, <2>5
<1>7. /\ onHand' = onHand /\ reserved' = reserved
      /\ notified' = [v \in Variants |-> notified[v] \/ Low(v)]
  <2>1. onHand' = [w \in Variants |-> onHand'[w]] /\ reserved' = [w \in Variants |-> reserved'[w]]
        /\ notified' = [w \in Variants |-> notified'[w]]
    BY DEF Commit, Written
  <2> QED
    BY <1>2, <1>6, <2>1 DEF TypeOK
<1>8. journal' = journal
  <2> DEFINE d == [v \in Variants |-> Calls["scan"].sign * tx[s].units[v]]
  <2>1. journal' = Moved("release", d)
    BY <1>1, <1>3 DEF Commit
  <2>2. Calls["scan"].sign = 0
    BY DEF Calls, Call, ScanCall
  <2> HIDE DEF Calls
  <2>3. \A v \in Variants : d[v] = 0
    BY <1>4, <2>2
  <2>4. "release" \in MovementTypes
    BY DEF MovementTypes
  <2> HIDE DEF d
  <2> QED
    BY <1>2, <2>1, <2>3, <2>4, MovedNothing
<1>9. resv' = resv
  BY <1>2, <1>4 DEF Commit, WrittenRows, TypeOK
<1> QED
  BY <1>7, <1>8, <1>9 DEF LowStockScan, Low

\* The commit of an endpoint, or of a job on one reservation, is that of one
\* call of the stock service.
LEMMA CommitOfCall ==
    ASSUME SerialInv, NEW s \in Sessions, Commit(s), tx[s].kind \in {"api", "ttn", "np"}
    PROVE  OrderNext
<1>0. TxInv /\ Exact(s, tx[s])
  BY DEF SerialInv
<1>1. PICK V \in SUBSET Variants, R \in SUBSET Reservations : tx[s] \in Session(V, R)
  BY <1>0, SessionIs
<1>2. Programmed(tx[s])
  BY <1>0, SessionIs DEF Sound
<1>3. UNCHANGED order
  BY <1>0, CommitNoOrder
<1>4. tx[s].pc = "commit" /\ tx[s].call \in ReservationCalls \cup VariantCalls \cup {"reserve"}
  BY <1>0, <1>2, Committing DEF Programmed, Resting, ReservationCalls
<1>5. tx[s].call \notin VariantCalls => tx[s].done = {tx[s].item.r} /\ tx[s].item.r \in Reservations
  <2>1. tx[s].call \notin VariantCalls => tx[s].done = {tx[s].item.r}
    BY <1>0, <1>4 DEF Exact, Whole
  <2> QED
    BY <1>1, <2>1 DEF Session
<1>6. CASE tx[s].call = "reserve"
  <2>1. PICK r \in Reservations : tx[s].done = {r}
    BY <1>5, <1>6 DEF VariantCalls
  <2>2. tx[s].order = NoOrder
    BY <1>0, Committing
  <2>3. /\ Reserve({r}, [x \in {r} |-> tx[s].rseen[x]])
        /\ tx[s].rseen[r] \in NewRows /\ tx[s].rseen[r].order = NoOrder
    BY <1>6, <2>1, <2>2, CommitReserves
  <2>4. PICK v \in Variants, q \in Qtys, d \in BOOLEAN : tx[s].rseen[r] = NewRow(v, q, NoOrder, d)
    BY <2>3 DEF NewRows, NewRow
  <2>5. [x \in {r} |-> tx[s].rseen[x]] = [x \in {r} |-> NewRow(v, q, NoOrder, d)]
    BY <2>4
  <2>6. ReserveManually(r, v, q, d)
    BY <2>3, <2>5 DEF ReserveManually
  <2> QED
    BY <1>3, <2>6 DEF StockStep, OrderNext
<1>7. CASE tx[s].call \in VariantCalls
  <2>1. tx[s].item.variant \in Variants /\ tx[s].item.qty \in Qtys
    BY <1>7, CommitOfVariant
  <2>2. CASE tx[s].call = "restock"
    BY <1>3, <2>1, <2>2, CommitRestocks DEF StockStep, OrderNext
  <2>3. CASE tx[s].call \in {"sell", "writeOff"}
    <3>1. "defect" \in WriteOffReasons
      BY DEF WriteOffReasons
    <3> QED
      BY <1>3, <2>1, <2>3, <3>1, CommitTakes DEF StockStep, OrderNext
  <2> QED
    BY <1>7, <2>2, <2>3 DEF VariantCalls
<1>8. CASE tx[s].call \in ReservationCalls
  <2>1. PICK r \in Reservations : tx[s].done = {r}
    BY <1>5, <1>8 DEF VariantCalls, ReservationCalls
  <2>2. tx[s].ttn \in BOOLEAN /\ {r} # {}
    BY <1>1 DEF Session
  <2>3. CASE tx[s].call = "release"
    BY <1>3, <2>1, <2>2, <2>3, CommitReleases DEF StockStep, OrderNext
  <2>4. CASE tx[s].call = "fulfill"
    BY <1>3, <2>1, <2>2, <2>4, CommitFulfills DEF StockStep, OrderNext
  <2>5. CASE tx[s].call = "ship"
    BY <1>3, <2>1, <2>2, <2>5, CommitShips DEF StockStep, OrderNext
  <2>6. CASE tx[s].call = "updateTtn"
    BY <1>3, <2>1, <2>2, <2>6, CommitUpdatesTtn DEF StockStep, OrderNext
  <2>7. CASE tx[s].call = "pickUp"
    BY <1>3, <2>1, <2>7, CommitPicksUp DEF StockStep, OrderNext
  <2>8. CASE tx[s].call = "notPickedUp"
    BY <1>3, <2>1, <2>8, CommitTakesBack DEF StockStep, OrderNext
  <2> QED
    BY <1>8, <2>3, <2>4, <2>5, <2>6, <2>7, <2>8 DEF ReservationCalls
<1> QED
  BY <1>4, <1>6, <1>7, <1>8

\* The commit of create_website_order() places the order with all it asks for.
LEMMA CommitPlaces ==
    ASSUME SerialInv, NEW s \in Sessions, Commit(s), tx[s].kind = "place"
    PROVE  OrderNext
<1> DEFINE D == tx[s].done
           o == tx[s].order
           rows == [r \in D |-> tx[s].rseen[r]]
<1>0. TxInv /\ Exact(s, tx[s])
  BY DEF SerialInv
<1>2. Programmed(tx[s]) /\ OrderKnown(s, tx[s]) /\ order \in [Orders -> OrderStatuses]
  BY <1>0, SessionIs DEF Sound
<1>3. o \in Orders /\ tx[s].call = "reserve" /\ tx[s].pc = "commit"
  BY <1>0, <1>2, Committing DEF Programmed, Resting
<1>4. D = DOMAIN tx[s].rseen /\ D # {} /\ \A r \in D : ~tx[s].rseen[r].deadline
  BY <1>0, <1>3 DEF Exact, Whole
<1>5. /\ Reserve(D, rows)
      /\ \A r \in D : tx[s].rseen[r] \in NewRows /\ tx[s].rseen[r].order = o
  BY <1>3, <1>4, CommitReserves
<1>6. rows \in [D -> OrderRows(o)]
  BY <1>4, <1>5 DEF OrderRows
<1>7. D \in SUBSET With("unused")
  BY <1>5 DEF Reserve
<1>8. order[o] = "none"
  BY <1>2, <1>3 DEF OrderKnown
<1>9. order' = [order EXCEPT ![o] = "pending"]
  BY <1>2, <1>3 DEF Commit, WrittenOrder
<1> HIDE DEF D, o, rows
<1>10. Place(o, D, rows)
  BY <1>5, <1>6, <1>8, <1>9 DEF Place
<1> QED
  BY <1>3, <1>6, <1>7, <1>10 DEF PlaceSome, OrderNext, o

\* The commit of confirm_order() or cancel_order() settles all the order holds.
LEMMA CommitDecides ==
    ASSUME SerialInv, NEW s \in Sessions, Commit(s), tx[s].kind \in {"confirm", "cancel"}
    PROVE  OrderNext
<1>0. TxInv /\ Exact(s, tx[s])
  BY DEF SerialInv
<1>2. /\ Programmed(tx[s]) /\ OrderKnown(s, tx[s]) /\ order \in [Orders -> OrderStatuses]
      /\ TypeOK
  BY <1>0, SessionIs DEF Sound
<1>3. /\ tx[s].order \in Orders /\ tx[s].pc = "commit"
      /\ tx[s].kind = "confirm" => tx[s].call = "fulfill"
      /\ tx[s].kind = "cancel" => tx[s].call = "release"
  BY <1>0, <1>2, Committing DEF Programmed, Resting
<1>4. order[tx[s].order] = "pending" /\ tx[s].done = Held(tx[s].order)
  BY <1>0, <1>2, <1>3 DEF Exact, Whole, OrderKnown
<1>5. /\ tx[s].kind = "confirm" => order' = [order EXCEPT ![tx[s].order] = "fulfilled"]
      /\ tx[s].kind = "cancel" => order' = [order EXCEPT ![tx[s].order] = "canceled"]
  BY <1>2 DEF Commit, WrittenOrder
<1>6. tx[s].done = {} => UNCHANGED vars
  <2> SUFFICES ASSUME tx[s].done = {} PROVE UNCHANGED vars
    OBVIOUS
  <2>1. tx[s].call \in Moving /\ tx[s].call \notin {"scan", "expire", "restock", "reserve"}
    BY <1>3 DEF Moving, ReservationCalls
  <2>2. \A v \in Variants : tx[s].units[v] = 0
    <3>1. \A v \in Variants : tx[s].units[v] = QtyOn(Rows(tx[s]), {}, v)
      BY <2>1, CommitMoves
    <3> QED
      BY <3>1, QtyNone
  <2>3. Calls[tx[s].call].hand * 0 = 0 /\ Calls[tx[s].call].earmark * 0 = 0
        /\ Calls[tx[s].call].sign * 0 = 0 /\ Calls[tx[s].call].type \in MovementTypes
    BY <1>3 DEF Calls, Call, FulfillCall, ReleaseCall, MovementTypes
  <2>4. \A v \in Variants : onHand'[v] = onHand[v] /\ reserved'[v] = reserved[v] /\ notified'[v] = notified[v]
    <3> HIDE DEF Calls
    <3> QED
      BY <1>2, <2>1, <2>2, <2>3, CommitCounters DEF TypeOK
  <2>5. onHand' = onHand /\ reserved' = reserved /\ notified' = notified
    BY <2>1, <2>4, CommitMoves
  <2>6. journal' = journal
    <3> HIDE DEF Calls
    <3> DEFINE d == [v \in Variants |-> Calls[tx[s].call].sign * tx[s].units[v]]
    <3>1. journal' = Moved(Calls[tx[s].call].type, d)
      BY DEF Commit
    <3>2. \A v \in Variants : d[v] = 0
      BY <2>2, <2>3
    <3> HIDE DEF d
    <3> QED
      BY <1>2, <2>3, <3>1, <3>2, MovedNothing
  <2>7. resv' = resv
    BY <1>2 DEF Commit, WrittenRows, TypeOK
  <2> QED
    BY <2>5, <2>6, <2>7 DEF vars
<1>7. CASE tx[s].kind = "confirm"
  <2>1. Confirm(tx[s].order)
    BY <1>3, <1>4, <1>5, <1>6, <1>7, CommitFulfills DEF Confirm
  <2> QED
    BY <1>3, <2>1 DEF OrderNext
<1>8. CASE tx[s].kind = "cancel"
  <2>1. Cancel(tx[s].order)
    BY <1>3, <1>4, <1>5, <1>6, <1>8, CommitReleases DEF Cancel
  <2> QED
    BY <1>3, <2>1 DEF OrderNext
<1> QED
  BY <1>7, <1>8

\* Every commit is a step of Orders.
LEMMA CommitSimulates ==
    ASSUME SerialInv, NEW s \in Sessions, Commit(s)
    PROVE  OrderNext
<1>0. TxInv
  BY DEF SerialInv
<1>1. tx[s].kind \in RequestKinds
  BY <1>0, Committing
<1>2. CASE tx[s].kind = "expire"
  <2>1. ReleaseExpired(tx[s].done) /\ order' = order
    BY <1>0, <1>2, CommitExpires, CommitNoOrder
  <2>2. tx[s].done \in SUBSET {r \in Reservations : resv[r].deadline}
    BY <2>1 DEF ReleaseExpired, With, InStatus
  <2>3. ReleaseExpiredSome
    BY <2>1, <2>2 DEF ReleaseExpiredSome
  <2> QED
    BY <2>1, <2>3 DEF StockStep, OrderNext
<1>3. CASE tx[s].kind = "scan"
  BY <1>0, <1>3, CommitScans, CommitNoOrder DEF StockStep, OrderNext
<1> QED
  BY <1>1, <1>2, <1>3, CommitOfCall, CommitPlaces, CommitDecides DEF RequestKinds

\* The docstring of inventory.py, "Кожна операція тут атомарна": whatever the
\* endpoints do at a time has the effect of the same calls one after the other,
\* each at its commit, if every other kind has the database to itself.
THEOREM TxSerializable == OnlyApiOverlaps => (TxSafe => Serializable)
<1> SUFFICES ASSUME OnlyApiOverlaps PROVE TxSafe => Serializable
  OBVIOUS
<1>1. TxInit => OrderInit
  BY DEF TxInit
<1>2. SerialInv /\ [TxNext]_txVars => [OrderNext]_orderVars
  <2> SUFFICES ASSUME SerialInv, [TxNext]_txVars PROVE [OrderNext]_orderVars
    OBVIOUS
  <2>1. TxInv
    BY DEF SerialInv
  <2>2. UNCHANGED dbVars \/ \E s \in Sessions : Commit(s)
    BY <2>1, OnlyCommits
  <2>3. UNCHANGED dbVars => UNCHANGED orderVars
    BY DEF dbVars, orderVars
  <2> QED
    BY <2>2, <2>3, CommitSimulates
<1> QED
  BY <1>1, <1>2, SerialAlways, PTL DEF TxSafe, Serializable, OrderSpec

\* So what Inventory promises holds between any two statements of the endpoints:
\* nothing is oversold, earmarks, stock and sales add up, and fulfill() never
\* finds fewer units than were promised.
THEOREM TxStockAddsUp ==
    OnlyApiOverlaps =>
        (TxSafe => [](/\ NoOversell /\ ReservedIsEarmarked /\ StockConserved
                      /\ SalesMatchFulfilled /\ ActiveCanBeFulfilled))
<1> SUFFICES ASSUME OnlyApiOverlaps
             PROVE  TxSafe => [](/\ NoOversell /\ ReservedIsEarmarked /\ StockConserved
                                 /\ SalesMatchFulfilled /\ ActiveCanBeFulfilled)
  OBVIOUS
<1>1. TxSafe => Spec
  BY TxSerializable, OrdersImplementInventory DEF Serializable, ImplementsInventory
<1> QED
  BY <1>1, NeverOversold, EarmarksAddUp, StockAddsUp, SalesAddUp, FulfillNeverRefused, PTL

\* And a sold or released reservation is settled for good, whatever the sessions
\* that read it before still hold.
THEOREM TxSettlementIsFinal == OnlyApiOverlaps => (TxSafe => SettledForGood)
BY TxSerializable, OrdersImplementInventory, SettlementIsFinal
   DEF Serializable, ImplementsInventory
=============================================================================
