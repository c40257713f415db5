----------------------------- MODULE Inventory -----------------------------
(***************************************************************************)
(* The stock service, app/services/inventory.py, one step per transaction. *)
(*                                                                         *)
(* A variant keeps two counters, on_hand and reserved.  A reservation      *)
(* earmarks qty units of one variant and walks through its statuses:       *)
(*                                                                         *)
(*    active -> fulfilled | released | shipped                             *)
(*    shipped -> fulfilled (picked up) | released (came back)              *)
(*                                                                         *)
(* Every change also appends StockMovement rows; the journal is kept here  *)
(* as the running total of the deltas, per variant and type, which is what *)
(* the finance endpoints add up.                                           *)
(*                                                                         *)
(* Service calls made with commit=False run together in one transaction    *)
(* (an order reserves, sells or releases all its positions or none), so    *)
(* reserve, release and fulfill take a set of reservations here; the HTTP  *)
(* endpoints use a set of one.  Interleavings of transactions that are not *)
(* atomic are the subject of StockTx.                                      *)
(***************************************************************************)
EXTENDS Integers, FiniteSets

CONSTANTS
    Variants,       \* rows of the table variants of one shop
    Reservations,   \* ids the table reservations can hand out
    NoVariant,      \* the variant of a reservation id not handed out yet
    Orders,         \* website orders, named by their idempotency key
    NoOrder,        \* order_id of a manual reservation
    OpeningStock,   \* on_hand a variant was created with
    OpeningReserve, \* reserved it was created with (the demo seed sets 1)
    Threshold,      \* low_stock_threshold of each variant
    MaxQty,         \* bound: the largest qty of one request
    MaxRestock      \* bound: units a variant can be restocked with in all

ASSUME FiniteAssumption == IsFiniteSet(Variants) /\ IsFiniteSet(Reservations)
ASSUME NoneAssumption == NoVariant \notin Variants /\ NoOrder \notin Orders
ASSUME BoundAssumption == MaxQty \in Nat \ {0} /\ MaxRestock \in Nat
ASSUME OpeningAssumption ==
    /\ OpeningStock \in [Variants -> Nat]
    /\ OpeningReserve \in [Variants -> Nat]
    /\ Threshold \in [Variants -> Nat]
    /\ \A v \in Variants : OpeningReserve[v] <= OpeningStock[v]

VARIABLES
    onHand,     \* Variant.on_hand
    reserved,   \* Variant.reserved
    notified,   \* Variant.low_stock_notified_at is not NULL
    resv,       \* the reservation rows
    journal     \* sum of StockMovement.delta, per variant and type

vars == <<onHand, reserved, notified, resv, journal>>

Statuses == {"active", "fulfilled", "released", "shipped"}

\* Sale rows are told apart by reservation_id: "sale" rows carry one, the rows
\* of a direct sale do not.
MovementTypes ==
    {"reserve", "release", "sale", "direct", "ret", "restock", "adjustment"}

WriteOffReasons == {"sold", "defect", "correction", "other"}

\* Slip: _require_positive_qty() forgotten.
QtysFromZero == 0..MaxQty

\* _require_positive_qty(): the quantities a request can carry.
Qtys == 1..MaxQty

\* deadline: expires_at is set.  ttn: a waybill number is filled in.
Row == [status : Statuses, variant : Variants, qty : 1..MaxQty,
        order : Orders \cup {NoOrder}, deadline : BOOLEAN, ttn : BOOLEAN]

Unused == [status |-> "unused", variant |-> NoVariant, qty |-> 0,
           order |-> NoOrder, deadline |-> FALSE, ttn |-> FALSE]

TypeOK ==
    /\ onHand \in [Variants -> Int]
    /\ reserved \in [Variants -> Int]
    /\ notified \in [Variants -> BOOLEAN]
    /\ resv \in [Reservations -> Row \cup {Unused}]
    /\ journal \in [Variants -> [MovementTypes -> Int]]

-----------------------------------------------------------------------------

Available(v) == onHand[v] - reserved[v]

\* The reservations of the table rows that have the given status.
InStatus(rows, status) == {r \in Reservations : rows[r].status = status}
With(status) == InStatus(resv, status)

\* The single units of v that the reservations S of the table rows stand for,
\* and their number.
Units(rows, S, v) ==
    {u \in S \X (1..MaxQty) : rows[u[1]].variant = v /\ u[2] <= rows[u[1]].qty}
QtyOn(rows, S, v) == Cardinality(Units(rows, S, v))
UnitsIn(rows, status, v) == QtyOn(rows, InStatus(rows, status), v)

\* Every variant that S needs units of has them.
Covers(counter, rows, S) ==
    \A v \in Variants :
        QtyOn(rows, S, v) > 0 => QtyOn(rows, S, v) <= counter[v]

\* A counter of each variant with the units of S added or taken away.
Plus(counter, S) == [v \in Variants |-> counter[v] + QtyOn(resv, S, v)]
Minus(counter, S) == [v \in Variants |-> counter[v] - QtyOn(resv, S, v)]

\* journal after movements of the given type: delta[v] on every variant.
Moved(type, delta) ==
    [v \in Variants |-> [journal[v] EXCEPT ![type] = @ + delta[v]]]

\* The movement of one service call on one variant.
MovedOne(v, type, delta) == [journal EXCEPT ![v][type] = @ + delta]

SetStatus(S, status) ==
    [r \in Reservations |->
        IF r \in S THEN [resv[r] EXCEPT !.status = status] ELSE resv[r]]

-----------------------------------------------------------------------------
(* Slips: the operations below with one check or one line lost.  They take *)
(* no part in the specification; each stands for a bug that a property of  *)
(* this module has to notice.                                              *)

\* Slip: write_off() compares qty with on_hand instead of available.
WriteOffEarmarked(v, q, reason) ==
    /\ q <= onHand[v]
    /\ onHand' = [onHand EXCEPT ![v] = @ - q]
    /\ journal' = MovedOne(v, IF reason = "sold" THEN "direct" ELSE "adjustment", -q)
    /\ UNCHANGED <<reserved, notified, resv>>

\* Slip: sell_direct() compares qty with on_hand instead of available.
SellEarmarked(v, q) ==
    /\ q <= onHand[v]
    /\ onHand' = [onHand EXCEPT ![v] = @ - q]
    /\ journal' = MovedOne(v, "direct", -q)
    /\ UNCHANGED <<reserved, notified, resv>>

\* Slip: ship() takes the units off the shelf and keeps the earmark.
ShipKeepsEarmark(r, ttn) ==
    /\ r \in With("active")
    /\ onHand' = Minus(onHand, {r})
    /\ resv' = [resv EXCEPT ![r].status = "shipped", ![r].ttn = ttn]
    /\ UNCHANGED <<reserved, notified, journal>>

\* Slip: pick_up() takes the units off the shelf again, as fulfill() does.
PickUpTakesAgain(r) ==
    /\ r \in With("shipped")
    /\ onHand' = Minus(onHand, {r})
    /\ resv' = SetStatus({r}, "fulfilled")
    /\ journal' = Moved("sale", [v \in Variants |-> -QtyOn(resv, {r}, v)])
    /\ UNCHANGED <<reserved, notified>>

\* Slip: pick_up() also takes a reservation that was sold already.
PickUpSold(r) ==
    /\ r \in With("shipped") \cup With("fulfilled")
    /\ resv' = SetStatus({r}, "fulfilled")
    /\ journal' = Moved("sale", [v \in Variants |-> -QtyOn(resv, {r}, v)])
    /\ UNCHANGED <<onHand, reserved, notified>>

\* Slip: the expiry job does not look at the status, only at the deadline.
ReleaseExpiredAnyStatus(S) ==
    /\ S \subseteq {r \in Reservations : resv[r].deadline}
    /\ reserved' = Minus(reserved, S \cap With("active"))
    /\ resv' = SetStatus(S, "released")
    /\ UNCHANGED <<onHand, notified, journal>>

-----------------------------------------------------------------------------

Init ==
    /\ onHand = OpeningStock
    /\ reserved = OpeningReserve
    /\ notified = [v \in Variants |-> FALSE]
    /\ resv = [r \in Reservations |-> Unused]
    /\ journal = [v \in Variants |-> [t \in MovementTypes |-> 0]]

\* reserve(), once for every new row of rows, in one transaction.
Reserve(S, rows) ==
    /\ S # {} /\ S \subseteq With("unused")
    /\ Covers([v \in Variants |-> Available(v)], rows, S)
    /\ resv' = [r \in Reservations |-> IF r \in S THEN rows[r] ELSE resv[r]]
    /\ reserved' = [v \in Variants |-> reserved[v] + QtyOn(rows, S, v)]
    /\ journal' = Moved("reserve", [v \in Variants |-> QtyOn(rows, S, v)])
    /\ UNCHANGED <<onHand, notified>>

\* A request for a reservation: what the caller of reserve() can ask for.
NewRow(v, q, o, d) ==
    [status |-> "active", variant |-> v, qty |-> q, order |-> o,
     deadline |-> d, ttn |-> FALSE]
NewRows == [status : {"active"}, variant : Variants, qty : Qtys,
            order : Orders \cup {NoOrder}, deadline : BOOLEAN, ttn : {FALSE}]

\* release(), for every reservation of S.
Release(S) ==
    /\ S # {} /\ S \subseteq With("active")
    /\ reserved' = Minus(reserved, S)
    /\ resv' = SetStatus(S, "released")
    /\ journal' = Moved("release", [v \in Variants |-> -QtyOn(resv, S, v)])
    /\ UNCHANGED <<onHand, notified>>

\* fulfill(), for every reservation of S: the units leave, the sale is booked.
Fulfill(S) ==
    /\ S # {} /\ S \subseteq With("active")
    /\ Covers(onHand, resv, S)
    /\ onHand' = Minus(onHand, S)
    /\ reserved' = Minus(reserved, S)
    /\ resv' = SetStatus(S, "fulfilled")
    /\ journal' = Moved("sale", [v \in Variants |-> -QtyOn(resv, S, v)])
    /\ UNCHANGED notified

\* ship(): the units leave the shop, nothing is written to the journal.
Ship(r, ttn) ==
    /\ r \in With("active")
    /\ onHand' = Minus(onHand, {r})
    /\ reserved' = Minus(reserved, {r})
    /\ resv' = [resv EXCEPT ![r].status = "shipped", ![r].ttn = ttn]
    /\ UNCHANGED <<notified, journal>>

\* update_ttn(): the seller fills the number in later, or blanks it.
UpdateTtn(r, ttn) ==
    /\ r \in With("shipped")
    /\ resv' = [resv EXCEPT ![r].ttn = ttn]
    /\ UNCHANGED <<onHand, reserved, notified, journal>>

\* pick_up(): only the sale is booked, the counters moved on ship().
PickUp(r) ==
    /\ r \in With("shipped")
    /\ resv' = SetStatus({r}, "fulfilled")
    /\ journal' = Moved("sale", [v \in Variants |-> -QtyOn(resv, {r}, v)])
    /\ UNCHANGED <<onHand, reserved, notified>>

\* not_picked_up(): the units come back to on_hand without an earmark.
NotPickedUp(r) ==
    /\ r \in With("shipped")
    /\ onHand' = Plus(onHand, {r})
    /\ resv' = SetStatus({r}, "released")
    /\ journal' = Moved("ret", [v \in Variants |-> QtyOn(resv, {r}, v)])
    /\ UNCHANGED <<reserved, notified>>

\* sell_direct()
SellDirect(v, q) ==
    /\ q <= Available(v)
    /\ onHand' = [onHand EXCEPT ![v] = @ - q]
    /\ journal' = MovedOne(v, "direct", -q)
    /\ UNCHANGED <<reserved, notified, resv>>

\* restock(), and _maybe_reset_low_stock_flag() on the new quantity.
Restock(v, q) ==
    /\ journal[v]["restock"] + q <= MaxRestock      \* bound
    /\ onHand' = [onHand EXCEPT ![v] = @ + q]
    /\ notified' = [notified EXCEPT ![v] = @ /\ Available(v) + q <= Threshold[v]]
    /\ journal' = MovedOne(v, "restock", q)
    /\ UNCHANGED <<reserved, resv>>

\* write_off(): "sold" books revenue, the other reasons do not.
WriteOff(v, q, reason) ==
    /\ q <= Available(v)
    /\ onHand' = [onHand EXCEPT ![v] = @ - q]
    /\ journal' = MovedOne(v, IF reason = "sold" THEN "direct" ELSE "adjustment", -q)
    /\ UNCHANGED <<reserved, notified, resv>>

\* release_expired_reservations() of app/tasks.py, for the reservations S whose
\* deadline has passed.  It clamps reserved at 0 and logs a delta of 0.
ReleaseExpired(S) ==
    /\ S \subseteq {r \in With("active") : resv[r].deadline}
    /\ reserved' = [v \in Variants |->
                       LET left == reserved[v] - QtyOn(resv, S, v)
                       IN  IF QtyOn(resv, S, v) > 0 /\ left < 0 THEN 0 ELSE left]
    /\ resv' = SetStatus(S, "released")
    /\ UNCHANGED <<onHand, notified, journal>>

\* low_stock_scan() of app/tasks.py: one push per variant at or under its
\* threshold whose flag is down.
LowStockScan ==
    /\ notified' = [v \in Variants |-> notified[v] \/ Available(v) <= Threshold[v]]
    /\ UNCHANGED <<onHand, reserved, resv, journal>>

-----------------------------------------------------------------------------

ReserveSome ==
    \E S \in SUBSET With("unused") : \E rows \in [S -> NewRows] : Reserve(S, rows)
ReleaseSome == \E S \in SUBSET With("active") : Release(S)
FulfillSome == \E S \in SUBSET With("active") : Fulfill(S)
ReleaseExpiredSome ==
    \E S \in SUBSET {r \in Reservations : resv[r].deadline} : ReleaseExpired(S)

Next ==
    \/ ReserveSome
    \/ ReleaseSome
    \/ FulfillSome
    \/ ReleaseExpiredSome
    \/ LowStockScan
    \/ \E r \in Reservations :
          \/ \E ttn \in BOOLEAN : Ship(r, ttn) \/ UpdateTtn(r, ttn)
          \/ PickUp(r)
          \/ NotPickedUp(r)
    \/ \E v \in Variants, q \in Qtys :
          \/ SellDirect(v, q)
          \/ Restock(v, q)
          \/ \E reason \in WriteOffReasons : WriteOff(v, q, reason)

Spec == Init /\ [][Next]_vars

-----------------------------------------------------------------------------

\* The invariant of the module docstring and of README, invariant 4:
\* reserved <= on_hand, so available is never negative, and no earmark is
\* negative either.
NoOversell == \A v \in Variants : 0 <= reserved[v] /\ reserved[v] <= onHand[v]

\* reserved is not a counter of its own but the units of the active
\* reservations (plus what the row was created with): no path of a reservation
\* forgets to give its earmark back or gives it back twice.
ReservedIsEarmarked ==
    \A v \in Variants :
        reserved[v] = OpeningReserve[v] + UnitsIn(resv, "active", v)

\* The units on the shelf and in transit are what the journal says was bought
\* in, sold and written off.  "ret" is left out on purpose: it only brings back
\* what ship() took away without a movement.
StockConserved ==
    \A v \in Variants :
        onHand[v] + UnitsIn(resv, "shipped", v)
            = OpeningStock[v] + journal[v]["restock"] + journal[v]["sale"]
                + journal[v]["direct"] + journal[v]["adjustment"]

\* Revenue from reservations is booked once: the sale rows that carry a
\* reservation add up to the units of the fulfilled reservations.
SalesMatchFulfilled ==
    \A v \in Variants :
        journal[v]["sale"] = -UnitsIn(resv, "fulfilled", v)

\* The check on_hand < qty in fulfill() can never fire ("Не повинно
\* траплятись"): any set of active reservations can still be sold together.
ActiveCanBeFulfilled ==
    \A v \in Variants : UnitsIn(resv, "active", v) <= onHand[v]

\* A sold or released reservation is settled for good: nothing changes its row,
\* and a shipped one can no longer become active again.
SettledForGood ==
    [][\A r \in Reservations :
         /\ resv[r].status \in {"fulfilled", "released"} => resv'[r] = resv[r]
         /\ resv[r].status = "shipped" => resv'[r].status # "active"]_vars

\* The comment at tasks.py:302 says of the low-stock push "один раз при перетині
\* порога": whenever available falls to the threshold or under it, the flag is
\* down, so that the next scan pushes.
CrossingIsPushed ==
    [][\A v \in Variants :
         Available(v) > Threshold[v] /\ Available(v)' <= Threshold[v]
             => ~notified'[v]]_vars
=============================================================================
