------------------------------- MODULE Orders -------------------------------
(***************************************************************************)
(* Website orders on top of the stock service: app/services/orders.py, one *)
(* step per transaction.                                                   *)
(*                                                                         *)
(* An order is named by its idempotency key.  Placing it reserves all its  *)
(* positions together, confirming it sells what it still holds, cancelling *)
(* it releases that.  Between those steps the shop handles the             *)
(* reservations of an order one by one, as it does manual ones, so an      *)
(* order may be confirmed holding only some of them, or none.              *)
(*                                                                         *)
(* The endpoints of app/api/inventory.py are the actions of Inventory with *)
(* single reservations; the action of the module docstring that runs many  *)
(* service calls in one transaction is used by the orders alone.           *)
(***************************************************************************)
EXTENDS Inventory

VARIABLE order      \* Order.status, or "none" while no row has the key

orderVars == <<onHand, reserved, notified, resv, journal, order>>

OrderStatuses == {"none", "pending", "fulfilled", "canceled"}

OrderTypeOK == TypeOK /\ order \in [Orders -> OrderStatuses]

OrderInit == Init /\ order = [o \in Orders |-> "none"]

RowsOf(o) == {r \in Reservations : resv[r].order = o}

\* _active_reservations(): what the order still holds.
Held(o) == {r \in With("active") : resv[r].order = o}

\* What create_website_order() asks of reserve() for a position of the order.
OrderRows(o) == {row \in NewRows : row.order = o /\ ~row.deadline}

-----------------------------------------------------------------------------
(* Slips, as in Inventory. *)

\* Slip: create_website_order() without the lookup of the idempotency key.
PlaceAgain(o, S, rows) ==
    /\ rows \in [S -> OrderRows(o)]
    /\ Reserve(S, rows)
    /\ order' = [order EXCEPT ![o] = "pending"]

\* Slip: confirm_order() sells one of the reservations only.
ConfirmFirst(o) ==
    /\ order[o] = "pending"
    /\ order' = [order EXCEPT ![o] = "fulfilled"]
    /\ \/ Held(o) = {} /\ UNCHANGED vars
       \/ \E r \in Held(o) : Fulfill({r})

\* Slip: confirm_order() sets the statuses itself, past the stock service.
ConfirmPastService(o) ==
    /\ order[o] = "pending"
    /\ order' = [order EXCEPT ![o] = "fulfilled"]
    /\ resv' = SetStatus(Held(o), "fulfilled")
    /\ UNCHANGED <<onHand, reserved, notified, journal>>

-----------------------------------------------------------------------------

\* create_website_order(): a known key changes nothing (the order that exists
\* is returned); a position that does not fit rolls everything back.
Place(o, S, rows) ==
    /\ order[o] = "none"
    /\ rows \in [S -> OrderRows(o)]
    /\ Reserve(S, rows)
    /\ order' = [order EXCEPT ![o] = "pending"]

\* confirm_order()
Confirm(o) ==
    /\ order[o] = "pending"
    /\ order' = [order EXCEPT ![o] = "fulfilled"]
    /\ IF Held(o) = {} THEN UNCHANGED vars ELSE Fulfill(Held(o))

\* cancel_order()
Cancel(o) ==
    /\ order[o] = "pending"
    /\ order' = [order EXCEPT ![o] = "canceled"]
    /\ IF Held(o) = {} THEN UNCHANGED vars ELSE Release(Held(o))

\* reserve_variant(), the manual reserve of app/api/inventory.py.
ReserveManually(r, v, q, d) ==
    Reserve({r}, [x \in {r} |-> NewRow(v, q, NoOrder, d)])

-----------------------------------------------------------------------------

PlaceSome ==
    \E o \in Orders, S \in SUBSET With("unused") :
        \E rows \in [S -> OrderRows(o)] : Place(o, S, rows)

\* The endpoints and jobs that know nothing of orders.
StockStep ==
    /\ \/ \E r \in Reservations :
             \/ \E v \in Variants, q \in Qtys, d \in BOOLEAN : ReserveManually(r, v, q, d)
             \/ Release({r})
             \/ Fulfill({r})
             \/ \E ttn \in BOOLEAN : Ship(r, ttn) \/ UpdateTtn(r, ttn)
             \/ PickUp(r)
             \/ NotPickedUp(r)
       \/ \E v \in Variants, q \in Qtys :
             \/ SellDirect(v, q)
             \/ Restock(v, q)
             \/ \E reason \in WriteOffReasons : WriteOff(v, q, reason)
       \/ ReleaseExpiredSome
       \/ LowStockScan
    /\ UNCHANGED order

OrderNext ==
    \/ PlaceSome
    \/ \E o \in Orders : Confirm(o) \/ Cancel(o)
    \/ StockStep

OrderSpec == OrderInit /\ [][OrderNext]_orderVars

-----------------------------------------------------------------------------

\* An order that was confirmed or cancelled leaves no earmark behind: none of
\* its reservations is active, whatever was done to them one by one before.
SettledOrderHoldsNothing ==
    \A o \in Orders : order[o] \in {"fulfilled", "canceled"} => Held(o) = {}

\* Idempotency (orders.py:8): a key buys its reservations once.  Once the order
\* exists, no reservation is added to it, and none that it has loses it.
PlacedOnce ==
    [][\A o \in Orders : order[o] # "none" => RowsOf(o)' = RowsOf(o)]_orderVars

\* The owner decides on an order once: it is never confirmed after it was
\* cancelled, nor the reverse.
DecidedOnce ==
    [][\A o \in Orders :
         order[o] \in {"fulfilled", "canceled"} => order'[o] = order[o]]_orderVars

\* Orders change the stock only by transactions of the stock service (README,
\* invariant 3): every behavior of the orders is one of Inventory.
ImplementsInventory == Spec
=============================================================================
