------------------------------ MODULE StockTx ------------------------------
(***************************************************************************)
(* The transactions of the stock, statement by statement: what Inventory   *)
(* and Orders take for one step, spread over the database statements and   *)
(* awaits of concurrent sessions (web requests, cron jobs).                *)
(*                                                                         *)
(* The database is PostgreSQL at READ COMMITTED.  A plain SELECT sees the  *)
(* committed rows, SELECT ... FOR UPDATE and UPDATE wait for the row lock  *)
(* and keep it until the transaction ends, and an UPDATE writes absolute   *)
(* values of the changed columns.                                          *)
(*                                                                         *)
(* The ORM keeps one object per row in the session's identity map as long  *)
(* as the program refers to it.  A later SELECT of that row, FOR UPDATE or *)
(* not, returns the object as it was first loaded: _locked_reservation()   *)
(* and _locked_variant() lock the row and may still read an old copy of    *)
(* it.  vseen and rseen are those copies.                                  *)
(*                                                                         *)
(* A request is one of the kinds                                           *)
(*   api      an endpoint of app/api/inventory.py: one service call        *)
(*   place    create_website_order()                                       *)
(*   confirm  confirm_order()           cancel   cancel_order()            *)
(*   ttn      create_ttn()              np       np_tracking()             *)
(*   expire   release_expired_reservations()                               *)
(*   scan     low_stock_scan()                                             *)
(* and Kinds says which of them take part.  Solo restricts the schedule,   *)
(* nothing else: a run uses it to say what may run next to what.           *)
(***************************************************************************)
EXTENDS Orders

CONSTANTS
    Sessions,       \* database sessions
    Free,           \* the owner of a lock nobody has
    NoReservation,  \* the reservation of a call on a variant alone
    Kinds,          \* the kinds of requests that are made
    Solo            \* those of them that are made only while no other runs

RequestKinds == {"api", "place", "confirm", "cancel", "ttn", "np", "expire", "scan"}

ASSUME SessionAssumption ==
    /\ Free \notin Sessions
    /\ NoReservation \notin Reservations
    /\ Kinds \subseteq RequestKinds
    /\ Solo \subseteq Kinds

VARIABLES
    lock,   \* who holds the lock of a row, or of a new idempotency key
    tx      \* what each session is doing

txVars == <<onHand, reserved, notified, resv, journal, order, lock, tx>>
dbVars == <<onHand, reserved, notified, resv, journal, order>>

LockRows == Variants \cup Reservations \cup Orders
Columns == {"onHand", "reserved", "notified"}

NoItem == [r |-> NoReservation, variant |-> NoVariant, qty |-> 0]

\* A session between two requests.
Resting ==
    [kind |-> "none", pc |-> "idle", call |-> "none", order |-> NoOrder,
     ttn |-> FALSE,
     todo |-> {},           \* reservations still to be processed
     item |-> NoItem,       \* what the current service call is about
     done |-> {},           \* reservations changed and not committed yet
     vseen |-> <<>>,        \* identity map: copies of variants,
     rseen |-> <<>>,        \* ... and of reservations
     held |-> {},           \* variants np_tracking() has in a local variable
     wrote |-> {},          \* columns of variants changed, not committed yet
     units |-> [v \in Variants |-> 0]]   \* units moved, not committed yet

TxInit ==
    /\ OrderInit
    /\ lock = [x \in LockRows |-> Free]
    /\ tx = [s \in Sessions |-> Resting]

-----------------------------------------------------------------------------
(* The service calls of app/services/inventory.py, as what they demand and *)
(* what they change: the status from and to, how the two counters move per *)
(* unit, the check on the counters, and the movement that is written.      *)

Call(from, to, hand, earmark, needs, type, sign) ==
    [from |-> from, to |-> to, hand |-> hand, earmark |-> earmark,
     needs |-> needs, type |-> type, sign |-> sign]

ReserveCall == Call("unused", "active", 0, 1, "available", "reserve", 1)
ReleaseCall == Call("active", "released", 0, -1, "nothing", "release", -1)
FulfillCall == Call("active", "fulfilled", -1, -1, "onHand", "sale", -1)
ShipCall == Call("active", "shipped", -1, -1, "nothing", "sale", 0)
UpdateTtnCall == Call("shipped", "shipped", 0, 0, "nothing", "sale", 0)
PickUpCall == Call("shipped", "fulfilled", 0, 0, "nothing", "sale", -1)
NotPickedUpCall == Call("shipped", "released", 1, 0, "nothing", "ret", 1)
SellCall == Call("none", "none", -1, 0, "available", "direct", -1)
RestockCall == Call("none", "none", 1, 0, "nothing", "restock", 1)
WriteOffCall == Call("none", "none", -1, 0, "available", "adjustment", -1)
\* Not service calls: what the two jobs do to the rows themselves.
ExpireCall == Call("active", "released", 0, -1, "nothing", "release", 0)
ScanCall == Call("none", "none", 0, 0, "nothing", "release", 0)

Calls == [reserve |-> ReserveCall, release |-> ReleaseCall, fulfill |-> FulfillCall,
          ship |-> ShipCall, updateTtn |-> UpdateTtnCall, pickUp |-> PickUpCall,
          notPickedUp |-> NotPickedUpCall, sell |-> SellCall,
          restock |-> RestockCall, writeOff |-> WriteOffCall,
          expire |-> ExpireCall, scan |-> ScanCall]

ReservationCalls ==
    {"release", "fulfill", "ship", "updateTtn", "pickUp", "notPickedUp"}
VariantCalls == {"sell", "restock", "writeOff"}
CallNames == ReservationCalls \cup VariantCalls \cup {"reserve", "expire", "scan"}

Statements == {"idle", "insert", "preload", "list", "answer", "call", "variant",
               "flush", "commit", "show"}

Copy == [onHand : Int, reserved : Int, notified : BOOLEAN]
Item == [r : Reservations \cup {NoReservation}, variant : Variants \cup {NoVariant},
         qty : 0..MaxQty]
\* A session with copies of the variants V and the reservations R.
Session(V, R) ==
    [kind : RequestKinds \cup {"none"}, pc : Statements, call : CallNames \cup {"none"},
     order : Orders \cup {NoOrder}, ttn : BOOLEAN,
     todo : SUBSET Reservations, item : Item, done : SUBSET Reservations,
     vseen : [V -> Copy], rseen : [R -> Row],
     held : SUBSET Variants, wrote : SUBSET (Variants \X Columns),
     units : [Variants -> Nat]]

TxTypeOK ==
    /\ OrderTypeOK
    /\ lock \in [LockRows -> Sessions \cup {Free}]
    /\ DOMAIN tx = Sessions
    /\ \A s \in Sessions :
          \E V \in SUBSET Variants, R \in SUBSET Reservations : tx[s] \in Session(V, R)

\* The rows as the database has them, and as a session reads them: its copy if
\* it has one.
Stored(v) == [onHand |-> onHand[v], reserved |-> reserved[v], notified |-> notified[v]]
ReadVariant(s, v) ==
    IF v \in DOMAIN tx[s].vseen THEN tx[s].vseen[v] ELSE Stored(v)
ReadReservation(s, r) ==
    IF r \in DOMAIN tx[s].rseen THEN tx[s].rseen[r] ELSE resv[r]

\* An identity map once the object of row x is in it and reads as copy.
Loaded(seen, x, copy) ==
    [y \in DOMAIN seen \cup {x} |-> IF y = x THEN copy ELSE seen[y]]

Meets(copy, call, q) ==
    CASE call.needs = "available" -> q <= copy.onHand - copy.reserved
      [] call.needs = "onHand" -> q <= copy.onHand
      [] OTHER -> TRUE

\* A variant after the call took q units; only restock() looks at the flag.
After(copy, v, name, q) ==
    LET c == Calls[name]
        hand == copy.onHand + c.hand * q
        earmark == copy.reserved + c.earmark * q
    IN  [onHand |-> hand,
         reserved |-> IF name = "expire" /\ earmark < 0 THEN 0 ELSE earmark,
         notified |-> copy.notified
                        /\ ~(name = "restock" /\ hand - earmark > Threshold[v])]

CanLock(s, x) == lock[x] \in {Free, s}
Unlocked(s) == [x \in LockRows |-> IF lock[x] = s THEN Free ELSE lock[x]]

\* Slip: the session of a refused request is not closed, its locks stay.
RollbackKeepsLocks(s) ==
    /\ tx' = [tx EXCEPT ![s] = Resting]
    /\ UNCHANGED <<dbVars, lock>>

\* The session tells the caller no, or the connection is lost: nothing stays.
Rollback(s) ==
    /\ lock' = Unlocked(s)
    /\ tx' = [tx EXCEPT ![s] = Resting]
    /\ UNCHANGED dbVars

-----------------------------------------------------------------------------
(* Requests begin. *)

Begin(s, request) ==
    /\ tx[s].pc = "idle"
    /\ \A t \in Sessions :
          tx[t].pc # "idle" => {tx[t].kind, request.kind} \cap Solo = {}
    /\ tx' = [tx EXCEPT ![s] = request]
    /\ UNCHANGED <<dbVars, lock>>

\* An endpoint of app/api/inventory.py on an existing reservation.
BeginOnReservation(s, r, name, ttn) ==
    /\ "api" \in Kinds
    /\ resv[r].status # "unused"
    /\ Begin(s, [Resting EXCEPT !.kind = "api", !.pc = "call", !.call = name,
                                !.todo = {r}, !.ttn = ttn])

\* An id the table hands out: a rolled back one is taken again here, so that a
\* bounded set of ids lasts.
NewId(r) ==
    /\ resv[r].status = "unused"
    /\ \A s \in Sessions : r \notin DOMAIN tx[s].rseen

\* reserve_variant(): the copy that _enforce_variant_product_writable() loads is
\* gone when that function returns.
BeginReserve(s, r, v, q, d) ==
    /\ "api" \in Kinds
    /\ NewId(r)
    /\ Begin(s, [Resting EXCEPT !.kind = "api", !.pc = "variant", !.call = "reserve",
                                !.item = [r |-> r, variant |-> v, qty |-> q],
                                !.rseen = [x \in {r} |-> NewRow(v, q, NoOrder, d)]])

\* restock_variant(), adjust_variant() and sell_direct().  The bounds of
\* Inventory: restocks are limited, and made one at a time.
BeginOnVariant(s, v, q, name) ==
    /\ "api" \in Kinds
    /\ name = "restock" =>
          /\ journal[v]["restock"] + q <= MaxRestock
          /\ \A t \in Sessions : tx[t].call # "restock"
    /\ Begin(s, [Resting EXCEPT !.kind = "api", !.pc = "variant", !.call = name,
                                !.item = [r |-> NoReservation, variant |-> v, qty |-> q]])

\* create_website_order(), up to the lookup of the key.
BeginPlace(s, o, rows) ==
    /\ "place" \in Kinds
    /\ order[o] = "none"
    /\ \A r \in DOMAIN rows : NewId(r)
    /\ Begin(s, [Resting EXCEPT !.kind = "place", !.pc = "insert", !.call = "reserve",
                                !.order = o, !.todo = DOMAIN rows, !.rseen = rows])

\* confirm_order() and cancel_order(), up to the check of the status.
BeginDecision(s, o, kind) ==
    /\ kind \in Kinds
    /\ order[o] = "pending"
    /\ Begin(s, [Resting EXCEPT !.kind = kind, !.pc = "list", !.order = o,
                   !.call = IF kind = "confirm" THEN "fulfill" ELSE "release"])

\* create_ttn(), up to the check of the reservation's status.
BeginTtn(s, r) ==
    /\ "ttn" \in Kinds
    /\ resv[r].status = "active"
    /\ Begin(s, [Resting EXCEPT !.kind = "ttn", !.pc = "preload", !.call = "ship",
                                !.ttn = TRUE, !.todo = {r}, !.rseen = [x \in {r} |-> resv[r]]])

\* np_tracking(), up to the question to Nova Poshta.
BeginNp(s) ==
    LET S == {r \in With("shipped") : resv[r].ttn}
    IN  /\ "np" \in Kinds
        /\ S # {}
        /\ Begin(s, [Resting EXCEPT !.kind = "np", !.pc = "answer", !.todo = S,
                                    !.rseen = [r \in S |-> resv[r]]])

\* release_expired_reservations(), for the reservations S that are overdue.
BeginExpire(s, S) ==
    /\ "expire" \in Kinds
    /\ S # {} /\ S \subseteq {r \in With("active") : resv[r].deadline}
    /\ Begin(s, [Resting EXCEPT !.kind = "expire", !.pc = "flush", !.call = "expire",
                                !.todo = S, !.rseen = [r \in S |-> resv[r]]])

\* low_stock_scan(): it marks its copies after every push was sent.
BeginScan(s) ==
    LET S == {v \in Variants : ~notified[v] /\ Available(v) <= Threshold[v]}
    IN  /\ "scan" \in Kinds
        /\ S # {}
        /\ Begin(s, [Resting EXCEPT !.kind = "scan", !.pc = "flush", !.call = "scan",
                       !.wrote = S \X {"notified"},
                       !.vseen = [v \in S |-> [Stored(v) EXCEPT !.notified = TRUE]]])

-----------------------------------------------------------------------------
(* Requests go on. *)

\* Slip: no UNIQUE(shop_id, idempotency_key).
InsertOrderTwice(s) ==
    /\ tx[s].pc = "insert"
    /\ tx' = [tx EXCEPT ![s].pc = "preload"]
    /\ UNCHANGED <<dbVars, lock>>

\* The INSERT of the order: it waits for a session that inserted the same key
\* and, if that one committed, ends with the order that exists.
InsertOrder(s) ==
    LET o == tx[s].order
    IN  /\ tx[s].pc = "insert"
        /\ CanLock(s, o)
        /\ IF order[o] = "none"
           THEN /\ lock' = [lock EXCEPT ![o] = s]
                /\ tx' = [tx EXCEPT ![s].pc = "preload"]
                /\ UNCHANGED dbVars
           ELSE Rollback(s)

\* The plain SELECT of the variant, in create_website_order() for its price, in
\* create_ttn() for the declared value.  The copy outlives the next await.
Preload(s, r) ==
    LET row == tx[s].rseen[r]
        v == row.variant
    IN  /\ tx[s].pc = "preload" /\ r \in tx[s].todo
        /\ tx' = [tx EXCEPT ![s].vseen = Loaded(@, v, ReadVariant(s, v)),
                            ![s].pc = IF tx[s].kind = "place" THEN "variant" ELSE "call",
                            ![s].item = [r |-> r, variant |-> v, qty |-> row.qty]]
        /\ UNCHANGED <<dbVars, lock>>

\* _active_reservations(): the list is kept, so its copies are.
ListHeld(s) ==
    LET S == Held(tx[s].order)
    IN  /\ tx[s].pc = "list"
        /\ tx' = [tx EXCEPT ![s].todo = S,
                            ![s].rseen = [r \in S |-> resv[r]],
                            ![s].pc = IF S = {} THEN "commit" ELSE "call"]
        /\ UNCHANGED <<dbVars, lock>>

\* Nova Poshta's answer on one parcel: it was picked up, refused, or is on its
\* way (then only its status text is committed).  The job never reaches its
\* "except InventoryError": its copies are of parcels that were shipped.
TakeAnswer(s, r, name) ==
    /\ tx[s].pc = "answer" /\ r \in tx[s].todo
    /\ tx' = [tx EXCEPT ![s].pc = "call", ![s].call = name,
                        ![s].item = [NoItem EXCEPT !.r = r]]
    /\ UNCHANGED <<dbVars, lock>>

SkipAnswer(s, r) ==
    /\ tx[s].pc = "answer" /\ r \in tx[s].todo
    /\ tx' = [tx EXCEPT ![s].todo = @ \ {r}]
    /\ UNCHANGED <<dbVars, lock>>

NpEnds(s) ==
    /\ tx[s].pc = "answer" /\ tx[s].todo = {}
    /\ Rollback(s)

\* _locked_reservation() and the check of the status.
LockReservation(s, r) ==
    LET row == ReadReservation(s, r)
    IN  /\ tx[s].pc = "call" /\ r \in tx[s].todo
        /\ tx[s].kind = "np" => r = tx[s].item.r
        /\ CanLock(s, r)
        /\ \/ /\ row.status = Calls[tx[s].call].from
              /\ lock' = [lock EXCEPT ![r] = s]
              /\ tx' = [tx EXCEPT
                    ![s].rseen = Loaded(@, r, row),
                    ![s].pc = IF tx[s].call = "updateTtn" THEN "commit" ELSE "variant",
                    ![s].done = IF tx[s].call = "updateTtn" THEN {r} ELSE @,
                    ![s].item = [r |-> r, variant |-> row.variant, qty |-> row.qty]]
              /\ UNCHANGED dbVars
           \/ /\ row.status # Calls[tx[s].call].from
              /\ Rollback(s)

\* What a change of the variant of item leaves in the session.
Applied(s, item, pc) ==
    LET v == item.variant
        old == ReadVariant(s, v)
        new == After(old, v, tx[s].call, item.qty)
    IN  [tx[s] EXCEPT !.vseen = Loaded(@, v, new),
                      !.wrote = @ \cup {<<v, c>> : c \in {c \in Columns : new[c] # old[c]}},
                      !.units[v] = @ + item.qty,
                      !.todo = @ \ {item.r},
                      !.done = @ \cup ({item.r} \cap Reservations),
                      !.pc = pc]

\* Slip: _locked_variant() without FOR UPDATE.
LockVariantUnlocked(s) ==
    /\ tx[s].pc = "variant"
    /\ Meets(ReadVariant(s, tx[s].item.variant), Calls[tx[s].call], tx[s].item.qty)
    /\ tx' = [tx EXCEPT ![s] = Applied(s, tx[s].item, "commit")]
    /\ UNCHANGED <<dbVars, lock>>

\* Slip: commit=True in the calls of confirm_order() and cancel_order(): the
\* first of them ends the transaction.
LockVariantCommits(s) ==
    LET item == tx[s].item
        more == tx[s].kind = "place" /\ tx[s].todo # {item.r}
    IN  /\ tx[s].pc = "variant"
        /\ CanLock(s, item.variant)
        /\ tx' = [tx EXCEPT ![s] = Applied(s, item, IF more THEN "preload" ELSE "commit")]
        /\ lock' = [lock EXCEPT ![item.variant] = s]
        /\ UNCHANGED dbVars

\* _locked_variant(), the check of the counters and the change of both rows.
LockVariant(s) ==
    LET item == tx[s].item
        v == item.variant
        left == tx[s].todo \ {item.r}
    IN  /\ tx[s].pc = "variant"
        /\ CanLock(s, v)
        /\ IF Meets(ReadVariant(s, v), Calls[tx[s].call], item.qty)
           THEN /\ lock' = [lock EXCEPT ![v] = s]
                /\ tx' = [tx EXCEPT ![s] =
                      Applied(s, item, IF left = {} \/ tx[s].kind = "np" THEN "commit"
                                       ELSE IF tx[s].kind = "place" THEN "preload"
                                       ELSE "call")]
                /\ UNCHANGED dbVars
           ELSE Rollback(s)

\* The rows a job without FOR UPDATE has changed and not written yet: the flush
\* writes variants before reservations, and locks them as it does.
Unflushed(s) ==
    LET vs == {v \in Variants : lock[v] # s /\ \E c \in Columns : <<v, c>> \in tx[s].wrote}
    IN  IF vs # {} THEN vs ELSE {r \in tx[s].done : lock[r] # s}

\* The loop of release_expired_reservations(): session.get() of a variant the
\* session has no copy of flushes what is pending first.
ExpireOne(s, r) ==
    LET row == tx[s].rseen[r]
        v == row.variant
    IN  /\ tx[s].pc = "flush" /\ r \in tx[s].todo
        /\ v \in DOMAIN tx[s].vseen \/ Unflushed(s) = {}
        /\ tx' = [tx EXCEPT ![s] =
                    Applied(s, [r |-> r, variant |-> v, qty |-> row.qty], "flush")]
        /\ UNCHANGED <<dbVars, lock>>

\* An UPDATE of the flush of a job.
Flush(s, x) ==
    /\ tx[s].pc = "flush"
    /\ x \in Unflushed(s)
    /\ \/ tx[s].todo = {}
       \/ \E r \in tx[s].todo : tx[s].rseen[r].variant \notin DOMAIN tx[s].vseen
    /\ lock[x] = Free
    /\ lock' = [lock EXCEPT ![x] = s]
    /\ UNCHANGED <<dbVars, tx>>

\* The counters after the commit: only the changed columns are written, with the
\* values of the session's copy.
Written(s, counter, column) ==
    [v \in Variants |->
        IF <<v, column>> \in tx[s].wrote THEN tx[s].vseen[v][column] ELSE counter[v]]

\* The reservations after the commit: a new row as a whole, of an old one the
\* status and, where the call sets it, the waybill number.
WrittenRows(s) ==
    LET name == tx[s].call
        Row0(r) == IF name = "reserve" THEN tx[s].rseen[r] ELSE resv[r]
    IN  [r \in Reservations |->
            IF r \notin tx[s].done THEN resv[r]
            ELSE [Row0(r) EXCEPT !.status = Calls[name].to,
                                 !.ttn = IF name \in {"ship", "updateTtn"}
                                         THEN tx[s].ttn ELSE @]]

WrittenOrder(s) ==
    LET status == CASE tx[s].kind = "place" -> "pending"
                    [] tx[s].kind = "confirm" -> "fulfilled"
                    [] tx[s].kind = "cancel" -> "canceled"
                    [] OTHER -> "none"
    IN  [o \in Orders |-> IF o = tx[s].order THEN status ELSE order[o]]

\* session.commit().  np_tracking() goes on with the next parcel and keeps the
\* copies of the reservations and the variants it holds.
Commit(s) ==
    LET c == Calls[tx[s].call]
    IN  /\ \/ tx[s].pc = "commit"
           \/ tx[s].pc = "flush" /\ tx[s].todo = {} /\ Unflushed(s) = {}
        /\ onHand' = Written(s, onHand, "onHand")
        /\ reserved' = Written(s, reserved, "reserved")
        /\ notified' = Written(s, notified, "notified")
        /\ resv' = WrittenRows(s)
        /\ journal' = Moved(c.type, [v \in Variants |-> c.sign * tx[s].units[v]])
        /\ order' = WrittenOrder(s)
        /\ lock' = Unlocked(s)
        /\ tx' = [tx EXCEPT ![s] =
              IF tx[s].kind # "np" THEN Resting
              ELSE [Resting EXCEPT
                      !.kind = "np", !.pc = "show", !.todo = tx[s].todo,
                      !.rseen = tx[s].rseen, !.item = tx[s].item, !.held = tx[s].held,
                      !.vseen = [v \in tx[s].held |-> tx[s].vseen[v]]]]

\* _np_display_name(): its variant stays in a local variable of np_tracking().
ShowName(s) ==
    LET v == tx[s].item.variant
    IN  /\ tx[s].pc = "show"
        /\ tx' = [tx EXCEPT ![s].vseen = Loaded(@, v, ReadVariant(s, v)),
                            ![s].held = @ \cup {v},
                            ![s].item = NoItem,
                            ![s].pc = "answer"]
        /\ UNCHANGED <<dbVars, lock>>

\* The process dies, the connection or Nova Poshta fails: the database undoes
\* what was not committed.
Abort(s) ==
    /\ tx[s].pc # "idle"
    /\ Rollback(s)

\* The rows a session may ask the lock of next, and the sessions that wait for
\* each other in a circle: PostgreSQL aborts one of them.
Wants(s) ==
    CASE tx[s].pc = "insert" -> {tx[s].order}
      [] tx[s].pc = "call" -> IF tx[s].kind = "np" THEN {tx[s].item.r} ELSE tx[s].todo
      [] tx[s].pc = "variant" -> {tx[s].item.variant}
      [] tx[s].pc = "flush" -> Unflushed(s)
      [] OTHER -> {}

Deadlocked(s) ==
    \E D \in SUBSET Sessions :
        /\ s \in D
        /\ \A t \in D : Wants(t) # {} /\ \A x \in Wants(t) : lock[x] \in D \ {t}

-----------------------------------------------------------------------------

Arrive(s) ==
    \/ \E r \in Reservations :
          \/ \E name \in ReservationCalls, ttn \in BOOLEAN :
                /\ ttn => name \in {"ship", "updateTtn"}
                /\ BeginOnReservation(s, r, name, ttn)
          \/ \E v \in Variants, q \in Qtys, d \in BOOLEAN : BeginReserve(s, r, v, q, d)
          \/ BeginTtn(s, r)
    \/ \E v \in Variants, q \in Qtys, name \in VariantCalls : BeginOnVariant(s, v, q, name)
    \/ \E o \in Orders :
          \/ \E S \in (SUBSET With("unused")) \ {{}} :
                \E rows \in [S -> OrderRows(o)] : BeginPlace(s, o, rows)
          \/ \E kind \in {"confirm", "cancel"} : BeginDecision(s, o, kind)
    \/ BeginNp(s)
    \/ \E S \in SUBSET With("active") : BeginExpire(s, S)
    \/ BeginScan(s)

Step(s) ==
    \/ InsertOrder(s)
    \/ ListHeld(s)
    \/ LockVariant(s)
    \/ Commit(s)
    \/ ShowName(s)
    \/ NpEnds(s)
    \/ \E r \in Reservations :
          \/ Preload(s, r)
          \/ LockReservation(s, r)
          \/ \E name \in {"pickUp", "notPickedUp"} : TakeAnswer(s, r, name)
          \/ SkipAnswer(s, r)
          \/ ExpireOne(s, r)
    \/ \E x \in LockRows : Flush(s, x)

Victim(s) == Deadlocked(s) /\ Abort(s)

TxNext == \E s \in Sessions : Arrive(s) \/ Step(s) \/ Abort(s)

\* PostgreSQL queues the sessions that wait for a row, so a session whose lock
\* becomes free again and again gets it; its deadlock detector always runs.
\* Nothing is assumed of requests arriving or of sessions dying.
Fairness == \A s \in Sessions : SF_txVars(Step(s)) /\ WF_txVars(Victim(s))

TxSafe == TxInit /\ [][TxNext]_txVars
TxSpec == TxSafe /\ Fairness

-----------------------------------------------------------------------------
(* What is checked, besides the properties of Inventory and Orders.  The   *)
(* runs say under which Kinds each of them holds.                          *)

\* The locks do their work: the requests in progress have the effect of the
\* same requests one after the other, each at the moment of its commit.  That
\* is the claim "Кожна операція тут атомарна" of the docstring of inventory.py.
\* It holds of the endpoints, which lock a row before they first read it; the
\* other kinds read first and need the database to themselves.
Serializable == OrderSpec

\* No request is lost in a wait for a lock, two requests that lock the rows of
\* an order in opposite order included: every one ends.
RequestsEnd == \A s \in Sessions : tx[s].pc # "idle" ~> tx[s].pc = "idle"
=============================================================================
