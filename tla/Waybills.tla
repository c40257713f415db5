------------------------------ MODULE Waybills ------------------------------
(***************************************************************************)
(* Parcels of Nova Poshta: app/services/np_shipping.py makes a document    *)
(* there and ships the reservation with its number, np_tracking() of       *)
(* app/tasks.py asks for the documents of every shop and settles the       *)
(* reservations that were delivered or refused.  Both read reservations    *)
(* before a request to Nova Poshta and write them after it.                *)
(*                                                                         *)
(* A copy that was read before the request shadows the row that ship(),    *)
(* pick_up() and not_picked_up() lock (see StockTx), so their checks of    *)
(* the status see the old one.  The counters of the variants are left to   *)
(* StockTx; here a reservation is its status and the number it carries.    *)
(***************************************************************************)
EXTENDS FiniteSets

CONSTANTS
    Shops,
    GoodKeys,      \* the shops whose key Nova Poshta accepts
    Reservations,
    ShopOf,
    Ttns,          \* bound: numbers of documents
    NoTtn,
    Sessions       \* bound: requests for a document at a time

ASSUME ShopAssumption == GoodKeys \subseteq Shops /\ ShopOf \in [Reservations -> Shops]
ASSUME TtnAssumption == NoTtn \notin Ttns

VARIABLES
    status, ttn,   \* Reservation.status, Reservation.ttn
    key, sender,   \* the shops with np_api_key_encrypted; with all of np_sender_*
    doc,           \* the documents at Nova Poshta
    req,           \* per session, the request for a document
    cycle          \* np_tracking()

rowVars == <<status, ttn>>
shopVars == <<key, sender>>
vars == <<rowVars, shopVars, doc, req, cycle>>

Statuses == {"active", "shipped", "fulfilled", "released"}
DocStates == {"none", "made", "picked", "returned"}
Numbers == Ttns \cup {NoTtn}

Idle == [at |-> "idle"]
Request ==
    [at : {"save"}, r : Reservations]
        \cup [at : {"ship"}, r : Reservations, ttn : Ttns]

Sleep == [at |-> "sleep"]
Listings == UNION {[T -> Reservations] : T \in SUBSET Ttns}
Cycle ==
    [at : {"list"}, left : SUBSET Shops]
        \cup [at : {"track"}, left : SUBSET Shops, shop : Shops, by : Listings]
        \cup [at : {"take"}, left : SUBSET Shops, by : Listings, code : [Ttns -> DocStates]]

Good(r) == ShopOf[r] \in GoodKeys

\* A shop whose key is not accepted any more has parcels from before.
Init ==
    /\ status = [r \in Reservations |-> IF Good(r) THEN "active" ELSE "shipped"]
    /\ ttn \in {f \in [Reservations -> Numbers] : \A r \in Reservations : Good(r) <=> f[r] = NoTtn}
    /\ key = Shops \ GoodKeys /\ sender = Shops \ GoodKeys
    /\ doc = [t \in Ttns |-> "none"]
    /\ req = [n \in Sessions |-> Idle]
    /\ cycle = Sleep

-----------------------------------------------------------------------------
(* The settings of the shop, and what the shop does by hand. *)

\* A key is stored only after ping().
SetNpKey(s) ==
    /\ s \in GoodKeys
    /\ key' = key \cup {s}
    /\ UNCHANGED <<rowVars, sender, doc, req, cycle>>

DeleteNpKey(s) ==
    /\ key' = key \ {s}
    /\ UNCHANGED <<rowVars, sender, doc, req, cycle>>

SetNpSender(s) ==
    /\ sender' = sender \cup {s}
    /\ UNCHANGED <<rowVars, key, doc, req, cycle>>

Moves(r, from, to) ==
    /\ status[r] = from
    /\ status' = [status EXCEPT ![r] = to]

\* fulfill(), release(), pick_up(), not_picked_up()
Settle(r) ==
    /\ \/ \E to \in {"fulfilled", "released"} : Moves(r, "active", to)
       \/ \E to \in {"fulfilled", "released"} : Moves(r, "shipped", to)
    /\ UNCHANGED <<ttn, shopVars, doc, req, cycle>>

\* A number typed in by hand is not looked up, and may serve several reservations.
Ship(r, t) ==
    /\ Moves(r, "active", "shipped")
    /\ ttn' = [ttn EXCEPT ![r] = t]
    /\ UNCHANGED <<shopVars, doc, req, cycle>>

UpdateTtn(r, t) ==
    /\ status[r] = "shipped"
    /\ ttn' = [ttn EXCEPT ![r] = t]
    /\ UNCHANGED <<status, shopVars, doc, req, cycle>>

\* Nova Poshta delivers a parcel, or brings it back.
Delivered(t) ==
    /\ doc[t] = "made"
    /\ \E d \in {"picked", "returned"} : doc' = [doc EXCEPT ![t] = d]
    /\ UNCHANGED <<rowVars, shopVars, req, cycle>>

-----------------------------------------------------------------------------
(* create_ttn() *)

Asks(n, q) == req' = [req EXCEPT ![n] = q]

BeginTtn(n, r) ==
    /\ req[n] = Idle
    /\ status[r] = "active"
    /\ ShopOf[r] \in key \cap sender
    /\ Asks(n, [at |-> "save", r |-> r])
    /\ UNCHANGED <<rowVars, shopVars, doc, cycle>>

\* create_document(): four requests for the references of the two parties, then
\* InternetDocument/save, whose answer may be lost while the document is there.
SaveDocument(n, t) ==
    /\ req[n].at = "save" /\ Good(req[n].r)
    /\ doc[t] = "none"
    /\ doc' = [doc EXCEPT ![t] = "made"]
    /\ Asks(n, [at |-> "ship", r |-> req[n].r, ttn |-> t]) \/ Asks(n, Idle)
    /\ UNCHANGED <<rowVars, shopVars, cycle>>

\* ship() by the copy of BeginTtn, which is active.
ShipDocument(n) ==
    /\ req[n].at = "ship"
    /\ status' = [status EXCEPT ![req[n].r] = "shipped"]
    /\ ttn' = [ttn EXCEPT ![req[n].r] = req[n].ttn]
    /\ Asks(n, Idle)
    /\ UNCHANGED <<shopVars, doc, cycle>>

\* NovaPoshtaError, or the request dies.
RequestFails(n) ==
    /\ req[n] # Idle
    /\ Asks(n, Idle)
    /\ UNCHANGED <<rowVars, shopVars, doc, cycle>>

-----------------------------------------------------------------------------
(* np_tracking() *)

Tracked(s) == {r \in Reservations : ShopOf[r] = s /\ status[r] = "shipped" /\ ttn[r] # NoTtn}

CycleGoes(c) ==
    /\ cycle' = IF c.at = "list" /\ c.left = {} THEN Sleep ELSE c
    /\ UNCHANGED <<rowVars, shopVars, doc, req>>

StartCycle ==
    /\ cycle = Sleep
    /\ CycleGoes([at |-> "list", left |-> key])

NextShop == [at |-> "list", left |-> cycle.left]

\* by_ttn: of the reservations with one number only one is kept.
List(s) ==
    /\ cycle.at = "list" /\ s \in cycle.left
    /\ IF Tracked(s) = {} THEN CycleGoes([cycle EXCEPT !.left = @ \ {s}])
       ELSE \E by \in [{ttn[r] : r \in Tracked(s)} -> Tracked(s)] :
              /\ \A t \in DOMAIN by : ttn[by[t]] = t
              /\ CycleGoes([at |-> "track", left |-> cycle.left \ {s}, shop |-> s, by |-> by])

Answer(s) ==
    /\ cycle.at = "track" /\ cycle.shop = s /\ s \in GoodKeys
    /\ CycleGoes([at |-> "take", left |-> cycle.left, by |-> cycle.by, code |-> doc])

\* Slip: a shop whose key is refused ends the cycle.
RefuseAll(s) ==
    /\ cycle.at = "track" /\ cycle.shop = s
    /\ CycleGoes([at |-> "list", left |-> {}])

\* CryptoError, NovaPoshtaError: the next shop.
Refuse(s) ==
    /\ cycle.at = "track" /\ cycle.shop = s
    /\ CycleGoes(NextShop)

\* One result less.
Without(t) ==
    LET rest == DOMAIN cycle.by \ {t}
        c == IF rest = {} THEN NextShop
             ELSE [cycle EXCEPT !.by = [u \in rest |-> cycle.by[u]]]
    IN  cycle' = IF c.at = "list" /\ c.left = {} THEN Sleep ELSE c

\* pick_up() or not_picked_up() by the copy of List, which is shipped; any other
\* code is only shown.
Take(r) ==
    \E t \in Ttns :
        /\ cycle.at = "take" /\ t \in DOMAIN cycle.by /\ cycle.by[t] = r
        /\ status' = CASE cycle.code[t] = "picked" -> [status EXCEPT ![r] = "fulfilled"]
                       [] cycle.code[t] = "returned" -> [status EXCEPT ![r] = "released"]
                       [] OTHER -> status
        /\ Without(t)
        /\ UNCHANGED <<ttn, shopVars, doc, req>>

\* An answer that is not JSON, or the worker is restarted.
CycleDies ==
    /\ cycle # Sleep
    /\ cycle' = Sleep
    /\ UNCHANGED <<rowVars, shopVars, doc, req>>

-----------------------------------------------------------------------------

Next ==
    \/ \E s \in Shops : SetNpKey(s) \/ DeleteNpKey(s) \/ SetNpSender(s)
    \/ \E r \in Reservations : Settle(r) \/ \E t \in Numbers : Ship(r, t)
    \/ \E r \in Reservations, t \in Ttns : UpdateTtn(r, t)
    \/ \E t \in Ttns : Delivered(t)
    \/ \E n \in Sessions :
          \/ \E r \in Reservations : BeginTtn(n, r)
          \/ \E t \in Ttns : SaveDocument(n, t)
          \/ ShipDocument(n)
          \/ RequestFails(n)
    \/ StartCycle
    \/ \E s \in Shops : List(s) \/ Answer(s) \/ Refuse(s)
    \/ \E r \in Reservations : Take(r)
    \/ CycleDies

\* The order of the shops is that of the database: which of S comes next is not said.
ListOneOf(S) == cycle.at = "list" /\ cycle.left = S /\ \E s \in S : List(s)

\* The scheduler starts the job every ten minutes; of the ways a request or the
\* worker can fail none happens every time, but a key may be refused forever.
Fairness ==
    /\ WF_vars(StartCycle)
    /\ \A S \in (SUBSET Shops) \ {{}} : SF_vars(ListOneOf(S))
    /\ \A s \in GoodKeys : SF_vars(Answer(s))
    /\ \A s \in Shops \ GoodKeys : SF_vars(Refuse(s))
    /\ \A r \in Reservations : Good(r) => SF_vars(Take(r))

Spec == Init /\ [][Next]_vars /\ Fairness

-----------------------------------------------------------------------------

TypeOK ==
    /\ status \in [Reservations -> Statuses] /\ ttn \in [Reservations -> Numbers]
    /\ key \subseteq Shops /\ sender \subseteq Shops
    /\ doc \in [Ttns -> DocStates]
    /\ req \in [Sessions -> Request \cup {Idle}]
    /\ cycle \in Cycle \cup {Sleep}

\* A parcel that was delivered or came back settles every reservation that carries
\* its number, also when several carry it and by_ttn (tasks.py:240) keeps one of
\* them, and whatever the keys of other shops do (tasks.py:209).
DeliveredIsSettled ==
    \A r \in {x \in Reservations : Good(x)}, t \in Ttns :
        (status[r] = "shipped" /\ ttn[r] = t /\ doc[t] \in {"picked", "returned"} /\ ShopOf[r] \in key)
            ~> (status[r] # "shipped" \/ ttn[r] # t \/ ShopOf[r] \notin key)
=============================================================================
