------------------------------ MODULE Catalog ------------------------------
(***************************************************************************)
(* The products and variants of a shop and the limits of its plan:         *)
(* app/services/catalog.py, the endpoints of app/api/catalog.py above it,  *)
(* clear_demo_catalog() of app/seed.py.                                    *)
(*                                                                         *)
(* No request of the catalogue takes a lock: each one reads, checks, and   *)
(* then writes what may have changed meanwhile, so it is two steps of a    *)
(* session, and nothing waits for anything.  The checks are therefore only *)
(* as good as what they looked at: overtaken records, for each request     *)
(* that runs, what others have changed of it since, and the properties     *)
(* say what may go wrong only then.                                        *)
(*                                                                         *)
(* Products are numbered in the order of created_at.  Of the stock only    *)
(* this matters here: which variants have an active reservation, and which *)
(* ones the items of website orders name.                                  *)
(***************************************************************************)
EXTENDS Naturals, FiniteSets

CONSTANTS
    MaxProducts,  \* bound: products ever
    Variants,     \* bound: ids of variants
    MaxOrdered,   \* bound: variants that orders name at a time
    Axes,         \* values of axis_values
    Limits,       \* max_products of the plans in play
    Unlimited,    \* max_products is None
    Sessions

Products == 1..MaxProducts
Demos == {1}      \* seeded with the shop

ASSUME CatalogAssumption == MaxProducts \in Nat \ {0} /\ MaxOrdered \in Nat /\ IsFiniteSet(Variants)
ASSUME LimitAssumption == Limits \subseteq Nat \cup {Unlimited} /\ Unlimited \notin Nat

VARIABLES
    product,   \* per number: none, live, archived, or gone
    variant,   \* per id, the row of a variant
    held,      \* the variants with an active reservation
    ordered,   \* the variants that the items of website orders name
    limit,     \* max_products of the plan in force
    req,       \* per session, what the request read and is about to write
    free,      \* history: the requests whose product was not frozen all the time
    overtaken  \* history: per session, what has changed since the request looked

catVars == <<product, variant, held, ordered, limit, req, free, overtaken>>

NoVariant == [product |-> 0, axes |-> "none"]
Idle == [op |-> "idle"]
Rows == [product : Products, axes : Axes]
Request ==
    [op : {"create"}]
        \cup [op : {"patch"}, product : Products, seen : {"live", "archived"},
              to : {"live", "archived"}]
        \cup [op : {"add"}, product : Products, axes : Axes]
        \cup [op : {"edit"}, product : Products, variant : Variants, axes : Axes]
        \cup [op : {"drop"}, product : Products, variant : Variants]

Live == {p \in Products : product[p] = "live"}
Exists(v) == variant[v] # NoVariant
VariantsOf(p) == {v \in Variants : variant[v].product = p}
Newest(p) == \A q \in Products : IF q < p THEN product[q] # "none" ELSE product[q] = "none"

\* Slip: one more.
HasRoomForLast == limit # Unlimited => Cardinality(Live) <= limit

\* The limits by the subscription: everything during the trial, those of the
\* plan while there is one and the subscription runs, the free ones otherwise.
\* Here they come as one of Limits.
HasRoom == limit # Unlimited => Cardinality(Live) < limit

\* The newest max_products live products may be changed, the others not.
Frozen ==
    {p \in Live : limit # Unlimited /\ Cardinality({q \in Live : q > p}) >= limit}

Init ==
    /\ product = [p \in Products |-> IF p \in Demos THEN "live" ELSE "none"]
    /\ \E v \in Variants, x \in Axes :
          variant = [w \in Variants |-> IF w = v THEN [product |-> 1, axes |-> x] ELSE NoVariant]
    /\ held = {}
    /\ ordered = {}
    /\ limit \in Limits
    /\ req = [n \in Sessions |-> Idle]
    /\ free = {}
    /\ overtaken = [n \in Sessions |-> {}]

Begin(n, q) ==
    /\ req[n] = Idle
    /\ req' = [req EXCEPT ![n] = q]
    /\ UNCHANGED <<product, variant, held, ordered, limit>>

\* The request has ended, and so have those that loaded one of the rows V that
\* are deleted now: their UPDATE or DELETE finds no row.
EndedWithout(n, V) ==
    req' = [m \in Sessions |->
        IF m = n \/ (req[m].op \in {"edit", "drop"} /\ req[m].variant \in V) THEN Idle
        ELSE req[m]]
Ended(n) == EndedWithout(n, {})

-----------------------------------------------------------------------------

\* create_product_with_variants(): the limit is looked at before the insert.
Create(n) ==
    /\ HasRoom
    /\ Begin(n, [op |-> "create"])

\* At least one variant; nobody compares their axes with each other.
CreateCommit(n) ==
    /\ req[n].op = "create"
    /\ \E p \in Products, S \in SUBSET {v \in Variants : ~Exists(v)} :
          \E axes \in [S -> Axes] :
             /\ Newest(p) /\ S # {}
             /\ product' = [product EXCEPT ![p] = "live"]
             /\ variant' = [v \in Variants |->
                   IF v \in S THEN [product |-> p, axes |-> axes[v]] ELSE variant[v]]
    /\ Ended(n)
    /\ UNCHANGED <<held, ordered, limit>>

\* patch_product(): archived products are never frozen, and to take one back
\* needs no room.
Patch(n, p, to) ==
    /\ product[p] \in {"live", "archived"} /\ p \notin Frozen
    /\ Begin(n, [op |-> "patch", product |-> p, seen |-> product[p], to |-> to])

PatchCommit(n) ==
    LET q == req[n]
    IN  /\ q.op = "patch"
        /\ product' = IF q.to = q.seen \/ product[q.product] = "gone" THEN product
                      ELSE [product EXCEPT ![q.product] = q.to]
        /\ Ended(n)
        /\ UNCHANGED <<variant, held, ordered, limit>>

\* delete_product() looks at no limit, a frozen product can be put away.
Archive(p) ==
    /\ product[p] = "live"
    /\ product' = [product EXCEPT ![p] = "archived"]
    /\ UNCHANGED <<variant, held, ordered, limit, req>>

\* Slip: only the next of the siblings is looked at.
AxesFreeOnce(p, v, x) ==
    VariantsOf(p) \ {v} # {} => variant[CHOOSE w \in VariantsOf(p) \ {v} : TRUE].axes # x

\* Compared with the siblings there are now.
AxesFree(p, v, x) == \A w \in VariantsOf(p) \ {v} : variant[w].axes # x

\* Slip: add_variant_to_product() without enforce_product_writable().
AddAnyway(n, p, x) ==
    /\ product[p] \in {"live", "archived"}
    /\ \A w \in VariantsOf(p) : variant[w].axes # x
    /\ Begin(n, [op |-> "add", product |-> p, axes |-> x])

Add(n, p, x) ==
    /\ product[p] \in {"live", "archived"} /\ p \notin Frozen
    /\ \A w \in VariantsOf(p) : variant[w].axes # x
    /\ Begin(n, [op |-> "add", product |-> p, axes |-> x])

AddCommit(n) ==
    LET q == req[n]
    IN  /\ q.op = "add"
        /\ IF product[q.product] = "gone" THEN UNCHANGED variant
           ELSE \E v \in Variants :
                   /\ ~Exists(v)
                   /\ variant' = [variant EXCEPT ![v] =
                                      [product |-> q.product, axes |-> q.axes]]
        /\ Ended(n)
        /\ UNCHANGED <<product, held, ordered, limit>>

\* patch_variant(); axes that are those of the row already are not written.
Edit(n, v, x) ==
    LET p == variant[v].product
    IN  /\ Exists(v) /\ p \notin Frozen
        /\ x # variant[v].axes
        /\ AxesFree(p, v, x)
        /\ Begin(n, [op |-> "edit", product |-> p, variant |-> v, axes |-> x])

EditCommit(n) ==
    LET q == req[n]
    IN  /\ q.op = "edit"
        /\ variant' = [variant EXCEPT ![q.variant].axes = q.axes]
        /\ Ended(n)
        /\ UNCHANGED <<product, held, ordered, limit>>

\* Slips: the variant itself is not counted; the reservations are not looked at.
DropLast(n, v) ==
    LET p == variant[v].product
    IN  /\ Exists(v) /\ p \notin Frozen
        /\ Cardinality(VariantsOf(p)) > 0
        /\ v \notin held
        /\ Begin(n, [op |-> "drop", product |-> p, variant |-> v])

DropHeld(n, v) ==
    LET p == variant[v].product
    IN  /\ Exists(v) /\ p \notin Frozen
        /\ Cardinality(VariantsOf(p)) > 1
        /\ Begin(n, [op |-> "drop", product |-> p, variant |-> v])

\* delete_variant(): a product keeps one, and an active reservation its variant.
Drop(n, v) ==
    LET p == variant[v].product
    IN  /\ Exists(v) /\ p \notin Frozen
        /\ Cardinality(VariantsOf(p)) > 1
        /\ v \notin held
        /\ Begin(n, [op |-> "drop", product |-> p, variant |-> v])

\* The reservations go with the variant, the items of orders refuse.
DropCommit(n) ==
    LET v == req[n].variant
    IN  /\ req[n].op = "drop"
        /\ IF v \in ordered
           THEN /\ Ended(n)
                /\ UNCHANGED <<variant, held>>
           ELSE /\ variant' = [variant EXCEPT ![v] = NoVariant]
                /\ held' = held \ {v}
                /\ EndedWithout(n, {v})
        /\ UNCHANGED <<product, ordered, limit>>

\* Slip: no cascade to the variants.
ClearProducts(n) ==
    /\ req[n] = Idle
    /\ \A p \in Demos : VariantsOf(p) \cap ordered = {}
    /\ product' = [p \in Products |-> IF p \in Demos THEN "gone" ELSE product[p]]
    /\ Ended(n)
    /\ UNCHANGED <<variant, held, ordered, limit>>

\* clear_demo_catalog(): with everything that hangs on them.
ClearDemos(n) ==
    LET V == UNION {VariantsOf(p) : p \in Demos}
    IN  /\ req[n] = Idle
        /\ V # {} /\ V \cap ordered = {}
        /\ product' = [p \in Products |-> IF p \in Demos THEN "gone" ELSE product[p]]
        /\ variant' = [v \in Variants |-> IF v \in V THEN NoVariant ELSE variant[v]]
        /\ held' = held \ V
        /\ EndedWithout(n, V)
        /\ UNCHANGED <<ordered, limit>>

-----------------------------------------------------------------------------
(* What others do meanwhile.                                               *)

\* The plan is changed, expires, or its trial ends.
PlanMoves ==
    /\ limit' \in Limits \ {limit}
    /\ UNCHANGED <<product, variant, held, ordered, req>>

\* The stock service, which knows nothing of the catalogue: a reservation is
\* made, by hand or by an order, and shipped, settled or released.
StockMoves(v) ==
    /\ Exists(v)
    /\ \/ /\ held' = held \cup {v}
          /\ ordered' \in {ordered, ordered \cup {v}}
          /\ Cardinality(ordered') <= MaxOrdered
       \/ /\ held' = held \ {v}
          /\ UNCHANGED ordered
    /\ UNCHANGED <<product, variant, limit, req>>

Arrive(n) ==
    \/ Create(n)
    \/ \E p \in Products :
          \/ \E to \in {"live", "archived"} : Patch(n, p, to)
          \/ \E x \in Axes : Add(n, p, x)
    \/ \E v \in Variants : \/ Drop(n, v)
                           \/ \E x \in Axes : Edit(n, v, x)
Commit(n) ==
    \/ CreateCommit(n)
    \/ PatchCommit(n)
    \/ AddCommit(n)
    \/ EditCommit(n)
    \/ DropCommit(n)

\* A request may also fail after its checks, by a duplicate SKU or otherwise.
Fail(n) ==
    /\ req[n] # Idle
    /\ Ended(n)
    /\ UNCHANGED <<product, variant, held, ordered, limit>>

Step ==
    \/ \E n \in Sessions : Arrive(n) \/ Commit(n) \/ Fail(n) \/ ClearDemos(n)
    \/ \E p \in Products : Archive(p)
    \/ \E v \in Variants : StockMoves(v)
    \/ PlanMoves

\* What this step changes of what the request of the session looked at: a
\* deletion counted the siblings and the reservations of the variant, an
\* addition or an edit compared the axes of the others, a creation counted the
\* live products.
Overtaking(n) ==
    LET q == req[n]
    IN  {c \in {"sibling", "reserved", "axes", "room"} :
           \/ /\ c = "sibling" /\ q.op = "drop"
              /\ \E w \in VariantsOf(q.product) : ~Exists(w)'
           \/ /\ c = "reserved" /\ q.op = "drop"
              /\ q.variant \in held' \ held
           \/ /\ c = "axes" /\ q.op \in {"add", "edit"}
              /\ \E w \in Variants :
                    /\ variant'[w] # variant[w] /\ variant'[w].product = q.product
                    /\ q.op = "edit" => w # q.variant
           \/ /\ c = "room" /\ q.op = "create"
              /\ limit' # limit \/ Cardinality(Live') > Cardinality(Live)}

CatNext ==
    /\ Step
    /\ overtaken' = [n \in Sessions |->
           IF req'[n] = Idle THEN {} ELSE overtaken[n] \cup Overtaking(n)]
    /\ free' = {n \in Sessions :
                  /\ req'[n].op \notin {"idle", "create"}
                  /\ n \in free \/ req'[n].product \notin Frozen'}

CatSpec == Init /\ [][CatNext]_catVars

-----------------------------------------------------------------------------

CatTypeOK ==
    /\ product \in [Products -> {"none", "live", "archived", "gone"}]
    /\ variant \in [Variants -> Rows \cup {NoVariant}]
    /\ \A v \in Variants : Exists(v) => product[variant[v].product] \in {"live", "archived"}
    /\ held \subseteq Variants
    /\ ordered \subseteq Variants
    /\ limit \in Limits
    /\ req \in [Sessions -> Request \cup {Idle}]
    /\ free \subseteq Sessions
    /\ overtaken \in [Sessions -> SUBSET {"sibling", "reserved", "axes", "room"}]

\* A request writes, although this has changed since it looked.
WritesLate(n, c) == Commit(n) /\ c \in overtaken[n]

\* A product that stays loses its last variant only to a deletion that counted
\* a sibling which has been deleted since (catalog.py:421): to two overlapping
\* deletions, and to nothing else that is created, added, deleted or cleared.
KeepsAVariant ==
    [][\A p \in Products :
         product'[p] \in {"live", "archived"} /\ VariantsOf(p)' = {}
            => \/ product[p] # "none" /\ VariantsOf(p) = {}
               \/ \E n \in Sessions :
                     WritesLate(n, "sibling") /\ req[n].product = p]_catVars

\* An active reservation loses its variant only with the examples of the demo
\* catalogue, or to a deletion that had counted before the variant was reserved
\* (catalog.py:430).
EarmarksKept ==
    [][\A v \in Variants :
         Exists(v) /\ v \in held /\ ~Exists(v)'
            => \/ product'[variant[v].product] = "gone"
               \/ \E n \in Sessions :
                     WritesLate(n, "reserved") /\ req[n].variant = v]_catVars

\* The plan is exceeded only by a creation that counted before another product
\* came, or came back, or before the plan changed (catalog.py:159).
WithinTheLimit ==
    [][\A p \in Products :
         product[p] = "none" /\ product'[p] = "live"
            /\ limit # Unlimited /\ Cardinality(Live') > limit
            => \E n \in Sessions : WritesLate(n, "room")]_catVars

\* What the plan does not cover is for reading only: a request that changes a
\* product found it among the newest max_products at some moment while it ran.
\* Products beyond the limit, created by requests that counted at the same time
\* or taken back from the archive, are so of no more use than the others.
FrozenUntouched ==
    [][\A n \in Sessions :
         req[n].op \in {"patch", "add", "edit", "drop"} /\ Commit(n) => n \in free]_catVars

\* Two variants of a product get the same axes when it is created, or by an
\* addition or an edit that compared before a variant of the product was
\* written by somebody else (catalog.py:303-316); never otherwise.
DuplicatesOnlyFromCreation ==
    [][\A v, w \in Variants :
         v # w /\ Exists(v)' /\ variant'[v] = variant'[w] /\ variant[v] # variant'[v]
            /\ product[variant'[v].product] # "none"
            => \E n \in Sessions :
                  WritesLate(n, "axes") /\ req[n].product = variant'[v].product]_catVars

\* What the messages at catalog.py:421 and catalog.py:430 say without any
\* condition; Catalog_last.cfg and Catalog_reserved.cfg show that it is not so.
AlwaysAVariant ==
    \A p \in Products : product[p] \in {"live", "archived"} => VariantsOf(p) # {}
AlwaysReserved ==
    [][\A v \in Variants :
         Exists(v) /\ v \in held /\ ~Exists(v)'
            => product'[variant[v].product] = "gone"]_catVars
=============================================================================
