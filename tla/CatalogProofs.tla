--------------------------- MODULE CatalogProofs ---------------------------
(***************************************************************************)
(* Proofs about Catalog, for any products, variants, plans and requests,   *)
(* which may overlap as they like.  The argument is the same for all the   *)
(* checks: what a request found when it looked still holds as long as it   *)
(* has not been overtaken.                                                 *)
(***************************************************************************)
EXTENDS Catalog, FiniteSetTheorems, TLAPS

-----------------------------------------------------------------------------

\* What a running request may rely on.
Known(n) ==
    LET q == req[n]
    IN  /\ q.op \in {"patch", "add"} => product[q.product] # "none"
        /\ q.op \in {"edit", "drop"} =>
              Exists(q.variant) /\ variant[q.variant].product = q.product
        /\ q.op \in {"patch", "add", "edit", "drop"} => n \in free

CatInv == CatTypeOK /\ \A n \in Sessions : Known(n)

LEMMA RowFields ==
    ASSUME CatTypeOK, NEW v \in Variants
    PROVE  /\ Exists(v) => variant[v] \in Rows /\ variant[v].product \in Products
           /\ \A p \in Products : v \in VariantsOf(p) <=> Exists(v) /\ variant[v].product = p
BY DEF CatTypeOK, Rows, Exists, NoVariant, VariantsOf, Products

LEMMA ReqFields ==
    ASSUME CatTypeOK, NEW n \in Sessions
    PROVE  LET q == req[n] IN
           /\ q.op \in {"idle", "create", "patch", "add", "edit", "drop"}
           /\ q.op = "idle" <=> q = Idle
           /\ q.op \in {"patch", "add", "edit", "drop"} => q.product \in Products
           /\ q.op \in {"edit", "drop"} => q.variant \in Variants
           /\ q.op \in {"add", "edit"} => q.axes \in Axes
           /\ q.op = "patch" => q.to \in {"live", "archived"} /\ q.seen \in {"live", "archived"}
BY DEF CatTypeOK, Request, Idle

LEMMA NewestIsNone ==
    ASSUME NEW p \in Products, Newest(p)
    PROVE  product[p] = "none"
BY DEF Newest, Products

-----------------------------------------------------------------------------
(* What a step does to the requests.                                       *)

\* What a request that has read is about to write.
Reading(n) ==
    LET q == req'[n]
    IN  /\ UNCHANGED <<product, variant, held, ordered, limit>>
        /\ req[n] = Idle /\ q \in Request /\ q # Idle
        /\ req' = [req EXCEPT ![n] = q]
        /\ q.op = "create" => HasRoom
        /\ q.op # "create" => q.product \in Products \ Frozen
        /\ q.op \in {"patch", "add"} => product[q.product] \in {"live", "archived"}
        /\ q.op \in {"edit", "drop"} =>
              q.variant \in Variants /\ Exists(q.variant) /\ variant[q.variant].product = q.product
        /\ q.op = "drop" =>
              Cardinality(VariantsOf(q.product)) > 1 /\ q.variant \notin held
        /\ q.op = "add" => \A w \in VariantsOf(q.product) : variant[w].axes # q.axes
        /\ q.op = "edit" => AxesFree(q.product, q.variant, q.axes)

LEMMA Reads ==
    ASSUME CatTypeOK, NEW n \in Sessions, Arrive(n)
    PROVE  Reading(n)
<1>1. ASSUME NEW q \in Request, Begin(n, q)
      PROVE  /\ UNCHANGED <<product, variant, held, ordered, limit>>
             /\ req[n] = Idle /\ req'[n] = q /\ q # Idle
             /\ req' = [req EXCEPT ![n] = req'[n]]
  BY <1>1 DEF Begin, CatTypeOK, Request, Idle
<1>2. CASE Create(n)
  <2>1. [op |-> "create"] \in Request
    BY DEF Request
  <2> QED
    BY <1>1, <1>2, <2>1 DEF Create, Reading
<1>3. ASSUME NEW p \in Products, NEW to \in {"live", "archived"}, Patch(n, p, to)
      PROVE  Reading(n)
  <2> DEFINE q == [op |-> "patch", product |-> p, seen |-> product[p], to |-> to]
  <2>1. q \in Request /\ Begin(n, q)
    BY <1>3 DEF Patch, Request
  <2>2. q.op = "patch" /\ q.product = p
    OBVIOUS
  <2> HIDE DEF q
  <2> QED
    BY <1>1, <1>3, <2>1, <2>2 DEF Patch, Reading
<1>4. ASSUME NEW p \in Products, NEW x \in Axes, Add(n, p, x)
      PROVE  Reading(n)
  <2> DEFINE q == [op |-> "add", product |-> p, axes |-> x]
  <2>1. q \in Request /\ Begin(n, q)
    BY <1>4 DEF Add, Request
  <2>2. q.op = "add" /\ q.product = p /\ q.axes = x
    OBVIOUS
  <2> HIDE DEF q
  <2> QED
    BY <1>1, <1>4, <2>1, <2>2 DEF Add, Reading
<1>5. ASSUME NEW v \in Variants, NEW x \in Axes, Edit(n, v, x)
      PROVE  Reading(n)
  <2> DEFINE p == variant[v].product
             q == [op |-> "edit", product |-> p, variant |-> v, axes |-> x]
  <2>1. p \in Products /\ q \in Request /\ Begin(n, q)
    BY <1>5, RowFields DEF Edit, Request
  <2>2. q.op = "edit" /\ q.product = p /\ q.variant = v /\ q.axes = x
    OBVIOUS
  <2>3. Exists(v) /\ p \notin Frozen /\ AxesFree(p, v, x)
    BY <1>5 DEF Edit
  <2> HIDE DEF q
  <2> QED
    BY <1>1, <2>1, <2>2, <2>3 DEF Reading
<1>6. ASSUME NEW v \in Variants, Drop(n, v)
      PROVE  Reading(n)
  <2> DEFINE p == variant[v].product
             q == [op |-> "drop", product |-> p, variant |-> v]
  <2>1. p \in Products /\ q \in Request /\ Begin(n, q)
    BY <1>6, RowFields DEF Drop, Request
  <2>2. q.op = "drop" /\ q.product = p /\ q.variant = v
    OBVIOUS
  <2>3. Exists(v) /\ p \notin Frozen /\ Cardinality(VariantsOf(p)) > 1 /\ v \notin held
    BY <1>6 DEF Drop
  <2> HIDE DEF q
  <2> QED
    BY <1>1, <2>1, <2>2, <2>3 DEF Reading
<1> QED
  BY <1>2, <1>3, <1>4, <1>5, <1>6 DEF Arrive

\* The other steps begin nothing.
LEMMA Ended2 ==
    ASSUME CatTypeOK, NEW n \in Sessions, NEW V, EndedWithout(n, V)
    PROVE  /\ req' \in [Sessions -> Request \cup {Idle}]
           /\ req'[n] = Idle
           /\ \A m \in Sessions :
                 \/ req'[m] = Idle
                 \/ /\ m # n /\ req'[m] = req[m]
                    /\ req[m].op \in {"edit", "drop"} => req[m].variant \notin V
BY DEF CatTypeOK, EndedWithout

LEMMA EndOrGoOn ==
    ASSUME CatTypeOK, Step, NEW n \in Sessions, ~Arrive(n)
    PROVE  req'[n] = Idle \/ req'[n] = req[n]
<1>1. ASSUME NEW m \in Sessions, NEW V, EndedWithout(m, V)
      PROVE  req'[n] = Idle \/ req'[n] = req[n]
  BY <1>1, Ended2
<1>2. CASE \E m \in Sessions : Arrive(m)
  BY <1>2, Reads DEF Reading, CatTypeOK
<1>3. CASE \E m \in Sessions : \E V : EndedWithout(m, V)
  BY <1>1, <1>3
<1>4. CASE UNCHANGED req
  BY <1>4
<1>5. ASSUME NEW m \in Sessions, Commit(m) \/ Fail(m) \/ ClearDemos(m)
      PROVE  \E V : EndedWithout(m, V)
  BY <1>5 DEF Commit, CreateCommit, PatchCommit, AddCommit, EditCommit, DropCommit, Fail,
      ClearDemos, Ended
<1> QED
  BY <1>2, <1>3, <1>4, <1>5 DEF Step, Archive, StockMoves, PlanMoves

-----------------------------------------------------------------------------
(* What a step does to the rows.                                           *)

LEMMA ProductsStay ==
    ASSUME CatInv, Step
    PROVE  /\ product' \in [Products -> {"none", "live", "archived", "gone"}]
           /\ \A p \in Products : /\ product[p] # "none" => product'[p] # "none"
                                  /\ product[p] = "gone" => product'[p] = "gone"
                                  /\ product[p] \in {"live", "archived"} =>
                                        \/ product'[p] \in {"live", "archived"}
                                        \/ /\ product'[p] = "gone" /\ p \in Demos
                                           /\ \E n \in Sessions : ClearDemos(n)
<1> USE DEF CatInv, CatTypeOK
<1>1. ASSUME NEW n \in Sessions, Arrive(n)
      PROVE  UNCHANGED product
  BY <1>1, Reads DEF Reading
<1>2. ASSUME NEW n \in Sessions, Commit(n)
      PROVE  \/ UNCHANGED product
             \/ \E p \in Products : product[p] = "none" /\ product' = [product EXCEPT ![p] = "live"]
             \/ \E p \in Products, to \in {"live", "archived"} :
                   product[p] \notin {"none", "gone"} /\ product' = [product EXCEPT ![p] = to]
  <2>1. CASE CreateCommit(n)
    BY <2>1, NewestIsNone DEF CreateCommit
  <2>2. CASE PatchCommit(n)
    BY <2>2, ReqFields DEF PatchCommit, Known
  <2>3. CASE AddCommit(n) \/ EditCommit(n) \/ DropCommit(n)
    BY <2>3 DEF AddCommit, EditCommit, DropCommit
  <2> QED
    BY <1>2, <2>1, <2>2, <2>3 DEF Commit
<1>3. ASSUME NEW n \in Sessions, Fail(n) \/ ClearDemos(n)
      PROVE  \/ UNCHANGED product
             \/ /\ \E m \in Sessions : ClearDemos(m)
                /\ product' = [p \in Products |-> IF p \in Demos THEN "gone" ELSE product[p]]
  BY <1>3 DEF Fail, ClearDemos
<1>4. ASSUME NEW p \in Products, Archive(p)
      PROVE  product[p] = "live" /\ product' = [product EXCEPT ![p] = "archived"]
  BY <1>4 DEF Archive
<1>5. CASE \E n \in Sessions : Commit(n)
  BY <1>2, <1>5
<1>6. CASE \E n \in Sessions : Arrive(n) \/ Fail(n) \/ ClearDemos(n)
  BY <1>1, <1>3, <1>6
<1>7. CASE \E p \in Products : Archive(p)
  BY <1>4, <1>7
<1>8. CASE UNCHANGED product
  BY <1>8
<1> QED
  BY <1>5, <1>6, <1>7, <1>8 DEF Step, StockMoves, PlanMoves

\* What may be written to the variants.
Made(p, S) ==
    /\ p \in Products /\ product[p] = "none" /\ product'[p] = "live"
    /\ S \in SUBSET {v \in Variants : ~Exists(v)} /\ S # {}
    /\ \E axes \in [S -> Axes] :
          variant' = [v \in Variants |->
             IF v \in S THEN [product |-> p, axes |-> axes[v]] ELSE variant[v]]

Added(n, v) ==
    LET q == req[n]
    IN  /\ Commit(n) /\ q.op = "add" /\ v \in Variants /\ ~Exists(v)
        /\ q.product \in Products /\ product[q.product] \in {"live", "archived"}
        /\ product' = product
        /\ variant' = [variant EXCEPT ![v] = [product |-> q.product, axes |-> q.axes]]
        /\ Ended(n)

Edited(n) ==
    LET q == req[n]
    IN  /\ Commit(n) /\ q.op = "edit" /\ product' = product
        /\ variant' = [variant EXCEPT ![q.variant].axes = q.axes]
        /\ Ended(n)

Dropped(n) ==
    LET v == req[n].variant
    IN  /\ Commit(n) /\ req[n].op = "drop" /\ product' = product
        /\ variant' = [variant EXCEPT ![v] = NoVariant]
        /\ held' = held \ {v}
        /\ EndedWithout(n, {v})

LEMMA VariantsStay ==
    ASSUME CatInv, Step
    PROVE  \/ UNCHANGED variant
           \/ \E p, S : Made(p, S)
           \/ \E n \in Sessions : \E v : Added(n, v)
           \/ \E n \in Sessions : Edited(n) \/ Dropped(n) \/ ClearDemos(n)
<1> USE DEF CatInv, CatTypeOK
<1>1. ASSUME NEW n \in Sessions, Arrive(n)
      PROVE  UNCHANGED variant
  BY <1>1, Reads DEF Reading
<1>2. ASSUME NEW n \in Sessions, CreateCommit(n)
      PROVE  \E p, S : Made(p, S)
  BY <1>2, NewestIsNone DEF CreateCommit, Made
<1>3. ASSUME NEW n \in Sessions, AddCommit(n)
      PROVE  UNCHANGED variant \/ \E v : Added(n, v)
  <2>1. req[n].product \in Products /\ product[req[n].product] # "none"
    BY <1>3, ReqFields DEF AddCommit, Known
  <2> QED
    BY <1>3, <2>1 DEF AddCommit, Added, Commit
<1>4. ASSUME NEW n \in Sessions, EditCommit(n)
      PROVE  Edited(n)
  BY <1>4 DEF EditCommit, Edited, Commit
<1>5. ASSUME NEW n \in Sessions, DropCommit(n)
      PROVE  UNCHANGED variant \/ Dropped(n)
  BY <1>5 DEF DropCommit, Dropped, Commit
<1>6. ASSUME NEW n \in Sessions, PatchCommit(n) \/ Fail(n)
      PROVE  UNCHANGED variant
  BY <1>6 DEF PatchCommit, Fail
<1>7. ASSUME NEW n \in Sessions, Commit(n)
      PROVE  \/ UNCHANGED variant
             \/ \E p, S : Made(p, S)
             \/ \E v : Added(n, v)
             \/ Edited(n) \/ Dropped(n)
  BY <1>2, <1>3, <1>4, <1>5, <1>6, <1>7 DEF Commit
<1>8. CASE UNCHANGED variant
  BY <1>8
<1> QED
  BY <1>1, <1>6, <1>7, <1>8 DEF Step, Archive, StockMoves, PlanMoves

\* A variant that exists stays one of its product, or all who hold it have ended.
LEMMA VariantStays ==
    ASSUME CatInv, Step, NEW v \in Variants, Exists(v)
    PROVE  \/ Exists(v)' /\ variant'[v].product = variant[v].product
           \/ /\ ~Exists(v)'
              /\ \A m \in Sessions :
                    req[m].op \in {"edit", "drop"} /\ req[m].variant = v => req'[m] = Idle
<1> USE DEF Exists
<1>0. CatTypeOK /\ variant[v] \in Rows /\ variant \in [Variants -> Rows \cup {NoVariant}]
  BY RowFields DEF CatInv, CatTypeOK
<1>1. CASE UNCHANGED variant
  BY <1>1
<1>2. ASSUME NEW p, NEW S, Made(p, S)
      PROVE  variant'[v] = variant[v]
  BY <1>2 DEF Made
<1>3. ASSUME NEW n \in Sessions, NEW w, Added(n, w)
      PROVE  variant'[v] = variant[v]
  BY <1>0, <1>3 DEF Added
<1>4. ASSUME NEW n \in Sessions, Edited(n)
      PROVE  Exists(v)' /\ variant'[v].product = variant[v].product
  <2>1. req[n].axes \in Axes
    BY <1>0, <1>4, ReqFields DEF Edited
  <2>2. variant'[v] = variant[v] \/ variant'[v] = [variant[v] EXCEPT !.axes = req[n].axes]
    BY <1>0, <1>4 DEF Edited
  <2>3. variant'[v] \in Rows /\ variant'[v].product = variant[v].product
    BY <1>0, <2>1, <2>2 DEF Rows
  <2>4. variant'[v] # NoVariant
    BY <2>3 DEF Rows, NoVariant, Products
  <2> QED
    BY <2>3, <2>4
<1>5. ASSUME NEW n \in Sessions, Dropped(n)
      PROVE  \/ variant'[v] = variant[v]
             \/ /\ ~Exists(v)'
                /\ \A m \in Sessions :
                      req[m].op \in {"edit", "drop"} /\ req[m].variant = v => req'[m] = Idle
  BY <1>0, <1>5, Ended2 DEF Dropped
<1>6. ASSUME NEW n \in Sessions, ClearDemos(n)
      PROVE  \/ variant'[v] = variant[v]
             \/ /\ ~Exists(v)'
                /\ \A m \in Sessions :
                      req[m].op \in {"edit", "drop"} /\ req[m].variant = v => req'[m] = Idle
  BY <1>0, <1>6, Ended2 DEF ClearDemos
<1> QED
  BY <1>1, <1>2, <1>3, <1>4, <1>5, <1>6, VariantsStay

\* A new variant is one of a product that is live, or is archived.
LEMMA NewRow ==
    ASSUME CatInv, Step, NEW v \in Variants, ~Exists(v), Exists(v)'
    PROVE  /\ variant'[v].product \in Products
           /\ product'[variant'[v].product] \in {"live", "archived"}
<1>0. CatTypeOK /\ variant \in [Variants -> Rows \cup {NoVariant}] /\ variant[v] = NoVariant
  BY DEF CatInv, CatTypeOK, Exists
<1>1. CASE UNCHANGED variant
  BY <1>0, <1>1 DEF Exists
<1>2. ASSUME NEW p, NEW S, Made(p, S)
      PROVE  variant'[v].product = p /\ p \in Products /\ product'[p] = "live"
  BY <1>0, <1>2 DEF Made, Exists
<1>3. ASSUME NEW n \in Sessions, NEW w, Added(n, w)
      PROVE  /\ variant'[v].product \in Products
             /\ product'[variant'[v].product] \in {"live", "archived"}
  BY <1>0, <1>3 DEF Added, Exists
<1>4. ASSUME NEW n \in Sessions, Edited(n)
      PROVE  variant'[v] = variant[v]
  <2>1. req[n].variant # v
    BY <1>4 DEF Edited, CatInv, Known
  <2> QED
    BY <1>0, <1>4, <2>1 DEF Edited
<1>5. ASSUME NEW n \in Sessions, Dropped(n) \/ ClearDemos(n)
      PROVE  variant'[v] = NoVariant
  BY <1>0, <1>5 DEF Dropped, ClearDemos
<1> QED
  BY <1>0, <1>1, <1>2, <1>3, <1>4, <1>5, VariantsStay DEF Exists

-----------------------------------------------------------------------------
(* The invariant.                                                          *)

LEMMA CatInit == Init => CatInv
<1> SUFFICES ASSUME Init PROVE CatInv
  OBVIOUS
<1>1. 1 \in Products
  BY CatalogAssumption DEF Products
<1>2. product \in [Products -> {"none", "live", "archived", "gone"}] /\ product[1] = "live"
  BY <1>1 DEF Init, Demos
<1>3. PICK v \in Variants, x \in Axes :
         variant = [w \in Variants |-> IF w = v THEN [product |-> 1, axes |-> x] ELSE NoVariant]
  BY DEF Init
<1>4. /\ variant \in [Variants -> Rows \cup {NoVariant}]
      /\ \A w \in Variants : Exists(w) => product[variant[w].product] \in {"live", "archived"}
  BY <1>1, <1>2, <1>3 DEF Rows, Exists
<1>5. CatTypeOK
  BY <1>2, <1>4 DEF Init, CatTypeOK
<1>6. \A n \in Sessions : req[n].op = "idle"
  BY DEF Init, Idle
<1> QED
  BY <1>5, <1>6 DEF CatInv, Known

LEMMA TypeStep == CatInv /\ CatNext => CatTypeOK'
<1> SUFFICES ASSUME CatInv, CatNext PROVE CatTypeOK'
  OBVIOUS
<1>0. CatTypeOK /\ Step
  BY DEF CatInv, CatNext
<1>1. product' \in [Products -> {"none", "live", "archived", "gone"}]
  BY <1>0, ProductsStay
<1>2. variant' \in [Variants -> Rows \cup {NoVariant}]
  <2>1. ASSUME NEW p, NEW S, Made(p, S)
        PROVE  variant' \in [Variants -> Rows \cup {NoVariant}]
    BY <1>0, <2>1 DEF Made, CatTypeOK, Rows
  <2>2. ASSUME NEW n \in Sessions, NEW v, Added(n, v)
        PROVE  variant' \in [Variants -> Rows \cup {NoVariant}]
    BY <1>0, <2>2, ReqFields DEF Added, CatTypeOK, Rows
  <2>3. ASSUME NEW n \in Sessions, Edited(n)
        PROVE  variant' \in [Variants -> Rows \cup {NoVariant}]
    <3>1. req[n].axes \in Axes /\ req[n].variant \in Variants /\ variant[req[n].variant] \in Rows
      BY <1>0, <2>3, ReqFields, RowFields DEF Edited, CatInv, Known
    <3> QED
      BY <1>0, <2>3, <3>1 DEF Edited, CatTypeOK, Rows
  <2>4. ASSUME NEW n \in Sessions, Dropped(n) \/ ClearDemos(n)
        PROVE  variant' \in [Variants -> Rows \cup {NoVariant}]
    BY <1>0, <2>4 DEF Dropped, ClearDemos, CatTypeOK
  <2>5. CASE UNCHANGED variant
    BY <1>0, <2>5 DEF CatTypeOK
  <2> QED
    BY <1>0, <2>1, <2>2, <2>3, <2>4, <2>5, VariantsStay
<1>3. ASSUME NEW v \in Variants, Exists(v)'
      PROVE  product'[variant'[v].product] \in {"live", "archived"}
  <2>1. CASE Exists(v) /\ variant'[v].product = variant[v].product
    <3>1. variant[v].product \in Products /\ product[variant[v].product] \in {"live", "archived"}
      BY <1>0, <2>1, RowFields DEF CatTypeOK
    <3>2. ASSUME NEW n \in Sessions, ClearDemos(n), variant[v].product \in Demos
          PROVE  ~Exists(v)'
      BY <1>0, <3>1, <3>2, <2>1, RowFields DEF ClearDemos, Exists
    <3> QED
      BY <1>0, <1>3, <2>1, <3>1, <3>2, ProductsStay
  <2>2. CASE ~Exists(v)
    BY <1>0, <1>3, <2>2, NewRow
  <2> QED
    BY <1>0, <1>3, <2>1, <2>2, VariantStays
<1>4. held' \subseteq Variants /\ ordered' \subseteq Variants /\ limit' \in Limits
  <2> USE DEF CatTypeOK
  <2>1. CASE UNCHANGED <<held, ordered, limit>>
    BY <1>0, <2>1
  <2>2. ASSUME NEW n \in Sessions, Arrive(n)
        PROVE  UNCHANGED <<held, ordered, limit>>
    BY <1>0, <2>2, Reads DEF Reading
  <2>3. ASSUME NEW n \in Sessions, Commit(n) \/ Fail(n) \/ ClearDemos(n)
        PROVE  held' \subseteq held /\ UNCHANGED <<ordered, limit>>
    BY <2>3 DEF Commit, CreateCommit, PatchCommit, AddCommit, EditCommit, DropCommit, Fail,
        ClearDemos
  <2>4. CASE \E v \in Variants : StockMoves(v)
    BY <1>0, <2>4 DEF StockMoves
  <2>5. CASE PlanMoves
    BY <1>0, <2>5 DEF PlanMoves
  <2> QED
    BY <1>0, <2>1, <2>2, <2>3, <2>4, <2>5 DEF Step, Archive
<1>5. req' \in [Sessions -> Request \cup {Idle}]
  <2>1. ASSUME NEW n \in Sessions, Arrive(n)
        PROVE  req' \in [Sessions -> Request \cup {Idle}]
    BY <1>0, <2>1, Reads DEF Reading, CatTypeOK
  <2>2. ASSUME NEW n \in Sessions, Commit(n) \/ Fail(n) \/ ClearDemos(n)
        PROVE  \E V : EndedWithout(n, V)
    BY <2>2 DEF Commit, CreateCommit, PatchCommit, AddCommit, EditCommit, DropCommit, Fail,
        ClearDemos, Ended
  <2>3. CASE UNCHANGED req
    BY <1>0, <2>3 DEF CatTypeOK
  <2> QED
    BY <1>0, <2>1, <2>2, <2>3, Ended2 DEF Step, Archive, StockMoves, PlanMoves
<1>6. overtaken' \in [Sessions -> SUBSET {"sibling", "reserved", "axes", "room"}]
  BY <1>0 DEF CatTypeOK, CatNext, Overtaking
<1> QED
  BY <1>1, <1>2, <1>3, <1>4, <1>5, <1>6 DEF CatTypeOK, CatNext

\* A request that goes on has the product it began with, and what it found stays so.
LEMMA KnownStep ==
    ASSUME CatInv, CatNext, NEW n \in Sessions
    PROVE  Known(n)'
<1>0. CatTypeOK /\ Step /\ Known(n)
  BY DEF CatInv, CatNext
<1>1. CASE Arrive(n)
  <2>1. Reading(n)
    BY <1>0, <1>1, Reads
  <2>2. Frozen' = Frozen
    BY <2>1 DEF Reading, Frozen, Live
  <2>3. req'[n].op \in {"patch", "add", "edit", "drop"} => n \in free'
    BY <2>1, <2>2 DEF CatNext, Reading
  <2> QED
    BY <2>1, <2>3 DEF Reading, Known, Exists
<1>2. CASE req'[n] = Idle
  BY <1>2 DEF Known, Idle
<1>3. CASE req'[n] = req[n] /\ req[n] # Idle
  <2>1. req[n].op \in {"patch", "add", "edit", "drop"} => n \in free'
    BY <1>0, <1>3 DEF CatNext, Known
  <2>2. req[n].op \in {"patch", "add"} => product'[req[n].product] # "none"
    BY <1>0, ProductsStay, ReqFields DEF Known
  <2>3. req[n].op \in {"edit", "drop"} =>
           Exists(req[n].variant)' /\ variant'[req[n].variant].product = req[n].product
    BY <1>0, <1>3, VariantStays, ReqFields DEF Known, Exists
  <2> QED
    BY <1>3, <2>1, <2>2, <2>3 DEF Known, Exists
<1> QED
  BY <1>0, <1>1, <1>2, <1>3, EndOrGoOn

LEMMA CatStep == CatInv /\ [CatNext]_catVars => CatInv'
<1>1. CatInv /\ CatNext => CatInv'
  BY TypeStep, KnownStep DEF CatInv
<1>2. CatInv /\ UNCHANGED catVars => CatInv'
  BY DEF CatInv, CatTypeOK, Known, Exists, catVars
<1> QED
  BY <1>1, <1>2

LEMMA CatInvHolds == CatSpec => []CatInv
BY CatInit, CatStep, PTL DEF CatSpec

-----------------------------------------------------------------------------
(* Theorems.                                                               *)

\* Rows and requests keep their types: a variant belongs to a product that is
\* there, also when the demo catalogue is cleared (seed.py) next to requests.
THEOREM CatalogTyped == CatSpec => []CatTypeOK
<1>1. CatInv => CatTypeOK
  BY DEF CatInv
<1> QED
  BY <1>1, CatInvHolds, PTL

\* What the plan does not cover is for reading only (enforce_product_writable()):
\* no request changes a product that was frozen all the time it ran.
THEOREM FrozenStaysSo == CatSpec => FrozenUntouched
<1>1. ASSUME CatInv, NEW n \in Sessions, req[n].op \in {"patch", "add", "edit", "drop"}
      PROVE  n \in free
  BY <1>1 DEF CatInv, Known
<1>2. CatInv /\ [CatNext]_catVars =>
         [\A n \in Sessions :
            req[n].op \in {"patch", "add", "edit", "drop"} /\ Commit(n) => n \in free]_catVars
  BY <1>1
<1> QED
  BY <1>2, CatInvHolds, PTL DEF CatSpec, FrozenUntouched

-----------------------------------------------------------------------------
(* What a request has found.                                               *)

\* As long as it has not been overtaken: another variant next to the one it
\* deletes, ...
OneMore ==
    \A n \in Sessions : req[n].op = "drop" /\ "sibling" \notin overtaken[n] =>
        \E w \in VariantsOf(req[n].product) : w # req[n].variant

\* ... no reservation of that one, ...
Unreserved ==
    \A n \in Sessions : req[n].op = "drop" /\ "reserved" \notin overtaken[n] =>
        req[n].variant \notin held

\* ... room for the product it creates, ...
Roomy ==
    \A n \in Sessions : req[n].op = "create" /\ "room" \notin overtaken[n] => HasRoom

\* ... and no variant with the axes it writes.
Unused ==
    \A n \in Sessions :
        LET q == req[n]
        IN  "axes" \notin overtaken[n] =>
                /\ q.op = "add" => \A w \in VariantsOf(q.product) : variant[w].axes # q.axes
                /\ q.op = "edit" => AxesFree(q.product, q.variant, q.axes)

\* A request has just looked, or goes on and was not overtaken by this step either.
LEMMA LooksOrGoesOn ==
    ASSUME CatInv, CatNext, NEW n \in Sessions, req'[n] # Idle
    PROVE  \/ Reading(n)
           \/ /\ req'[n] = req[n]
              /\ \A c : c \notin overtaken'[n] => c \notin overtaken[n] /\ c \notin Overtaking(n)
<1>1. CatTypeOK /\ Step
  BY DEF CatInv, CatNext
<1>2. overtaken'[n] = overtaken[n] \cup Overtaking(n)
  BY DEF CatNext
<1> QED
  BY <1>1, <1>2, Reads, EndOrGoOn

LEMMA MoreThanOne ==
    ASSUME NEW p, NEW v, Cardinality(VariantsOf(p)) > 1
    PROVE  \E w \in VariantsOf(p) : w # v
<1> SUFFICES ASSUME VariantsOf(p) \subseteq {v}
             PROVE  FALSE
  OBVIOUS
<1>1. VariantsOf(p) = {} \/ VariantsOf(p) = {v}
  OBVIOUS
<1>2. Cardinality({}) = 0 /\ Cardinality({v}) = 1
  BY FS_EmptySet, FS_Singleton
<1> QED
  BY <1>1, <1>2

\* Only a deletion takes a variant from a product that stays.
LEMMA SiblingStays ==
    ASSUME CatInv, Step, NEW p \in Products, NEW w \in VariantsOf(p),
           ~\E n \in Sessions : Dropped(n) /\ req[n].variant = w,
           ~\E n \in Sessions : ClearDemos(n) /\ p \in Demos
    PROVE  w \in VariantsOf(p)'
<1>0. CatTypeOK /\ w \in Variants /\ Exists(w) /\ variant[w].product = p /\ variant[w] \in Rows
  BY RowFields DEF CatInv, VariantsOf
<1>1. ASSUME NEW n \in Sessions, Dropped(n) PROVE variant'[w] = variant[w]
  <2>1. req[n].variant # w
    BY <1>1
  <2> QED
    BY <1>0, <1>1, <2>1 DEF Dropped, CatTypeOK
<1>2. ASSUME NEW n \in Sessions, ClearDemos(n) PROVE variant'[w] = variant[w]
  <2>1. w \notin UNION {VariantsOf(d) : d \in Demos}
    BY <1>0, <1>2 DEF VariantsOf
  <2> QED
    BY <1>0, <1>2, <2>1 DEF ClearDemos
<1>3. ASSUME NEW q, NEW S, Made(q, S) PROVE variant'[w] = variant[w]
  BY <1>0, <1>3 DEF Made
<1>4. ASSUME NEW n \in Sessions, NEW v, Added(n, v) PROVE variant'[w] = variant[w]
  BY <1>0, <1>4 DEF Added, CatTypeOK
<1>5. ASSUME NEW n \in Sessions, Edited(n) PROVE variant'[w].product = variant[w].product
  BY <1>0, <1>5 DEF Edited, CatTypeOK, Rows
<1> QED
  BY <1>0, <1>1, <1>2, <1>3, <1>4, <1>5, VariantsStay DEF VariantsOf

\* A product is created with its variants, and with nothing else.
LEMMA BornWithVariant ==
    ASSUME CatInv, Step, NEW p \in Products, product[p] = "none", product'[p] # "none",
           product'[p] # "gone"
    PROVE  /\ \E S : Made(p, S)
           /\ product' = [product EXCEPT ![p] = "live"] /\ limit' = limit
           /\ \E n \in Sessions : CreateCommit(n)
<1>0. CatTypeOK
  BY DEF CatInv
<1>1. ASSUME NEW n \in Sessions, CreateCommit(n)
      PROVE  /\ \E S : Made(p, S)
             /\ product' = [product EXCEPT ![p] = "live"] /\ limit' = limit
  <2>1. PICK q \in Products, S \in SUBSET {v \in Variants : ~Exists(v)} :
           \E axes \in [S -> Axes] :
             /\ Newest(q) /\ S # {}
             /\ product' = [product EXCEPT ![q] = "live"]
             /\ variant' = [v \in Variants |->
                   IF v \in S THEN [product |-> q, axes |-> axes[v]] ELSE variant[v]]
    BY <1>1 DEF CreateCommit
  <2>2. q = p
    BY <1>0, <2>1 DEF CatTypeOK
  <2>3. Made(p, S)
    BY <1>0, <2>1, <2>2 DEF Made, CatTypeOK
  <2> QED
    BY <1>1, <2>1, <2>2, <2>3 DEF CreateCommit
<1>2. ASSUME NEW n \in Sessions, PatchCommit(n)
      PROVE  product'[p] = "none"
  BY <1>0, <1>2, ReqFields DEF PatchCommit, CatInv, Known, CatTypeOK
<1>3. ASSUME NEW n \in Sessions, Arrive(n)
      PROVE  product'[p] = product[p]
  BY <1>0, <1>3, Reads DEF Reading
<1>4. ASSUME NEW n \in Sessions, AddCommit(n) \/ EditCommit(n) \/ DropCommit(n) \/ Fail(n)
      PROVE  product'[p] = product[p]
  BY <1>4 DEF AddCommit, EditCommit, DropCommit, Fail
<1>5. ASSUME NEW n \in Sessions, ClearDemos(n)
      PROVE  product'[p] \in {product[p], "gone"}
  BY <1>0, <1>5 DEF ClearDemos
<1>6. ASSUME NEW q \in Products, Archive(q)
      PROVE  product'[p] = product[p]
  BY <1>0, <1>6 DEF Archive, CatTypeOK
<1> QED
  BY <1>1, <1>2, <1>3, <1>4, <1>5, <1>6 DEF Step, Commit, StockMoves, PlanMoves

-----------------------------------------------------------------------------
(* The last variant and the reserved one.                                  *)

LEMMA OneMoreStep ==
    ASSUME CatInv, OneMore, CatNext
    PROVE  OneMore'
<1>0. CatTypeOK /\ Step
  BY DEF CatInv, CatNext
<1>1. ASSUME NEW n \in Sessions, req'[n].op = "drop", "sibling" \notin overtaken'[n],
             NEW p, p = req'[n].product, NEW v, v = req'[n].variant
      PROVE  \E w \in VariantsOf(p)' : w # v
  <2>1. CASE Reading(n)
    <3>1. VariantsOf(p)' = VariantsOf(p) /\ Cardinality(VariantsOf(p)) > 1
      BY <1>1, <2>1 DEF Reading, VariantsOf
    <3> QED
      BY <3>1, MoreThanOne
  <2>2. CASE req'[n] = req[n] /\ "sibling" \notin overtaken[n] /\ "sibling" \notin Overtaking(n)
    <3>1. PICK w \in VariantsOf(p) : w # v
      BY <1>1, <2>2 DEF OneMore
    <3>2. Exists(w)'
      BY <1>1, <2>2, <3>1 DEF Overtaking
    <3>3. w \in Variants /\ Exists(w) /\ variant[w].product = p
      BY <1>0, <1>1, <2>2, <3>1, ReqFields, RowFields DEF VariantsOf
    <3>4. w \in VariantsOf(p)'
      BY <1>0, <3>2, <3>3, VariantStays DEF VariantsOf
    <3> QED
      BY <3>1, <3>4
  <2> QED
    BY <1>1, <2>1, <2>2, LooksOrGoesOn DEF Idle
<1>2. \A n \in Sessions : req'[n].op = "drop" /\ "sibling" \notin overtaken'[n] =>
         \E w \in VariantsOf(req[n].product)' : w # req'[n].variant
  BY <1>1 DEF VariantsOf
<1> QED
  BY <1>2 DEF OneMore

\* A deletion takes the last variant of a product that stays (catalog.py:421)
\* only when the sibling it had counted was deleted next to it.
THEOREM LastVariantStays == CatSpec => KeepsAVariant
<1>1. Init => OneMore
  BY DEF Init, OneMore, Idle
<1>2. CatInv /\ OneMore /\ [CatNext]_catVars => OneMore'
  <2>1. OneMore /\ UNCHANGED catVars => OneMore'
    BY DEF OneMore, VariantsOf, catVars
  <2> QED
    BY <2>1, OneMoreStep
<1>3. ASSUME CatInv, OneMore, Step, NEW p \in Products,
             product'[p] \in {"live", "archived"}, VariantsOf(p)' = {}
      PROVE  \/ product[p] # "none" /\ VariantsOf(p) = {}
             \/ \E n \in Sessions : WritesLate(n, "sibling") /\ req[n].product = p
  <2>0. CatTypeOK
    BY <1>3 DEF CatInv
  <2>1. CASE product[p] = "none"
    <3>1. PICK S : Made(p, S)
      BY <1>3, <2>1, BornWithVariant
    <3>2. PICK v \in S : v \in Variants
      BY <3>1 DEF Made
    <3>3. variant'[v].product = p
      BY <3>1, <3>2 DEF Made
    <3> QED
      BY <1>3, <3>2, <3>3 DEF VariantsOf
  <2>2. CASE product[p] # "none" /\ VariantsOf(p) # {}
    <3>1. PICK w \in VariantsOf(p) : TRUE
      BY <2>2
    <3>2. ~\E n \in Sessions : ClearDemos(n) /\ p \in Demos
      BY <1>3 DEF ClearDemos
    <3>3. PICK n \in Sessions : Dropped(n) /\ req[n].variant = w
      BY <1>3, <3>1, <3>2, SiblingStays
    <3>4. Commit(n) /\ req[n].product = p
      BY <3>1, <3>3, <1>3 DEF Dropped, CatInv, Known, VariantsOf
    <3>5. ASSUME "sibling" \notin overtaken[n] PROVE FALSE
      <4>1. PICK u \in VariantsOf(p) : u # w
        BY <1>3, <3>3, <3>4, <3>5 DEF OneMore, Dropped
      <4>2. variant'[u] = variant[u]
        BY <2>0, <3>3, <4>1 DEF Dropped, CatTypeOK, VariantsOf
      <4> QED
        BY <1>3, <4>1, <4>2 DEF VariantsOf
    <3> QED
      BY <3>4, <3>5 DEF WritesLate
  <2> QED
    BY <2>1, <2>2
<1>4. CatInv /\ OneMore /\ [CatNext]_catVars =>
         [\A p \in Products :
            product'[p] \in {"live", "archived"} /\ VariantsOf(p)' = {}
               => \/ product[p] # "none" /\ VariantsOf(p) = {}
                  \/ \E n \in Sessions :
                        WritesLate(n, "sibling") /\ req[n].product = p]_catVars
  BY <1>3 DEF CatNext
<1> QED
  BY <1>1, <1>2, <1>4, CatInvHolds, PTL DEF CatSpec, KeepsAVariant

LEMMA UnreservedStep ==
    ASSUME CatInv, Unreserved, CatNext
    PROVE  Unreserved'
<1> SUFFICES ASSUME NEW n \in Sessions, req'[n].op = "drop", "reserved" \notin overtaken'[n]
             PROVE  req'[n].variant \notin held'
  BY DEF Unreserved
<1>1. CASE Reading(n)
  BY <1>1 DEF Reading
<1>2. CASE req'[n] = req[n] /\ "reserved" \notin overtaken[n] /\ "reserved" \notin Overtaking(n)
  BY <1>2 DEF Unreserved, Overtaking
<1> QED
  BY <1>1, <1>2, LooksOrGoesOn DEF Idle

\* An active reservation loses its variant (catalog.py:430) only with the demo
\* catalogue, or when it was made after the deletion had counted reservations.
THEOREM ReservedStay == CatSpec => EarmarksKept
<1>1. Init => Unreserved
  BY DEF Init, Unreserved, Idle
<1>2. CatInv /\ Unreserved /\ [CatNext]_catVars => Unreserved'
  BY UnreservedStep DEF Unreserved, catVars
<1>3. ASSUME CatInv, Unreserved, Step, NEW v \in Variants, Exists(v), v \in held, ~Exists(v)'
      PROVE  \/ product'[variant[v].product] = "gone"
             \/ \E n \in Sessions : WritesLate(n, "reserved") /\ req[n].variant = v
  <2>1. PICK p \in Products : p = variant[v].product
    BY <1>3, RowFields DEF CatInv
  <2>2. v \in VariantsOf(p)
    BY <1>3, <2>1 DEF VariantsOf
  <2>3. v \notin VariantsOf(p)'
    BY <1>3, <2>1 DEF VariantsOf, Exists, NoVariant, Products
  <2>4. ASSUME NEW n \in Sessions, Dropped(n), req[n].variant = v
        PROVE  WritesLate(n, "reserved")
    BY <1>3, <2>4 DEF Dropped, Unreserved, WritesLate
  <2>5. ASSUME NEW n \in Sessions, ClearDemos(n), p \in Demos
        PROVE  product'[p] = "gone"
    BY <2>5 DEF ClearDemos
  <2> QED
    BY <1>3, <2>1, <2>2, <2>3, <2>4, <2>5, SiblingStays
<1>4. CatInv /\ Unreserved /\ [CatNext]_catVars =>
         [\A v \in Variants :
            Exists(v) /\ v \in held /\ ~Exists(v)'
               => \/ product'[variant[v].product] = "gone"
                  \/ \E n \in Sessions :
                        WritesLate(n, "reserved") /\ req[n].variant = v]_catVars
  BY <1>3 DEF CatNext
<1> QED
  BY <1>1, <1>2, <1>4, CatInvHolds, PTL DEF CatSpec, EarmarksKept

-----------------------------------------------------------------------------
(* The limit of the plan.                                                  *)

LEMMA LiveCount ==
    /\ IsFiniteSet(Live) /\ Cardinality(Live) \in Nat
    /\ IsFiniteSet(Live') /\ Cardinality(Live') \in Nat
<1>1. IsFiniteSet(Products)
  BY CatalogAssumption, FS_Interval DEF Products
<1>2. IsFiniteSet(Live) /\ IsFiniteSet(Live')
  BY <1>1, FS_Subset DEF Live
<1> QED
  BY <1>2, FS_CardinalityType

LEMMA RoomyStep ==
    ASSUME CatInv, Roomy, CatNext
    PROVE  Roomy'
<1> SUFFICES ASSUME NEW n \in Sessions, req'[n].op = "create", "room" \notin overtaken'[n]
             PROVE  HasRoom'
  BY DEF Roomy
<1>1. CASE Reading(n)
  <2>1. HasRoom /\ limit' = limit /\ Live' = Live
    BY <1>1 DEF Reading, Live
  <2> QED
    BY <2>1 DEF HasRoom
<1>2. CASE req'[n] = req[n] /\ "room" \notin overtaken[n] /\ "room" \notin Overtaking(n)
  <2>1. HasRoom /\ limit' = limit /\ ~(Cardinality(Live') > Cardinality(Live))
    BY <1>2 DEF Roomy, Overtaking
  <2>2. limit \in Nat \cup {Unlimited}
    BY LimitAssumption DEF CatInv, CatTypeOK
  <2> QED
    BY <2>1, <2>2, LiveCount DEF HasRoom
<1> QED
  BY <1>1, <1>2, LooksOrGoesOn DEF Idle

\* A creation passes the limit of the plan (catalog.py:159) only when another
\* product came, or the plan changed, after it had counted.
THEOREM LimitPassedOnlyLate == CatSpec => WithinTheLimit
<1>1. Init => Roomy
  BY DEF Init, Roomy, Idle
<1>2. CatInv /\ Roomy /\ [CatNext]_catVars => Roomy'
  <2>1. Roomy /\ UNCHANGED catVars => Roomy'
    BY DEF Roomy, HasRoom, Live, catVars
  <2> QED
    BY <2>1, RoomyStep
<1>3. ASSUME CatInv, Roomy, Step, NEW p \in Products,
             product[p] = "none", product'[p] = "live",
             limit # Unlimited, Cardinality(Live') > limit
      PROVE  \E n \in Sessions : WritesLate(n, "room")
  <2>0. CatTypeOK /\ limit \in Nat
    BY <1>3, LimitAssumption DEF CatInv, CatTypeOK
  <2>1. product' = [product EXCEPT ![p] = "live"]
    BY <1>3, BornWithVariant
  <2>2. PICK n \in Sessions : CreateCommit(n)
    BY <1>3, BornWithVariant
  <2>3. Live' = Live \cup {p} /\ p \notin Live
    BY <1>3, <2>0, <2>1 DEF Live, CatTypeOK
  <2>4. Cardinality(Live') = Cardinality(Live) + 1
    BY <2>3, LiveCount, FS_AddElement
  <2>5. ~HasRoom
    BY <1>3, <2>0, <2>4, LiveCount DEF HasRoom
  <2>6. "room" \in overtaken[n]
    BY <1>3, <2>2, <2>5 DEF Roomy, CreateCommit
  <2> QED
    BY <2>2, <2>6 DEF WritesLate, Commit
<1>4. CatInv /\ Roomy /\ [CatNext]_catVars =>
         [\A p \in Products :
            product[p] = "none" /\ product'[p] = "live"
               /\ limit # Unlimited /\ Cardinality(Live') > limit
               => \E n \in Sessions : WritesLate(n, "room")]_catVars
  BY <1>3 DEF CatNext
<1> QED
  BY <1>1, <1>2, <1>4, CatInvHolds, PTL DEF CatSpec, WithinTheLimit

-----------------------------------------------------------------------------
(* Axis values.                                                            *)

LEMMA UnusedStep ==
    ASSUME CatInv, Unused, CatNext
    PROVE  Unused'
<1>0. CatTypeOK
  BY DEF CatInv
<1>1. ASSUME NEW n \in Sessions, req'[n].op \in {"add", "edit"}, "axes" \notin overtaken'[n],
             NEW p, p = req'[n].product, NEW v, v = req'[n].variant, NEW x, x = req'[n].axes
      PROVE  /\ req'[n].op = "add" => \A w \in VariantsOf(p)' : variant'[w].axes # x
             /\ req'[n].op = "edit" => \A w \in VariantsOf(p)' \ {v} : variant'[w].axes # x
  <2>1. CASE Reading(n)
    <3>1. VariantsOf(p)' = VariantsOf(p) /\ variant' = variant
      BY <2>1 DEF Reading, VariantsOf
    <3> QED
      BY <1>1, <2>1, <3>1 DEF Reading, AxesFree
  <2>2. CASE req'[n] = req[n] /\ "axes" \notin overtaken[n] /\ "axes" \notin Overtaking(n)
    <3>1. \A w \in VariantsOf(p)' : (req[n].op = "edit" /\ w = v) \/ variant'[w] = variant[w]
      BY <1>1, <2>2 DEF Overtaking, VariantsOf
    <3>2. \A w \in VariantsOf(p)' : variant'[w] = variant[w] => w \in VariantsOf(p)
      BY DEF VariantsOf
    <3>3. CASE req[n].op = "add"
      BY <1>1, <2>2, <3>1, <3>2, <3>3 DEF Unused
    <3>4. CASE req[n].op = "edit"
      BY <1>1, <2>2, <3>1, <3>2, <3>4 DEF Unused, AxesFree
    <3> QED
      BY <1>1, <2>2, <3>3, <3>4
  <2> QED
    BY <1>1, <2>1, <2>2, LooksOrGoesOn DEF Idle
<1>2. ASSUME NEW n \in Sessions, "axes" \notin overtaken'[n]
      PROVE  /\ req'[n].op = "add" =>
                   \A w \in VariantsOf(req[n].product)' : variant'[w].axes # req'[n].axes
             /\ req'[n].op = "edit" => AxesFree(req[n].product, req[n].variant, req[n].axes)'
  BY <1>1, <1>2 DEF VariantsOf, AxesFree
<1> QED
  BY <1>2 DEF Unused

\* Two variants of a product get the same axis values when the product is
\* created, or when a variant was written after an addition or an edit had
\* compared (catalog.py:303-316); never otherwise.
THEOREM OnlyCreationRepeats == CatSpec => DuplicatesOnlyFromCreation
<1>1. Init => Unused
  BY DEF Init, Unused, Idle
<1>2. CatInv /\ Unused /\ [CatNext]_catVars => Unused'
  <2>1. Unused /\ UNCHANGED catVars => Unused'
    BY DEF Unused, VariantsOf, AxesFree, catVars
  <2> QED
    BY <2>1, UnusedStep
<1>3. ASSUME CatInv, Unused, Step, NEW v \in Variants, NEW w \in Variants,
             v # w, Exists(v)', variant'[v] = variant'[w], variant[v] # variant'[v],
             product[variant'[v].product] # "none"
      PROVE  \E n \in Sessions : WritesLate(n, "axes") /\ req[n].product = variant'[v].product
  <2>0. CatTypeOK /\ variant \in [Variants -> Rows \cup {NoVariant}]
    BY <1>3 DEF CatInv, CatTypeOK
  <2>1. CASE UNCHANGED variant
    BY <1>3, <2>1
  <2>2. ASSUME NEW p, NEW S, Made(p, S)
        PROVE  FALSE
    <3>1. v \notin S
      BY <1>3, <2>2 DEF Made
    <3>2. variant'[v] = variant[v]
      BY <2>2, <3>1 DEF Made
    <3> QED
      BY <1>3, <3>2
  <2>3. ASSUME NEW n \in Sessions, NEW x, Added(n, x)
        PROVE  WritesLate(n, "axes") /\ req[n].product = variant'[v].product
    <3> DEFINE q == req[n]
               row == [product |-> q.product, axes |-> q.axes]
    <3>1. \A u \in Variants : variant'[u] = IF u = x THEN row ELSE variant[u]
      BY <2>0, <2>3 DEF Added
    <3>2. v = x /\ variant'[v] = row /\ variant[w] = row
      BY <1>3, <3>1
    <3>3. w \in VariantsOf(q.product) /\ variant[w].axes = q.axes
      BY <3>2 DEF VariantsOf
    <3>4. Commit(n) /\ "axes" \in overtaken[n]
      BY <1>3, <2>3, <3>3 DEF Added, Unused
    <3> QED
      BY <3>2, <3>4 DEF WritesLate
  <2>4. ASSUME NEW n \in Sessions, Edited(n)
        PROVE  WritesLate(n, "axes") /\ req[n].product = variant'[v].product
    <3> DEFINE q == req[n]
               row == [variant[q.variant] EXCEPT !.axes = q.axes]
    <3>1. q.variant \in Variants /\ Exists(q.variant) /\ variant[q.variant].product = q.product
      BY <1>3, <2>0, <2>4, ReqFields DEF Edited, CatInv, Known
    <3>2. variant[q.variant] \in Rows
      BY <2>0, <3>1 DEF Exists
    <3>3. row.product = q.product /\ row.axes = q.axes
      BY <3>1, <3>2 DEF Rows
    <3>4. \A u \in Variants : variant'[u] = IF u = q.variant THEN row ELSE variant[u]
      BY <2>0, <2>4 DEF Edited
    <3> HIDE DEF row
    <3>5. v = q.variant /\ variant'[v] = row /\ variant[w] = row
      BY <1>3, <3>4
    <3>6. w \in VariantsOf(q.product) \ {q.variant} /\ variant[w].axes = q.axes
      BY <1>3, <3>3, <3>5 DEF VariantsOf
    <3>7. Commit(n) /\ "axes" \in overtaken[n]
      BY <1>3, <2>4, <3>6 DEF Edited, Unused, AxesFree
    <3> QED
      BY <3>3, <3>5, <3>7 DEF WritesLate
  <2>5. ASSUME NEW n \in Sessions, Dropped(n) \/ ClearDemos(n)
        PROVE  FALSE
    <3>1. \A u \in Variants : variant'[u] \in {variant[u], NoVariant}
      BY <2>0, <2>5 DEF Dropped, ClearDemos
    <3> QED
      BY <1>3, <3>1 DEF Exists
  <2> QED
    BY <1>3, <2>1, <2>2, <2>3, <2>4, <2>5, VariantsStay
<1>4. CatInv /\ Unused /\ [CatNext]_catVars =>
         [\A v, w \in Variants :
            v # w /\ Exists(v)' /\ variant'[v] = variant'[w] /\ variant[v] # variant'[v]
               /\ product[variant'[v].product] # "none"
               => \E n \in Sessions :
                     WritesLate(n, "axes") /\ req[n].product = variant'[v].product]_catVars
  BY <1>3 DEF CatNext
<1> QED
  BY <1>1, <1>2, <1>4, CatInvHolds, PTL DEF CatSpec, DuplicatesOnlyFromCreation
=============================================================================
