-------------------------- MODULE TemplatesProofs --------------------------
(***************************************************************************)
(* Proofs about Templates, for any templates, products, fields and number  *)
(* of requests, which may overlap as they like: what a request has read is *)
(* still true when it writes, unless it has been overtaken.                *)
(***************************************************************************)
EXTENDS Templates, TLAPS

-----------------------------------------------------------------------------

TypeInv ==
    /\ schema \in [Templates -> Schema \cup {NoSchema}]
    /\ product \in [Products -> Product \cup {NoProduct}]
    /\ req \in [Sessions -> Request \cup {Idle}]

\* The rows that a running request has loaded have not been deleted.
Loaded(n) ==
    LET q == req[n]
    IN  /\ q.op = "make" /\ q.template # NoTemplate => Exists(q.template)
        /\ q.op \in {"patch", "remove"} => Exists(q.template)
        /\ q.op = "edit" => Made(q.product)

\* What it has checked is still true, unless it has been overtaken; the edit of
\* a variant cannot be, for it is about the template alone.
StillTrue(n) ==
    LET q == req[n]
    IN  /\ q.op = "make" /\ q.template # NoTemplate /\ n \notin overtaken =>
              DOMAIN q.axes \subseteq DOMAIN schema[q.template]
        /\ q.op = "patch" /\ n \notin overtaken /\ On(q.template) # {} =>
              Keeps(schema[q.template], q.to)
        /\ q.op = "remove" /\ n \notin overtaken => On(q.template) = {}
        /\ q.op = "edit" => \A t \in Templates \ raced :
              product[q.product].template = t => DOMAIN q.axes \subseteq DOMAIN schema[t]

TemplateInv ==
    /\ TypeInv
    /\ VariantsAreDescribed
    /\ \A n \in Sessions : Loaded(n)
    /\ \A n \in Sessions : StillTrue(n)

LEMMA Fields ==
    ASSUME TypeInv, NEW n \in Sessions
    PROVE  LET q == req[n] IN
           /\ q.op = "make" => q.template \in Templates \cup {NoTemplate} /\ q.axes \in AxisValues
           /\ q.op = "patch" => q.template \in Templates /\ q.to \in Schema
           /\ q.op = "remove" => q.template \in Templates
           /\ q.op = "edit" => q.product \in Products /\ q.axes \in AxisValues
           /\ q.op \in {"idle", "make", "patch", "remove", "edit"}
BY DEF TypeInv, Request, Idle

LEMMA TemplateInit == Init => TemplateInv
BY DEF Init, TemplateInv, TypeInv, VariantsAreDescribed, On, Made, Loaded, StillTrue, Idle

-----------------------------------------------------------------------------
(* What a step does to the requests.                                       *)

Arrive(n) ==
    \/ \E t \in Templates : Remove(n, t) \/ \E new \in Schema : Patch(n, t, new)
    \/ \E axes \in AxisValues :
          \/ \E t \in Templates \cup {NoTemplate} : Make(n, t, axes)
          \/ \E p \in Products : Edit(n, p, axes)

\* What a request has found that has just read.
Reading(n) ==
    LET q == req'[n]
    IN  /\ UNCHANGED <<schema, product>>
        /\ q \in Request /\ req' = [req EXCEPT ![n] = q]
        /\ q.op = "make" /\ q.template # NoTemplate =>
              Exists(q.template) /\ DOMAIN q.axes \subseteq DOMAIN schema[q.template]
        /\ q.op = "patch" =>
              Exists(q.template) /\ (On(q.template) # {} => Keeps(schema[q.template], q.to))
        /\ q.op = "remove" => Exists(q.template) /\ On(q.template) = {}
        /\ q.op = "edit" =>
              /\ Made(q.product)
              /\ \A t \in Templates :
                    product[q.product].template = t => DOMAIN q.axes \subseteq DOMAIN schema[t]

\* Axes that fit a template without gaps or additions are described by it.
LEMMA FitsDescribed ==
    ASSUME NEW t \in Templates, NEW axes, Fits(axes, t)
    PROVE  DOMAIN axes \subseteq DOMAIN schema[t]
BY TemplateAssumption DEF Fits, AxesOf

LEMMA Reads ==
    ASSUME TypeInv, NEW n \in Sessions, Arrive(n)
    PROVE  Reading(n)
<1>0. ASSUME NEW q, Begin(n, q)
      PROVE  /\ UNCHANGED <<schema, product>>
             /\ req'[n] = q /\ req' = [req EXCEPT ![n] = req'[n]]
  BY <1>0 DEF Begin, TypeInv
<1>1. ASSUME NEW t \in Templates, Remove(n, t) PROVE Reading(n)
  <2>1. [op |-> "remove", template |-> t] \in Request
    BY DEF Request
  <2> QED
    BY <1>0, <1>1, <2>1 DEF Remove, Reading
<1>2. ASSUME NEW t \in Templates, NEW new \in Schema, Patch(n, t, new) PROVE Reading(n)
  <2>1. [op |-> "patch", template |-> t, to |-> new] \in Request
    BY DEF Request
  <2> QED
    BY <1>0, <1>2, <2>1 DEF Patch, Reading
<1>3. ASSUME NEW axes \in AxisValues, NEW t \in Templates \cup {NoTemplate}, Make(n, t, axes)
      PROVE  Reading(n)
  <2>1. [op |-> "make", template |-> t, axes |-> axes] \in Request
    BY DEF Request
  <2>2. t # NoTemplate => Exists(t) /\ DOMAIN axes \subseteq DOMAIN schema[t]
    BY <1>3, FitsDescribed DEF Make
  <2> QED
    BY <1>0, <1>3, <2>1, <2>2 DEF Make, Reading
<1>4. ASSUME NEW axes \in AxisValues, NEW p \in Products, Edit(n, p, axes)
      PROVE  Reading(n)
  <2>1. [op |-> "edit", product |-> p, axes |-> axes] \in Request
    BY DEF Request
  <2>2. \A t \in Templates : product[p].template = t => DOMAIN axes \subseteq DOMAIN schema[t]
    BY <1>4, FitsDescribed DEF Edit
  <2> QED
    BY <1>0, <1>4, <2>1, <2>2 DEF Edit, Reading
<1> QED
  BY <1>1, <1>2, <1>3, <1>4 DEF Arrive

LEMMA RequestStep ==
    ASSUME TypeInv, Step, NEW m \in Sessions
    PROVE  /\ Reading(m) \/ req'[m] = Idle \/ req'[m] = req[m]
           /\ req' \in [Sessions -> Request \cup {Idle}]
<1>1. ASSUME NEW n \in Sessions, Arrive(n)
      PROVE  /\ Reading(m) \/ req'[m] = req[m]
             /\ req' \in [Sessions -> Request \cup {Idle}]
  BY <1>1, Reads DEF Reading, TypeInv
<1>2. ASSUME NEW n \in Sessions, Commit(n) \/ Fail(n)
      PROVE  /\ req'[m] = Idle \/ req'[m] = req[m]
             /\ req' \in [Sessions -> Request \cup {Idle}]
  BY <1>2 DEF Commit, PatchCommit, RemoveCommit, MakeCommit, EditCommit, Fail, Ended, TypeInv
<1>3. CASE UNCHANGED req
  BY <1>3 DEF TypeInv
<1> QED
  BY <1>1, <1>2, <1>3 DEF Step, Arrive, CreateTemplate

-----------------------------------------------------------------------------
(* What a step does to the rows.                                           *)

\* A product that is there stays; its template goes only with a removal, its
\* axes change only by an edit.
LEMMA ProductsStay ==
    ASSUME TemplateInv, Step, NEW p \in Products, Made(p)
    PROVE  /\ Made(p)'
           /\ \/ product'[p] = product[p]
              \/ \E n \in Sessions :
                    /\ RemoveCommit(n) /\ req[n].template = product[p].template
                    /\ product'[p].template = NoTemplate
              \/ \E n \in Sessions :
                    /\ EditCommit(n) /\ req[n].product = p
                    /\ product'[p].template = product[p].template
                    /\ product'[p].axes = req[n].axes
<1>0. TypeInv /\ product[p] \in Product
  BY DEF TemplateInv, TypeInv, Made
<1>1. CASE product'[p] = product[p]
  BY <1>1 DEF Made
<1>2. ASSUME NEW n \in Sessions, RemoveCommit(n), product'[p] # product[p]
      PROVE  /\ req[n].template = product[p].template
             /\ product'[p] \in Product /\ product'[p].template = NoTemplate
  <2>1. p \in On(req[n].template) /\ product'[p] = [product[p] EXCEPT !.template = NoTemplate]
    BY <1>2 DEF RemoveCommit
  <2> QED
    BY <1>0, <2>1 DEF On, Product
<1>3. ASSUME NEW n \in Sessions, EditCommit(n), product'[p] # product[p]
      PROVE  /\ req[n].product = p /\ product'[p] \in Product
             /\ product'[p].template = product[p].template
             /\ product'[p].axes = req[n].axes
  <2>1. req[n].product = p /\ product'[p] = [product[p] EXCEPT !.axes = req[n].axes]
    BY <1>0, <1>3 DEF EditCommit, TypeInv
  <2>2. req[n].axes \in AxisValues
    BY <1>0, <1>3, Fields DEF EditCommit
  <2> QED
    BY <1>0, <2>1, <2>2 DEF Product
<1>4. ASSUME NEW n \in Sessions, MakeCommit(n)
      PROVE  product'[p] = product[p]
  BY <1>0, <1>4 DEF MakeCommit, TypeInv
<1>5. CASE \E n \in Sessions : RemoveCommit(n) /\ product'[p] # product[p]
  BY <1>2, <1>5, RowAssumption DEF Made
<1>6. CASE \E n \in Sessions : EditCommit(n) /\ product'[p] # product[p]
  BY <1>3, <1>6, RowAssumption DEF Made
<1> QED
  BY <1>1, <1>4, <1>5, <1>6
     DEF Step, Commit, CreateTemplate, Remove, Patch, Make, Edit, Begin, PatchCommit, Fail

\* One that was not there is made from the template and the axes of a request.
LEMMA NewProduct ==
    ASSUME TemplateInv, Step, NEW p \in Products, ~Made(p), Made(p)'
    PROVE  \E n \in Sessions :
              /\ MakeCommit(n) /\ schema' = schema
              /\ product'[p].template = req[n].template /\ product'[p].axes = req[n].axes
<1>0. TypeInv
  BY DEF TemplateInv
<1>1. ASSUME NEW n \in Sessions, MakeCommit(n)
      PROVE  /\ schema' = schema
             /\ product'[p].template = req[n].template /\ product'[p].axes = req[n].axes
  <2>1. PICK x \in Products :
           product' = [product EXCEPT ![x] = [template |-> req[n].template, axes |-> req[n].axes]]
    BY <1>1 DEF MakeCommit
  <2>2. x = p
    BY <1>0, <2>1 DEF TypeInv, Made
  <2> QED
    BY <1>0, <1>1, <2>1, <2>2 DEF MakeCommit, TypeInv
<1>2. ASSUME NEW n \in Sessions, RemoveCommit(n)
      PROVE  product'[p] = product[p]
  BY <1>2 DEF RemoveCommit, On
<1>3. ASSUME NEW n \in Sessions, EditCommit(n)
      PROVE  product'[p] = product[p]
  <2>1. req[n].product # p
    BY <1>3 DEF EditCommit, TemplateInv, Loaded
  <2> QED
    BY <1>0, <1>3, <2>1 DEF EditCommit, TypeInv
<1>4. CASE product'[p] = product[p]
  BY <1>4 DEF Made
<1> QED
  BY <1>1, <1>2, <1>3, <1>4
     DEF Step, Commit, CreateTemplate, Remove, Patch, Make, Edit, Begin, PatchCommit, Fail

\* The schema of a template with products keeps its fields and their types, unless
\* a request writes that has been overtaken.
LEMMA SchemaStays ==
    ASSUME TemplateInv, Step, NEW t \in Templates, On(t) # {},
           \A n \in Sessions : ~WritesLate(n, t)
    PROVE  Exists(t)' /\ Keeps(schema[t], schema'[t])
<1>0. TypeInv /\ Exists(t)
  BY DEF TemplateInv, VariantsAreDescribed
<1>1. ASSUME schema'[t] = schema[t]
      PROVE  Exists(t)' /\ Keeps(schema[t], schema'[t])
  BY <1>0, <1>1 DEF Exists, Keeps
<1>2. ASSUME NEW x \in Templates, NEW new \in Schema, CreateTemplate(x, new)
      PROVE  schema'[t] = schema[t]
  <2>1. x # t
    BY <1>0, <1>2 DEF CreateTemplate
  <2> QED
    BY <1>0, <1>2, <2>1 DEF CreateTemplate, TypeInv
<1>3. ASSUME NEW n \in Sessions, PatchCommit(n)
      PROVE  Exists(t)' /\ Keeps(schema[t], schema'[t])
  <2>1. CASE req[n].template = t
    <3>1. n \notin overtaken
      BY <1>3, <2>1 DEF WritesLate, Commit
    <3>2. Keeps(schema[t], req[n].to) /\ req[n].to \in Schema
      BY <1>0, <1>3, <2>1, <3>1, Fields DEF PatchCommit, TemplateInv, StillTrue
    <3>3. schema'[t] = req[n].to
      BY <1>0, <1>3, <2>1 DEF PatchCommit, TypeInv
    <3> QED
      BY <3>2, <3>3, RowAssumption DEF Exists
  <2>2. CASE req[n].template # t
    BY <1>0, <1>1, <1>3, <2>2 DEF PatchCommit, TypeInv
  <2> QED
    BY <2>1, <2>2
<1>4. ASSUME NEW n \in Sessions, RemoveCommit(n)
      PROVE  schema'[t] = schema[t]
  <2>1. req[n].template # t
    <3>1. n \notin overtaken => On(req[n].template) = {}
      BY <1>4 DEF RemoveCommit, TemplateInv, StillTrue
    <3>2. req[n].template = t => n \notin overtaken
      BY <1>4 DEF WritesLate, Commit
    <3> QED
      BY <3>1, <3>2
  <2> QED
    BY <1>0, <1>4, <2>1 DEF RemoveCommit, TypeInv
<1>5. CASE UNCHANGED schema
  BY <1>1, <1>5
<1> QED
  BY <1>1, <1>2, <1>3, <1>4, <1>5
     DEF Step, Commit, Remove, Patch, Make, Edit, Begin, MakeCommit, EditCommit, Fail

\* A template goes only by its removal, and with it all that was using it.
LEMMA TemplatesStay ==
    ASSUME TemplateInv, Step, NEW t \in Templates, Exists(t)
    PROVE  \/ Exists(t)'
           \/ /\ On(t)' = {}
              /\ \A m \in Using(t) : req'[m] = Idle
<1>0. TypeInv
  BY DEF TemplateInv
<1>1. ASSUME NEW x \in Templates, NEW new \in Schema, CreateTemplate(x, new)
      PROVE  Exists(t)'
  BY <1>0, <1>1, RowAssumption DEF CreateTemplate, Exists, TypeInv
<1>2. ASSUME NEW n \in Sessions, PatchCommit(n)
      PROVE  Exists(t)'
  BY <1>0, <1>2, Fields, RowAssumption DEF PatchCommit, Exists, TypeInv
<1>3. ASSUME NEW n \in Sessions, RemoveCommit(n)
      PROVE  \/ Exists(t)'
             \/ /\ On(t)' = {}
                /\ \A m \in Using(t) : req'[m] = Idle
  <2>1. CASE req[n].template = t
    <3>1. \A m \in Using(t) : req'[m] = Idle
      BY <1>3, <2>1 DEF RemoveCommit, Using
    <3>2. ASSUME NEW p \in Products, Made(p)' PROVE product'[p].template # t
      <4>1. CASE p \in On(t)
        <5>1. product'[p] = [product[p] EXCEPT !.template = NoTemplate] /\ product[p] \in Product
          BY <1>0, <1>3, <2>1, <4>1 DEF RemoveCommit, On, Made, TypeInv
        <5> QED
          BY <5>1, TemplateAssumption DEF Product
      <4>2. CASE p \notin On(t)
        <5>1. product'[p] = product[p]
          BY <1>3, <2>1, <4>2 DEF RemoveCommit
        <5> QED
          BY <3>2, <4>2, <5>1 DEF On, Made
      <4> QED
        BY <4>1, <4>2
    <3> QED
      BY <3>1, <3>2 DEF On
  <2>2. CASE req[n].template # t
    BY <1>0, <1>3, <2>2 DEF RemoveCommit, Exists, TypeInv
  <2> QED
    BY <2>1, <2>2
<1>4. CASE UNCHANGED schema
  BY <1>4 DEF Exists
<1> QED
  BY <1>1, <1>2, <1>3, <1>4
     DEF Step, Commit, Remove, Patch, Make, Edit, Begin, MakeCommit, EditCommit, Fail

-----------------------------------------------------------------------------
(* The invariant.                                                          *)

LEMMA TypeStep == TemplateInv /\ Step => TypeInv'
<1> SUFFICES ASSUME TemplateInv, Step PROVE TypeInv'
  OBVIOUS
<1>0. TypeInv
  BY DEF TemplateInv
<1>1. \A n \in Sessions : req' \in [Sessions -> Request \cup {Idle}]
  BY <1>0, RequestStep
<1>2. req' \in [Sessions -> Request \cup {Idle}]
  BY <1>0, <1>1 DEF Step, CreateTemplate, TypeInv
<1>3. ASSUME NEW x \in Templates, NEW new \in Schema, CreateTemplate(x, new)
      PROVE  TypeInv'
  BY <1>0, <1>2, <1>3 DEF CreateTemplate, TypeInv
<1>4. ASSUME NEW n \in Sessions, PatchCommit(n)
      PROVE  TypeInv'
  BY <1>0, <1>2, <1>4, Fields DEF PatchCommit, TypeInv
<1>5. ASSUME NEW n \in Sessions, RemoveCommit(n)
      PROVE  TypeInv'
  <2>1. \A p \in On(req[n].template) : [product[p] EXCEPT !.template = NoTemplate] \in Product
    BY <1>0 DEF On, Made, TypeInv, Product
  <2> QED
    BY <1>0, <1>2, <1>5, <2>1 DEF RemoveCommit, TypeInv
<1>6. ASSUME NEW n \in Sessions, MakeCommit(n)
      PROVE  TypeInv'
  <2>1. [template |-> req[n].template, axes |-> req[n].axes] \in Product
    BY <1>0, <1>6, Fields DEF MakeCommit, Product
  <2> QED
    BY <1>0, <1>2, <1>6, <2>1 DEF MakeCommit, TypeInv
<1>7. ASSUME NEW n \in Sessions, EditCommit(n)
      PROVE  TypeInv'
  <2> DEFINE p == req[n].product
             row == [product[p] EXCEPT !.axes = req[n].axes]
  <2>1. p \in Products /\ req[n].axes \in AxisValues /\ product[p] \in Product
    BY <1>0, <1>7, Fields DEF EditCommit, TemplateInv, Loaded, Made, TypeInv
  <2>2. row \in Product
    BY <2>1 DEF Product
  <2>3. product' = [product EXCEPT ![p] = row] /\ schema' = schema
    BY <1>7 DEF EditCommit
  <2> HIDE DEF row
  <2> QED
    BY <1>0, <1>2, <2>2, <2>3 DEF TypeInv
<1>8. CASE UNCHANGED <<schema, product>>
  BY <1>0, <1>2, <1>8 DEF TypeInv
<1> QED
  BY <1>3, <1>4, <1>5, <1>6, <1>7, <1>8 DEF Step, Commit, Remove, Patch, Make, Edit, Begin, Fail

LEMMA LoadedStep ==
    ASSUME TemplateInv, Step, NEW m \in Sessions
    PROVE  Loaded(m)'
<1>0. TypeInv /\ Loaded(m)
  BY DEF TemplateInv
<1>1. CASE Reading(m)
  BY <1>1 DEF Reading, Loaded, Exists, Made
<1>2. CASE req'[m] = Idle
  BY <1>2 DEF Loaded, Idle
<1>3. CASE req'[m] = req[m] /\ req[m] # Idle
  <2> DEFINE q == req[m]
  <2>1. ASSUME q.op \in {"make", "patch", "remove"}, q.template # NoTemplate \/ q.op # "make"
        PROVE  Exists(q.template)'
    <3>1. q.template \in Templates /\ Exists(q.template) /\ m \in Using(q.template)
      BY <1>0, <2>1, Fields DEF Loaded, Using
    <3> QED
      BY <1>3, <3>1, TemplatesStay
  <2>2. ASSUME NEW p \in Products, q.op = "edit", p = q.product
        PROVE  Made(p)'
    <3>1. Made(p)
      BY <1>0, <2>2 DEF Loaded
    <3> QED
      BY <3>1, ProductsStay
  <2>3. q.op = "edit" => q.product \in Products
    BY <1>0, Fields DEF Loaded
  <2> QED
    BY <1>3, <2>1, <2>2, <2>3 DEF Loaded, Exists, Made
<1> QED
  BY <1>0, <1>1, <1>2, <1>3, RequestStep

\* What the histories say of a template that is there.
LEMMA NotRaced ==
    ASSUME Next, NEW t \in Templates, Exists(t)', t \notin raced'
    PROVE  t \notin raced /\ \A n \in Sessions : ~WritesLate(n, t)
BY DEF Next

LEMMA DescribedStep == TemplateInv /\ Next => VariantsAreDescribed'
<1> SUFFICES ASSUME TemplateInv, Next, NEW t \in Templates, NEW p \in Products,
                    Made(p)', product'[p].template = t
             PROVE  /\ Exists(t)'
                    /\ t \notin raced' => DOMAIN product'[p].axes \subseteq DOMAIN schema'[t]
  BY DEF VariantsAreDescribed, On
<1>0. TypeInv /\ Step
  BY DEF TemplateInv, Next
<1>1. CASE Made(p)
  <2>1. product[p].template = t
    BY <1>0, <1>1, ProductsStay, TemplateAssumption
  <2>2. p \in On(t) /\ Exists(t)
    BY <1>1, <2>1 DEF On, TemplateInv, VariantsAreDescribed
  <2>3. Exists(t)'
    BY <1>0, <2>2, TemplatesStay DEF On
  <2>4. ASSUME t \notin raced'
        PROVE  DOMAIN product'[p].axes \subseteq DOMAIN schema'[t]
    <3>1. t \notin raced /\ DOMAIN schema[t] \subseteq DOMAIN schema'[t]
      BY <1>0, <2>2, <2>3, <2>4, NotRaced, SchemaStays DEF Keeps
    <3>2. DOMAIN product[p].axes \subseteq DOMAIN schema[t]
      BY <2>2, <3>1 DEF TemplateInv, VariantsAreDescribed
    <3>3. ASSUME NEW n \in Sessions, EditCommit(n), req[n].product = p
          PROVE  DOMAIN req[n].axes \subseteq DOMAIN schema[t]
      BY <2>1, <3>1, <3>3 DEF EditCommit, TemplateInv, StillTrue
    <3>4. product'[p].template # NoTemplate
      BY TemplateAssumption
    <3> QED
      BY <1>0, <1>1, <3>1, <3>2, <3>3, <3>4, ProductsStay
  <2> QED
    BY <2>3, <2>4
<1>2. CASE ~Made(p)
  <2>1. PICK n \in Sessions :
           /\ MakeCommit(n) /\ schema' = schema
           /\ product'[p].template = req[n].template /\ product'[p].axes = req[n].axes
    BY <1>0, <1>2, NewProduct
  <2>2. req[n].op = "make" /\ req[n].template = t /\ t # NoTemplate
    BY <2>1, TemplateAssumption DEF MakeCommit
  <2>3. Exists(t) /\ Exists(t)'
    BY <2>1, <2>2 DEF TemplateInv, Loaded, Exists
  <2>4. ASSUME t \notin raced'
        PROVE  DOMAIN req[n].axes \subseteq DOMAIN schema[t]
    <3>1. n \notin overtaken
      BY <2>1, <2>2, <2>3, <2>4, NotRaced DEF WritesLate, Commit
    <3> QED
      BY <2>2, <3>1 DEF TemplateInv, StillTrue
  <2> QED
    BY <2>1, <2>3, <2>4
<1> QED
  BY <1>1, <1>2

LEMMA StillStep ==
    ASSUME TemplateInv, Next, NEW m \in Sessions
    PROVE  StillTrue(m)'
<1>0. TypeInv /\ Step /\ StillTrue(m) /\ Loaded(m)
  BY DEF TemplateInv, Next
<1>1. CASE Reading(m)
  BY <1>1 DEF Reading, StillTrue, On, Made
<1>2. CASE req'[m] = Idle
  BY <1>2 DEF StillTrue, Idle
<1>3. CASE req'[m] = req[m] /\ req[m] # Idle
  <2> DEFINE q == req[m]
             t == q.template
  <2>1. m \notin overtaken' => m \notin overtaken /\ ~Overtaking(m)
    BY <1>3 DEF Next
  <2>2. q.op = "make" /\ t # NoTemplate /\ m \notin overtaken' =>
           DOMAIN q.axes \subseteq DOMAIN schema'[t]
    BY <1>0, <2>1 DEF StillTrue, Overtaking
  <2>3. q.op = "patch" /\ m \notin overtaken' /\ On(t)' # {} => Keeps(schema'[t], q.to)
    <3>1. ASSUME q.op = "patch", m \notin overtaken', On(t)' # {}
          PROVE  schema'[t] = schema[t] /\ On(t) # {}
      <4>1. t # NoTemplate
        BY <1>0, <3>1, Fields, TemplateAssumption
      <4> QED
        BY <2>1, <3>1, <4>1 DEF Overtaking
    <3> QED
      BY <1>0, <2>1, <3>1 DEF StillTrue
  <2>4. q.op = "remove" /\ m \notin overtaken' => On(t)' = {}
    BY <1>0, <2>1 DEF StillTrue, Overtaking
  <2>5. ASSUME q.op = "edit", NEW x \in Templates \ raced', product'[q.product].template = x
        PROVE  DOMAIN q.axes \subseteq DOMAIN schema'[x]
    <3>1. q.product \in Products /\ Made(q.product) /\ x # NoTemplate
      BY <1>0, <2>5, Fields, TemplateAssumption DEF Loaded
    <3>2. product[q.product].template = x
      BY <1>0, <2>5, <3>1, ProductsStay
    <3>3. q.product \in On(x) /\ q.product \in On(x)'
      BY <1>0, <2>5, <3>1, <3>2, ProductsStay DEF On
    <3>4. Exists(x)'
      BY <3>3, DescribedStep DEF VariantsAreDescribed
    <3>5. x \notin raced /\ DOMAIN schema[x] \subseteq DOMAIN schema'[x]
      BY <1>0, <2>5, <3>3, <3>4, NotRaced, SchemaStays DEF Keeps
    <3> QED
      BY <1>0, <2>5, <3>2, <3>5 DEF StillTrue
  <2>6. /\ q.op = "make" /\ t # NoTemplate /\ m \notin overtaken' =>
              DOMAIN q.axes \subseteq DOMAIN schema'[t]
        /\ q.op = "patch" /\ m \notin overtaken' /\ (On(req[m].template))' # {} =>
              Keeps(schema'[t], q.to)
        /\ q.op = "remove" /\ m \notin overtaken' => (On(req[m].template))' = {}
    BY <1>3, <2>2, <2>3, <2>4 DEF On, Made
  <2> QED
    BY <1>3, <2>5, <2>6 DEF StillTrue, Keeps
<1> QED
  BY <1>0, <1>1, <1>2, <1>3, RequestStep

LEMMA TemplateStep == TemplateInv /\ [Next]_vars => TemplateInv'
<1>1. TemplateInv /\ Next => TemplateInv'
  BY TypeStep, DescribedStep, LoadedStep, StillStep DEF TemplateInv, Next
<1>2. TemplateInv /\ UNCHANGED vars => TemplateInv'
  BY DEF vars, TemplateInv, TypeInv, VariantsAreDescribed, On, Made, Exists, Loaded, StillTrue
<1> QED
  BY <1>1, <1>2

-----------------------------------------------------------------------------
(* Theorems.                                                               *)

\* Every product's template is there, and describes its variants unless a request
\* wrote it that had been overtaken: no other edit of a schema takes away a field
\* that a product uses (templates.py:118-123).
THEOREM VariantsDescribed == Spec => []VariantsAreDescribed
<1>1. TemplateInv => VariantsAreDescribed
  BY DEF TemplateInv
<1> QED
  BY <1>1, TemplateInit, TemplateStep, PTL DEF Spec

\* Products keep their template, and its fields their types, but for a write of a
\* request that has been overtaken.
THEOREM FieldsAreKept == Spec => FieldsStay
<1> DEFINE Kept == \A t \in Templates : On(t) # {} =>
                      \/ /\ On(t) \subseteq On(t)'
                         /\ Exists(t)'
                         /\ \A k \in DOMAIN schema[t] :
                               k \in DOMAIN schema'[t] /\ schema'[t][k].type = schema[t][k].type
                      \/ \E n \in Sessions : WritesLate(n, t)
<1>1. ASSUME TemplateInv, Next PROVE Kept
  <2> SUFFICES ASSUME NEW t \in Templates, On(t) # {}, \A n \in Sessions : ~WritesLate(n, t)
               PROVE  On(t) \subseteq On(t)' /\ Exists(t)' /\ Keeps(schema[t], schema'[t])
    BY DEF Keeps
  <2>1. Step
    BY <1>1 DEF Next
  <2>2. Exists(t)' /\ Keeps(schema[t], schema'[t])
    BY <1>1, <2>1, SchemaStays
  <2>3. ASSUME NEW p \in On(t) PROVE p \in On(t)'
    <3>1. p \in Products /\ Made(p) /\ product[p].template = t
      BY DEF On
    <3>2. ASSUME NEW n \in Sessions, RemoveCommit(n), req[n].template = t PROVE FALSE
      <4>1. n \notin overtaken
        BY <3>2 DEF WritesLate, Commit
      <4> QED
        BY <1>1, <3>2, <4>1 DEF RemoveCommit, TemplateInv, StillTrue
    <3>3. Made(p)' /\ product'[p].template = t
      BY <1>1, <2>1, <3>1, <3>2, ProductsStay
    <3> QED
      BY <3>1, <3>3 DEF On
  <2> QED
    BY <2>2, <2>3
<1>2. TemplateInv /\ [Next]_vars => [Kept]_vars
  BY <1>1
<1>3. FieldsStay <=> [][Kept]_vars
  BY DEF FieldsStay
<1> QED
  BY <1>2, <1>3, TemplateInit, TemplateStep, PTL DEF Spec
=============================================================================
