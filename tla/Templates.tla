----------------------------- MODULE Templates -----------------------------
(***************************************************************************)
(* The templates of a shop and the products made from them:                *)
(* app/services/templates.py, and what app/services/catalog.py asks of a   *)
(* template.  A request reads the template and counts its products, then   *)
(* writes, without a lock: any other request may run in between.           *)
(* overtaken records for which requests something has changed that they    *)
(* had looked at, and raced which templates such a request has written:    *)
(* the properties are about the others.                                    *)
(*                                                                         *)
(* A schema is a function from the keys of its fields: the two lists of    *)
(* field_schema with no key twice, which is what validate_field_schema()   *)
(* demands.  Labels are left out, of the options only their set is kept.   *)
(***************************************************************************)
EXTENDS FiniteSets

CONSTANTS
    Templates,   \* bound: ids of custom templates
    NoTemplate,  \* template_id is NULL
    NoSchema,    \* no row in product_templates
    NoProduct,   \* no row in products
    Keys,
    Values,      \* of axes
    Products,    \* bound: ids of products
    Sessions

ASSUME TemplateAssumption == NoTemplate \notin Templates

VARIABLES
    schema,     \* per template, its fields
    product,    \* per product, its template and the axis values of a variant
    req,        \* per session, what the request read and is about to write
    overtaken,  \* history: the requests for which the answer has changed since
    raced       \* history: the templates that a request of overtaken has written

vars == <<schema, product, req, overtaken, raced>>

Idle == [op |-> "idle"]

Field == [part : {"attributes", "variant_axes"}, type : {"enum", "string"},
          options : SUBSET Values]
Schema == UNION {[K -> Field] : K \in SUBSET Keys}
AxisValues == UNION {[K -> Values] : K \in SUBSET Keys}
Product == [template : Templates \cup {NoTemplate}, axes : AxisValues]
Request ==
    [op : {"make"}, template : Templates \cup {NoTemplate}, axes : AxisValues]
        \cup [op : {"patch"}, template : Templates, to : Schema]
        \cup [op : {"remove"}, template : Templates]
        \cup [op : {"edit"}, product : Products, axes : AxisValues]

ASSUME RowAssumption == NoSchema \notin Schema /\ NoProduct \notin Product

\* An enum needs options; what a string says of options is dropped here.
validate_field_schema(new) ==
    \A k \in DOMAIN new : new[k].type = "enum" <=> new[k].options # {}

Exists(t) == schema[t] # NoSchema
Made(p) == product[p] # NoProduct
On(t) == {p \in Products : Made(p) /\ product[p].template = t}

\* _validate_axis_values(): the axes of the template, no more and no less, an enum
\* only with its options.
AxesOf(t) == IF t = NoTemplate THEN {}
             ELSE {k \in DOMAIN schema[t] : schema[t][k].part = "variant_axes"}
\* A slip: only the missing axes are looked for.
FitsAlmost(axes, t) ==
    /\ AxesOf(t) \subseteq DOMAIN axes
    /\ \A k \in AxesOf(t) : schema[t][k].type = "enum" => axes[k] \in schema[t][k].options

Fits(axes, t) ==
    /\ DOMAIN axes = AxesOf(t)
    /\ \A k \in AxesOf(t) : schema[t][k].type = "enum" => axes[k] \in schema[t][k].options

Init ==
    /\ schema = [t \in Templates |-> NoSchema]
    /\ product = [p \in Products |-> NoProduct]
    /\ req = [n \in Sessions |-> Idle]
    /\ overtaken = {}
    /\ raced = {}

Begin(n, q) ==
    /\ req[n] = Idle
    /\ req' = [req EXCEPT ![n] = q]
    /\ UNCHANGED <<schema, product>>

Ended(n) == req' = [req EXCEPT ![n] = Idle]

-----------------------------------------------------------------------------

CreateTemplate(t, new) ==
    /\ ~Exists(t)
    /\ validate_field_schema(new)
    /\ schema' = [schema EXCEPT ![t] = new]
    /\ UNCHANGED <<product, req>>

\* A slip: only the keys are compared.
KeepsKeys(old, new) == DOMAIN old \subseteq DOMAIN new

\* With products on it, archived ones too, a template loses no key and no key
\* changes its type.  Keys may move between the two lists, options may go.
Keeps(old, new) ==
    \A k \in DOMAIN old : k \in DOMAIN new /\ new[k].type = old[k].type

\* A schema equal to the one loaded is not written.
Patch(n, t, new) ==
    /\ Exists(t) /\ new # schema[t]
    /\ validate_field_schema(new)
    /\ On(t) # {} => Keeps(schema[t], new)
    /\ Begin(n, [op |-> "patch", template |-> t, to |-> new])

PatchCommit(n) ==
    LET q == req[n]
    IN  /\ q.op = "patch"
        /\ schema' = [schema EXCEPT ![q.template] = q.to]
        /\ Ended(n)
        /\ UNCHANGED product

Remove(n, t) ==
    /\ Exists(t) /\ On(t) = {}
    /\ Begin(n, [op |-> "remove", template |-> t])

\* The requests that will write, or refer to, the row of the template.
Using(t) == {n \in Sessions : req[n].op \in {"make", "patch", "remove"} /\ req[n].template = t}

\* ON DELETE SET NULL for a product made meanwhile; the foreign key refuses one
\* that is made later, and an UPDATE or a DELETE finds no row.
RemoveCommit(n) ==
    LET t == req[n].template
    IN  /\ req[n].op = "remove"
        /\ schema' = [schema EXCEPT ![t] = NoSchema]
        /\ product' = [p \in Products |->
               IF p \in On(t) THEN [product[p] EXCEPT !.template = NoTemplate] ELSE product[p]]
        /\ req' = [m \in Sessions |-> IF m \in Using(t) THEN Idle ELSE req[m]]

Make(n, t, axes) ==
    /\ t # NoTemplate => Exists(t)
    /\ Fits(axes, t)
    /\ Begin(n, [op |-> "make", template |-> t, axes |-> axes])

MakeCommit(n) ==
    LET q == req[n]
    IN  /\ q.op = "make"
        /\ \E p \in Products :
              /\ ~Made(p)
              /\ product' = [product EXCEPT ![p] = [template |-> q.template, axes |-> q.axes]]
        /\ Ended(n)
        /\ UNCHANGED schema

\* patch_variant() with axis_values, and the axes of one more variant.
Edit(n, p, axes) ==
    /\ Made(p)
    /\ Fits(axes, product[p].template)
    /\ Begin(n, [op |-> "edit", product |-> p, axes |-> axes])

EditCommit(n) ==
    LET q == req[n]
    IN  /\ q.op = "edit"
        /\ product' = [product EXCEPT ![q.product].axes = q.axes]
        /\ Ended(n)
        /\ UNCHANGED schema

Fail(n) ==
    /\ req[n] # Idle
    /\ Ended(n)
    /\ UNCHANGED <<schema, product>>

Commit(n) ==
    \/ PatchCommit(n)
    \/ RemoveCommit(n)
    \/ MakeCommit(n)
    \/ EditCommit(n)

Step ==
    \/ \E t \in Templates, new \in Schema : CreateTemplate(t, new)
    \/ \E n \in Sessions :
          \/ \E t \in Templates : Remove(n, t) \/ \E new \in Schema : Patch(n, t, new)
          \/ \E axes \in AxisValues :
                \/ \E t \in Templates \cup {NoTemplate} : Make(n, t, axes)
                \/ \E p \in Products : Edit(n, p, axes)
          \/ Commit(n)
          \/ Fail(n)

\* This step changes what the request of the session has looked at: a product
\* that is made, and an edit of the schema, the fields; that edit and a removal,
\* whether there is a product.
Overtaking(n) ==
    LET q == req[n]
        t == q.template
    IN  \/ q.op \in {"make", "patch"} /\ t # NoTemplate /\ schema'[t] # schema[t]
        \/ q.op \in {"patch", "remove"} /\ On(t) = {} /\ On(t)' # {}

WritesLate(n, t) == n \in overtaken /\ Commit(n) /\ req[n].template = t

Next ==
    /\ Step
    /\ overtaken' = {n \in Sessions : req[n] # Idle /\ req'[n] = req[n]
                                      /\ (n \in overtaken \/ Overtaking(n))}
    /\ raced' = {t \in Templates : Exists(t)' /\
                    (t \in raced \/ \E n \in Sessions : WritesLate(n, t))}

Spec == Init /\ [][Next]_vars

-----------------------------------------------------------------------------

TypeOK ==
    /\ schema \in [Templates -> Schema \cup {NoSchema}]
    /\ \A t \in Templates : Exists(t) =>
          \A k \in DOMAIN schema[t] : schema[t][k].type = "enum" => schema[t][k].options # {}
    /\ product \in [Products -> Product \cup {NoProduct}]
    /\ req \in [Sessions -> Request \cup {Idle}]
    /\ overtaken \subseteq Sessions
    /\ raced \subseteq Templates

\* What a variant says of itself is described by the template, also after any
\* number of edits of both that overlap each other: patch_custom_template()
\* validates the fields and never looks at the values, patch_variant() the values
\* and never at other requests.  The exception are the templates that a request
\* wrote, or made a product from, which had been overtaken: by another edit of
\* the schema, or by the first product.
VariantsAreDescribed ==
    \A t \in Templates : \A p \in On(t) :
        Exists(t) /\ (t \notin raced => DOMAIN product[p].axes \subseteq DOMAIN schema[t])

\* A product keeps its template, and the fields of that keep their types: what
\* count_products_for_template() is asked for (templates.py:118-123).  Only a
\* request that was overtaken takes them: an edit of the schema by another one, an
\* edit or a removal by the first product.
FieldsStay ==
    [][\A t \in Templates : On(t) # {} =>
         \/ /\ On(t) \subseteq On(t)'
            /\ Exists(t)'
            /\ \A k \in DOMAIN schema[t] :
                  k \in DOMAIN schema'[t] /\ schema'[t][k].type = schema[t][k].type
         \/ \E n \in Sessions : WritesLate(n, t)]_vars
=============================================================================
