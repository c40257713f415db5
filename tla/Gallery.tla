------------------------------ MODULE Gallery ------------------------------
(***************************************************************************)
(* The photos of products and variants: the endpoints of                   *)
(* app/api/catalog.py for them and app/services/media.py.  The rows are in *)
(* the database, the files in an object store (R2), and no transaction     *)
(* spans the two: each request is a sequence of steps that any other       *)
(* request, or the death of the process, may come between.                 *)
(*                                                                         *)
(* A file has a fresh random key; a photo is named by its file, as no two  *)
(* rows share one.                                                         *)
(***************************************************************************)
EXTENDS Naturals, FiniteSets

CONSTANTS
    Products,   \* with a gallery each
    Variants,   \* with one photo each
    NoOwner,
    Files,      \* bound: files ever
    MaxPhotos,  \* of a gallery, 10 in the code
    Sessions

Owners == Products \cup Variants

ASSUME OwnerAssumption == NoOwner \notin Owners /\ Products \cap Variants = {}
ASSUME PhotoAssumption ==
    /\ IsFiniteSet(Files) /\ IsFiniteSet(Sessions)
    /\ MaxPhotos \in Nat \ {0}

VARIABLES
    owner,    \* per file, the product or variant whose row names it
    pos,      \* per file, the position of the row
    stored,   \* the files in the store
    fresh,    \* the keys not used yet
    allowed,  \* whether the plan has photos
    req,      \* per session
    asked     \* history: the files that somebody wanted deleted

vars == <<owner, pos, stored, fresh, allowed, req, asked>>

Idle == [op |-> "idle"]

\* A request to upload is in front of the put, of the look at the positions, or
\* of the insert; one to delete is in front of the store, or of the commit.
Request ==
    [op : {"put"}, owner : Owners, before : SUBSET Files]
        \cup [op : {"place", "save"}, owner : Owners, before : SUBSET Files,
              file : Files, pos : Nat]
        \cup [op : {"unstore", "delete"}, owner : Owners, file : Files]
        \cup [op : {"unlinked"}, file : Files]

PhotosOf(o) == {f \in Files : owner[f] = o}
Uploads(o) == {n \in Sessions : req[n].op \in {"put", "place", "save"} /\ req[n].owner = o}

Init ==
    /\ owner = [f \in Files |-> NoOwner]
    /\ pos = [f \in Files |-> 0]
    /\ stored = {}
    /\ fresh = Files
    /\ allowed = TRUE
    /\ req = [n \in Sessions |-> Idle]
    /\ asked = {}

Become(n, q) == req' = [req EXCEPT ![n] = q]

-----------------------------------------------------------------------------

\* Slip: one more than the limit passes.
UploadEleventh(n, o) ==
    /\ req[n] = Idle
    /\ allowed
    /\ o \in Products => Cardinality(PhotosOf(o)) <= MaxPhotos
    /\ Become(n, [op |-> "put", owner |-> o, before |-> PhotosOf(o)])
    /\ UNCHANGED <<owner, pos, stored, fresh, allowed, asked>>

\* The plan, and for a product the number of its photos, come first.
Upload(n, o) ==
    /\ req[n] = Idle
    /\ allowed
    /\ o \in Products => Cardinality(PhotosOf(o)) < MaxPhotos
    /\ Become(n, [op |-> "put", owner |-> o, before |-> PhotosOf(o)])
    /\ UNCHANGED <<owner, pos, stored, fresh, allowed, asked>>

\* Slip: errors of the store are swallowed, as delete_photo() does.
PutAtBest(n, f) ==
    LET q == req[n]
    IN  /\ q.op = "put"
        /\ f \in fresh
        /\ fresh' = fresh \ {f}
        /\ stored' \in {stored, stored \cup {f}}
        /\ Become(n, [op |-> IF q.owner \in Products THEN "place" ELSE "save",
                      owner |-> q.owner, before |-> q.before, file |-> f, pos |-> 0])
        /\ UNCHANGED <<owner, pos, allowed, asked>>

\* The body is read, checked and compressed, and put under a new key.
Put(n, f) ==
    LET q == req[n]
    IN  /\ q.op = "put"
        /\ f \in fresh
        /\ fresh' = fresh \ {f}
        /\ stored' = stored \cup {f}
        /\ Become(n, [op |-> IF q.owner \in Products THEN "place" ELSE "save",
                      owner |-> q.owner, before |-> q.before, file |-> f, pos |-> 0])
        /\ UNCHANGED <<owner, pos, allowed, asked>>

\* Slip: the number of photos for the next position.
CountPosition(o) == Cardinality(PhotosOf(o))

\* After the last one.
NextPosition(o) ==
    IF PhotosOf(o) = {} THEN 0
    ELSE (CHOOSE i \in {pos[f] : f \in PhotosOf(o)} : \A f \in PhotosOf(o) : pos[f] <= i) + 1

Place(n) ==
    /\ req[n].op = "place"
    /\ req' = [req EXCEPT ![n].op = "save", ![n].pos = NextPosition(req[n].owner)]
    /\ UNCHANGED <<owner, pos, stored, fresh, allowed, asked>>

\* The photo of a variant takes the place of the one before, whose file stays.
Save(n) ==
    LET q == req[n]
    IN  /\ q.op = "save"
        /\ owner' = [f \in Files |->
               IF f = q.file THEN q.owner
               ELSE IF q.owner \in Variants /\ owner[f] = q.owner THEN NoOwner ELSE owner[f]]
        /\ pos' = [pos EXCEPT ![q.file] = q.pos]
        /\ Become(n, Idle)
        /\ UNCHANGED <<stored, fresh, allowed, asked>>

\* delete_product_photo() goes to the store first.
Delete(n, f) ==
    /\ req[n] = Idle
    /\ owner[f] \in Products
    /\ Become(n, [op |-> "unstore", owner |-> owner[f], file |-> f])
    /\ asked' = asked \cup {f}
    /\ UNCHANGED <<owner, pos, stored, fresh, allowed>>

\* delete_photo() does its best and swallows every error.
Unstore(n) ==
    /\ req[n].op = "unstore"
    /\ \/ stored' = stored \ {req[n].file}
       \/ UNCHANGED stored
    /\ req' = [req EXCEPT ![n].op = "delete"]
    /\ UNCHANGED <<owner, pos, fresh, allowed, asked>>

\* The row may be gone by then, by a second request to delete it.
DeleteRow(n) ==
    /\ req[n].op = "delete"
    /\ owner' = [owner EXCEPT ![req[n].file] = NoOwner]
    /\ Become(n, Idle)
    /\ UNCHANGED <<pos, stored, fresh, allowed, asked>>

\* delete_variant() deletes the row first, with its photo_url, and the file then;
\* an upload for that variant finds no row to put its url in.
DropVariantPhoto(n, f) ==
    /\ req[n] = Idle
    /\ owner[f] \in Variants
    /\ owner' = [owner EXCEPT ![f] = NoOwner]
    /\ asked' = asked \cup {f}
    /\ req' = [m \in Sessions |->
           IF m = n THEN [op |-> "unlinked", file |-> f]
           ELSE IF m \in Uploads(owner[f]) THEN Idle ELSE req[m]]
    /\ UNCHANGED <<pos, stored, fresh, allowed>>

DropFile(n) ==
    /\ req[n].op = "unlinked"
    /\ \/ stored' = stored \ {req[n].file}
       \/ UNCHANGED stored
    /\ Become(n, Idle)
    /\ UNCHANGED <<owner, pos, fresh, allowed, asked>>

\* clear_demo_catalog(): the rows go with their product, the files stay.
ClearDemo(p) ==
    /\ PhotosOf(p) # {}
    /\ owner' = [f \in Files |-> IF owner[f] = p THEN NoOwner ELSE owner[f]]
    /\ req' = [m \in Sessions |-> IF m \in Uploads(p) THEN Idle ELSE req[m]]
    /\ UNCHANGED <<pos, stored, fresh, allowed, asked>>

\* The request is refused for its body, the store or the process fails.
Die(n) ==
    /\ req[n] # Idle
    /\ Become(n, Idle)
    /\ UNCHANGED <<owner, pos, stored, fresh, allowed, asked>>

PlanMoves ==
    /\ allowed' = ~allowed
    /\ UNCHANGED <<owner, pos, stored, fresh, req, asked>>

Next ==
    \/ \E n \in Sessions :
          \/ \E o \in Owners : Upload(n, o)
          \/ \E f \in Files : Put(n, f) \/ Delete(n, f) \/ DropVariantPhoto(n, f)
          \/ Place(n)
          \/ Save(n)
          \/ Unstore(n)
          \/ DeleteRow(n)
          \/ DropFile(n)
          \/ Die(n)
    \/ \E p \in Products : ClearDemo(p)
    \/ PlanMoves

Spec == Init /\ [][Next]_vars

-----------------------------------------------------------------------------

TypeOK ==
    /\ owner \in [Files -> Owners \cup {NoOwner}]
    /\ pos \in [Files -> Nat]
    /\ stored \subseteq Files /\ fresh \subseteq Files /\ asked \subseteq Files
    /\ allowed \in BOOLEAN
    /\ req \in [Sessions -> Request \cup {Idle}]

\* No picture is missing in the catalogue, unless somebody asked for its
\* deletion: whatever fails between the store and the database costs a file
\* that nobody names, never a name without a file.
RowsHaveFiles == \A f \in Files : owner[f] # NoOwner => f \in stored \/ f \in asked

\* The photos are counted long before the insert (models.py:371 promises ten of
\* them): each upload in flight may add one, and no more than that.
AlmostTen ==
    \A p \in Products :
        Cardinality(PhotosOf(p)) + Cardinality(Uploads(p)) < MaxPhotos + Cardinality(Sessions)

\* A photo comes after those that were in the gallery when its upload began,
\* whatever was deleted or uploaded meanwhile.
GalleryOrder ==
    [][\A n \in Sessions :
         req[n].op = "save" /\ Save(n) /\ req[n].owner \in Products =>
            \A f \in req[n].before \cap PhotosOf(req[n].owner) :
                pos'[f] < pos'[req[n].file]]_vars

\* models.py:371 and the answer 409 of upload_product_photo() (catalog.py:376-379).
TenAtMost == \A p \in Products : Cardinality(PhotosOf(p)) <= MaxPhotos
=============================================================================
