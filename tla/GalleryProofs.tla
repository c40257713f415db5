---------------------------- MODULE GalleryProofs ----------------------------
(***************************************************************************)
(* Proofs about Gallery, for any number of products, files and sessions.   *)
(***************************************************************************)
EXTENDS Gallery, FiniteSetTheorems, WellFoundedInduction, TLAPS

-----------------------------------------------------------------------------

\* A bounded set of numbers has a greatest one.
LEMMA GreatestExists ==
    ASSUME NEW T \in SUBSET Nat, T # {}, NEW B \in Nat, \A i \in T : i <= B
    PROVE  \E m \in T : \A i \in T : i <= m
<1> DEFINE D == {d \in Nat : B - d \in T}
           Less == OpToRel(<, Nat)
<1>1. D \subseteq Nat /\ D # {}
  <2>1. PICK i \in T : TRUE
    OBVIOUS
  <2>2. B - i \in D
    BY <2>1
  <2> QED
    BY <2>2
<1>2. IsWellFoundedOn(Less, Nat)
  BY NatLessThanWellFounded
<1>3. PICK d \in D : \A e \in D : <<e, d>> \notin Less
  <2> HIDE DEF D, Less
  <2> QED
    BY <1>1, <1>2, WFMin, Zenon
<1>4. \A e \in D : ~(e < d)
  BY <1>1, <1>3 DEF OpToRel
<1>5. \A i \in T : i <= B - d
  <2> TAKE i \in T
  <2>1. i \in Nat /\ i <= B
    OBVIOUS
  <2>2. B - i \in D
    BY <2>1
  <2>3. ~(B - i < d)
    BY <2>2, <1>4
  <2> QED
    BY <2>1, <2>3
<1> QED
  BY <1>5

\* The positions have an upper bound.
Bounded == \E B \in Nat : \A f \in Files : pos[f] <= B

\* The next position is one after all those of the gallery.
LEMMA NextIsLast ==
    ASSUME TypeOK, Bounded, NEW o
    PROVE  /\ NextPosition(o) \in Nat
           /\ \A f \in PhotosOf(o) : pos[f] < NextPosition(o)
<1>1. CASE PhotosOf(o) = {}
  BY <1>1 DEF NextPosition
<1>2. CASE PhotosOf(o) # {}
  <2> DEFINE T == {pos[f] : f \in PhotosOf(o)}
             Last(i) == \A f \in PhotosOf(o) : pos[f] <= i
  <2>1. T \in SUBSET Nat /\ T # {}
    BY <1>2 DEF TypeOK, PhotosOf
  <2>2. PICK B \in Nat : \A i \in T : i <= B
    BY DEF Bounded, PhotosOf
  <2>3. \E m \in T : \A i \in T : i <= m
    <3> HIDE DEF T
    <3> QED
      BY <2>1, <2>2, GreatestExists
  <2>4. \E i \in T : Last(i)
    BY <2>3
  <2>5. \E m \in T : Last(m) /\ NextPosition(o) = m + 1
    <3>1. NextPosition(o) = (CHOOSE i \in T : Last(i)) + 1
      BY <1>2 DEF NextPosition
    <3> HIDE DEF T, Last
    <3> QED
      BY <2>4, <3>1, Zenon
  <2>6. PICK m \in T : Last(m) /\ NextPosition(o) = m + 1
    BY <2>5
  <2>7. m \in Nat /\ \A f \in PhotosOf(o) : pos[f] \in Nat
    BY <2>1, <2>6 DEF TypeOK, PhotosOf
  <2> HIDE DEF T
  <2> QED
    BY <2>6, <2>7
<1> QED
  BY <1>1, <1>2

-----------------------------------------------------------------------------

LEMMA TypeInit == Init => TypeOK /\ Bounded
<1> SUFFICES ASSUME Init PROVE TypeOK /\ Bounded
  OBVIOUS
<1>1. \A f \in Files : pos[f] <= 0
  BY DEF Init
<1> QED
  BY <1>1 DEF Init, TypeOK, Bounded

LEMMA TypeStep ==
    ASSUME TypeOK, Bounded, Next
    PROVE  TypeOK'
<1> USE DEF TypeOK, Request, Idle, Become, Owners
<1>1. ASSUME NEW n \in Sessions, NEW o \in Owners, Upload(n, o)
      PROVE  TypeOK'
  <2>1. PhotosOf(o) \in SUBSET Files
    BY DEF PhotosOf
  <2> QED
    BY <1>1, <2>1 DEF Upload
<1>2. ASSUME NEW n \in Sessions, NEW f \in Files, Put(n, f)
      PROVE  TypeOK'
  <2>1. req[n] \in [op : {"put"}, owner : Owners, before : SUBSET Files]
    BY <1>2 DEF Put
  <2> QED
    BY <1>2, <2>1 DEF Put
<1>3. ASSUME NEW n \in Sessions, Place(n)
      PROVE  TypeOK'
  <2>1. req[n] \in [op : {"place", "save"}, owner : Owners, before : SUBSET Files,
                    file : Files, pos : Nat]
    BY <1>3 DEF Place
  <2>2. NextPosition(req[n].owner) \in Nat
    BY NextIsLast
  <2> QED
    BY <1>3, <2>1, <2>2 DEF Place
<1>4. ASSUME NEW n \in Sessions, Save(n)
      PROVE  TypeOK'
  <2>1. req[n] \in [op : {"place", "save"}, owner : Owners, before : SUBSET Files,
                    file : Files, pos : Nat]
    BY <1>4 DEF Save
  <2> QED
    BY <1>4, <2>1 DEF Save
<1>5. ASSUME NEW n \in Sessions, NEW f \in Files, Delete(n, f) \/ DropVariantPhoto(n, f)
      PROVE  TypeOK'
  BY <1>5 DEF Delete, DropVariantPhoto
<1>6. ASSUME NEW n \in Sessions, Unstore(n) \/ DeleteRow(n) \/ DropFile(n) \/ Die(n)
      PROVE  TypeOK'
  <2>1. CASE Unstore(n)
    BY <2>1 DEF Unstore
  <2>2. CASE DeleteRow(n)
    BY <2>2 DEF DeleteRow
  <2>3. CASE DropFile(n)
    BY <2>3 DEF DropFile
  <2>4. CASE Die(n)
    BY <2>4 DEF Die
  <2> QED
    BY <1>6, <2>1, <2>2, <2>3, <2>4
<1>7. ASSUME NEW p \in Products, ClearDemo(p)
      PROVE  TypeOK'
  BY <1>7 DEF ClearDemo
<1>8. ASSUME PlanMoves
      PROVE  TypeOK'
  BY <1>8 DEF PlanMoves
<1> QED
  BY <1>1, <1>2, <1>3, <1>4, <1>5, <1>6, <1>7, <1>8 DEF Next

\* A position is either an old one or the one of the request that saves it.
LEMMA BoundedStep ==
    ASSUME TypeOK, Bounded, Next
    PROVE  Bounded'
<1>1. PICK B \in Nat : \A f \in Files : pos[f] <= B
  BY DEF Bounded
<1>2. CASE pos' = pos
  BY <1>1, <1>2 DEF Bounded
<1>3. ASSUME NEW n \in Sessions, Save(n)
      PROVE  Bounded'
  <2>1. req[n].pos \in Nat
    BY <1>3 DEF Save, TypeOK, Request, Idle
  <2> DEFINE C == B + req[n].pos
  <2>2. C \in Nat /\ \A f \in Files : pos'[f] <= C
    BY <1>1, <1>3, <2>1 DEF Save, TypeOK
  <2> QED
    BY <2>2 DEF Bounded
<1>4. pos' = pos \/ \E n \in Sessions : Save(n)
  BY DEF Next, Upload, Put, Delete, DropVariantPhoto, Place, Unstore, DeleteRow, DropFile,
         Die, ClearDemo, PlanMoves
<1> QED
  BY <1>2, <1>3, <1>4

\* The state keeps its types.
THEOREM Typed == Spec => [](TypeOK /\ Bounded)
<1>1. TypeOK /\ Bounded /\ UNCHANGED vars => (TypeOK /\ Bounded)'
  BY DEF vars, TypeOK, Bounded
<1> QED
  BY <1>1, TypeInit, TypeStep, BoundedStep, PTL DEF Spec

-----------------------------------------------------------------------------

(* A file of a row is in the store, or its deletion was asked for; so is the *)
(* file of a request that is about to write a row, and every file that a    *)
(* request takes from the store was asked for.                              *)

Kept(f) == f \in stored \/ f \in asked

Linking(n) == req[n].op \in {"place", "save"}
Dropping(n) == req[n].op \in {"unstore", "delete", "unlinked"}

Linked ==
    /\ RowsHaveFiles
    /\ \A n \in Sessions : /\ Linking(n) => Kept(req[n].file)
                           /\ Dropping(n) => req[n].file \in asked

LEMMA LinkedStep ==
    ASSUME TypeOK, Linked, Next
    PROVE  Linked'
<1> USE DEF Linked, RowsHaveFiles, Kept, Linking, Dropping, TypeOK, Request, Idle, Become
<1>1. ASSUME NEW n \in Sessions, NEW o \in Owners, Upload(n, o)
      PROVE  Linked'
  BY <1>1 DEF Upload
<1>2. ASSUME NEW n \in Sessions, NEW f \in Files, Put(n, f)
      PROVE  Linked'
  BY <1>2 DEF Put
<1>3. ASSUME NEW n \in Sessions, Place(n)
      PROVE  Linked'
  BY <1>3 DEF Place
<1>4. ASSUME NEW n \in Sessions, Save(n)
      PROVE  Linked'
  BY <1>4 DEF Save
<1>5. ASSUME NEW n \in Sessions, NEW f \in Files, Delete(n, f)
      PROVE  Linked'
  BY <1>5 DEF Delete
<1>6. ASSUME NEW n \in Sessions, NEW f \in Files, DropVariantPhoto(n, f)
      PROVE  Linked'
  BY <1>6 DEF DropVariantPhoto
<1>7. ASSUME NEW n \in Sessions, Unstore(n)
      PROVE  Linked'
  BY <1>7 DEF Unstore
<1>8. ASSUME NEW n \in Sessions, DeleteRow(n)
      PROVE  Linked'
  BY <1>8 DEF DeleteRow
<1>9. ASSUME NEW n \in Sessions, DropFile(n)
      PROVE  Linked'
  BY <1>9 DEF DropFile
<1>10. ASSUME NEW n \in Sessions, Die(n)
       PROVE  Linked'
  BY <1>10 DEF Die
<1>11. ASSUME NEW p \in Products, ClearDemo(p)
       PROVE  Linked'
  BY <1>11 DEF ClearDemo
<1>12. CASE PlanMoves
  BY <1>12 DEF PlanMoves
<1> QED
  BY <1>1, <1>2, <1>3, <1>4, <1>5, <1>6, <1>7, <1>8, <1>9, <1>10, <1>11, <1>12 DEF Next

\* No picture is missing that nobody asked to delete, whatever fails between the
\* store and the database.
THEOREM PicturesStay == Spec => []RowsHaveFiles
<1>1. Init => Linked
  BY DEF Init, Linked, RowsHaveFiles, Linking, Dropping, Idle
<1>2. Linked /\ UNCHANGED vars => Linked'
  BY DEF vars, Linked, RowsHaveFiles, Kept, Linking, Dropping
<1>3. Linked => RowsHaveFiles
  BY DEF Linked
<1> QED
  BY <1>1, <1>2, <1>3, LinkedStep, Typed, PTL DEF Spec

-----------------------------------------------------------------------------

(* The keys are fresh and random: what one request is about to link no row *)
(* has, no other request, and none that was there before.                  *)

Uploading(n) == req[n].op \in {"put", "place", "save"}

Unclaimed ==
    /\ \A f \in fresh : owner[f] = NoOwner
    /\ \A n \in Sessions : Linking(n) =>
          /\ req[n].file \notin fresh
          /\ owner[req[n].file] = NoOwner
          /\ \A m \in Sessions : Linking(m) /\ m # n => req[m].file # req[n].file
    /\ \A n \in Sessions : Uploading(n) =>
          /\ req[n].before \cap fresh = {}
          /\ \A m \in Sessions : Linking(m) => req[m].file \notin req[n].before

\* The position chosen is after those of the photos that were there.
Ahead(n) ==
    req[n].op = "save" /\ req[n].owner \in Products =>
        \A f \in req[n].before \cap PhotosOf(req[n].owner) : pos[f] < req[n].pos
Ordered == \A n \in Sessions : Ahead(n)

LEMMA UnclaimedStep ==
    ASSUME TypeOK, Unclaimed, Next
    PROVE  Unclaimed'
<1> USE DEF Unclaimed, Linking, Uploading, TypeOK, Request, Idle, Become
<1>1. ASSUME NEW n \in Sessions, NEW o \in Owners, Upload(n, o)
      PROVE  Unclaimed'
  BY <1>1, OwnerAssumption DEF Upload, PhotosOf
<1>2. ASSUME NEW n \in Sessions, NEW f \in Files, Put(n, f)
      PROVE  Unclaimed'
  BY <1>2 DEF Put
<1>3. ASSUME NEW n \in Sessions, Place(n)
      PROVE  Unclaimed'
  BY <1>3 DEF Place
<1>4. ASSUME NEW n \in Sessions, Save(n)
      PROVE  Unclaimed'
  BY <1>4 DEF Save
<1>5. ASSUME NEW n \in Sessions, NEW f \in Files, Delete(n, f)
      PROVE  Unclaimed'
  BY <1>5 DEF Delete
<1>6. ASSUME NEW n \in Sessions, NEW f \in Files, DropVariantPhoto(n, f)
      PROVE  Unclaimed'
  BY <1>6 DEF DropVariantPhoto
<1>7. ASSUME NEW n \in Sessions, Unstore(n) \/ DropFile(n) \/ Die(n)
      PROVE  Unclaimed'
  BY <1>7 DEF Unstore, DropFile, Die
<1>8. ASSUME NEW n \in Sessions, DeleteRow(n)
      PROVE  Unclaimed'
  BY <1>8 DEF DeleteRow
<1>9. ASSUME NEW p \in Products, ClearDemo(p)
      PROVE  Unclaimed'
  BY <1>9 DEF ClearDemo
<1>10. CASE PlanMoves
  BY <1>10 DEF PlanMoves
<1> QED
  BY <1>1, <1>2, <1>3, <1>4, <1>5, <1>6, <1>7, <1>8, <1>9, <1>10 DEF Next

LEMMA OrderedStep ==
    ASSUME TypeOK, Bounded, Unclaimed, Ordered, Next
    PROVE  Ordered'
<1> SUFFICES ASSUME NEW k \in Sessions, req'[k].op = "save", req'[k].owner \in Products,
                    NEW f \in Files, f \in req'[k].before, owner'[f] = req'[k].owner
             PROVE  pos'[f] < req'[k].pos
  BY DEF Ordered, Ahead, PhotosOf
<1> USE DEF TypeOK, Request, Idle, Become
<1>1. ASSUME req'[k] = req[k], pos'[f] = pos[f], owner'[f] = owner[f]
      PROVE  pos'[f] < req'[k].pos
  BY <1>1 DEF Ordered, Ahead, PhotosOf
<1>2. ASSUME req'[k] = req[k], UNCHANGED pos, owner'[f] \in {owner[f], NoOwner}
      PROVE  pos'[f] < req'[k].pos
  BY <1>1, <1>2, OwnerAssumption DEF PhotosOf, Owners
<1>3. ASSUME NEW n \in Sessions, NEW o \in Owners, Upload(n, o)
      PROVE  req'[k] = req[k] /\ UNCHANGED <<pos, owner>>
  BY <1>3 DEF Upload
<1>4. ASSUME NEW n \in Sessions, NEW g \in Files, Put(n, g), req[n].owner \in Products \/ k # n
      PROVE  req'[k] = req[k] /\ UNCHANGED <<pos, owner>>
  BY <1>4 DEF Put
<1>5. ASSUME NEW n \in Sessions, NEW g \in Files, Put(n, g), req[n].owner \notin Products, k = n
      PROVE  FALSE
  BY <1>5 DEF Put
<1>6. ASSUME NEW n \in Sessions, Place(n)
      PROVE  pos'[f] < req'[k].pos
  <2>1. CASE k = n
    <3>1. req'[k].pos = NextPosition(req[k].owner) /\ req'[k].owner = req[k].owner
      BY <1>6, <2>1 DEF Place
    <3>2. f \in PhotosOf(req[k].owner) /\ pos' = pos
      BY <1>6, <3>1 DEF Place, PhotosOf
    <3> QED
      BY <3>1, <3>2, NextIsLast
  <2>2. CASE k # n
    BY <1>2, <1>6, <2>2 DEF Place
  <2> QED
    BY <2>1, <2>2
<1>7. ASSUME NEW n \in Sessions, Save(n)
      PROVE  pos'[f] < req'[k].pos
  <2>1. k # n /\ req'[k] = req[k]
    BY <1>7 DEF Save
  <2>2. Linking(n) /\ Uploading(k)
    BY <1>7, <2>1 DEF Save, Linking, Uploading
  <2>3. f # req[n].file
    BY <2>1, <2>2 DEF Unclaimed
  <2>4. pos'[f] = pos[f] /\ owner'[f] \in {owner[f], NoOwner}
    BY <1>7, <2>3 DEF Save
  <2> QED
    BY <1>1, <2>1, <2>4, OwnerAssumption DEF PhotosOf, Owners
<1>8. ASSUME NEW n \in Sessions, NEW g \in Files, Delete(n, g) \/ DropVariantPhoto(n, g)
      PROVE  req'[k] = req[k] /\ UNCHANGED pos /\ owner'[f] \in {owner[f], NoOwner}
  BY <1>8 DEF Delete, DropVariantPhoto
<1>9. ASSUME NEW n \in Sessions, Unstore(n) \/ DeleteRow(n) \/ DropFile(n) \/ Die(n)
      PROVE  req'[k] = req[k] /\ UNCHANGED pos /\ owner'[f] \in {owner[f], NoOwner}
  BY <1>9 DEF Unstore, DeleteRow, DropFile, Die
<1>10. ASSUME NEW p \in Products, ClearDemo(p)
       PROVE  req'[k] = req[k] /\ UNCHANGED pos /\ owner'[f] \in {owner[f], NoOwner}
  BY <1>10 DEF ClearDemo
<1>11. ASSUME PlanMoves
       PROVE  req'[k] = req[k] /\ UNCHANGED <<pos, owner>>
  BY <1>11 DEF PlanMoves
<1> QED
  BY <1>1, <1>2, <1>3, <1>4, <1>5, <1>6, <1>7, <1>8, <1>9, <1>10, <1>11 DEF Next

\* A photo comes after those that were there when its upload began.
THEOREM UploadsComeLast == Spec => GalleryOrder
<1> DEFINE Inv == TypeOK /\ Bounded /\ Unclaimed /\ Ordered
           Last == \A n \in Sessions :
                      req[n].op = "save" /\ Save(n) /\ req[n].owner \in Products =>
                         \A f \in req[n].before \cap PhotosOf(req[n].owner) :
                             pos'[f] < pos'[req[n].file]
<1>1. Init => Unclaimed /\ Ordered
  BY DEF Init, Unclaimed, Ordered, Ahead, Linking, Uploading, Idle
<1>2. Unclaimed /\ Ordered /\ UNCHANGED vars => (Unclaimed /\ Ordered)'
  BY DEF vars, Unclaimed, Ordered, Ahead, Linking, Uploading, PhotosOf
<1>3. Spec => []Inv
  BY <1>1, <1>2, UnclaimedStep, OrderedStep, Typed, PTL DEF Spec
<1>4. Inv => Last
  <2> SUFFICES ASSUME Inv, NEW n \in Sessions, req[n].op = "save", Save(n),
                      req[n].owner \in Products,
                      NEW f \in req[n].before \cap PhotosOf(req[n].owner)
               PROVE  pos'[f] < pos'[req[n].file]
    OBVIOUS
  <2>1. pos[f] < req[n].pos
    BY DEF Ordered, Ahead
  <2>2. f # req[n].file
    BY DEF Unclaimed, Linking, Uploading
  <2>3. req[n].file \in Files
    BY DEF TypeOK, Request, Idle
  <2> QED
    BY <2>1, <2>2, <2>3 DEF Save, TypeOK, PhotosOf
<1>5. Inv => [Last]_vars
  BY <1>4
<1> QED
  BY <1>3, <1>5, PTL DEF GalleryOrder

-----------------------------------------------------------------------------

(* An upload passed the count when the gallery had room, and the uploads of *)
(* a gallery are at most as many as the sessions.                           *)

Room(p) == Cardinality(PhotosOf(p)) + Cardinality(Uploads(p)) < MaxPhotos + Cardinality(Sessions)

LEMMA Counted ==
    ASSUME NEW p
    PROVE  /\ IsFiniteSet(PhotosOf(p)) /\ Cardinality(PhotosOf(p)) \in Nat
           /\ IsFiniteSet(Uploads(p)) /\ Cardinality(Uploads(p)) \in Nat
           /\ Cardinality(Uploads(p)) <= Cardinality(Sessions)
           /\ Cardinality(Sessions) \in Nat
<1>1. PhotosOf(p) \in SUBSET Files /\ Uploads(p) \in SUBSET Sessions
  BY DEF PhotosOf, Uploads
<1>2. IsFiniteSet(Files) /\ IsFiniteSet(Sessions)
  BY PhotoAssumption
<1> QED
  BY <1>1, <1>2, FS_Subset, FS_CardinalityType

\* The same in the next state.
LEMMA CountedThen ==
    ASSUME NEW p
    PROVE  /\ IsFiniteSet(PhotosOf(p)') /\ Cardinality(PhotosOf(p)') \in Nat
           /\ IsFiniteSet(Uploads(p)') /\ Cardinality(Uploads(p)') \in Nat
           /\ Cardinality(Uploads(p)') <= Cardinality(Sessions)
<1>1. PhotosOf(p)' \in SUBSET Files /\ Uploads(p)' \in SUBSET Sessions
  BY DEF PhotosOf, Uploads
<1>2. IsFiniteSet(Files) /\ IsFiniteSet(Sessions)
  BY PhotoAssumption
<1> QED
  BY <1>1, <1>2, FS_Subset, FS_CardinalityType

\* Fewer photos and fewer uploads leave the room there is.
LEMMA FewerFit ==
    ASSUME NEW p, Room(p),
           PhotosOf(p)' \subseteq PhotosOf(p), Uploads(p)' \subseteq Uploads(p)
    PROVE  Room(p)'
<1>1. /\ Cardinality(PhotosOf(p)') <= Cardinality(PhotosOf(p))
      /\ Cardinality(Uploads(p)') <= Cardinality(Uploads(p))
  BY Counted, FS_Subset
<1> QED
  BY <1>1, Counted, CountedThen, PhotoAssumption DEF Room

LEMMA RoomStep ==
    ASSUME TypeOK, NEW p \in Products, Room(p), Next
    PROVE  Room(p)'
<1> USE DEF TypeOK, Request, Idle, Become
<1>1. ASSUME NEW n \in Sessions, NEW o \in Owners, Upload(n, o)
      PROVE  Room(p)'
  <2>1. CASE o = p
    <3>1. Cardinality(PhotosOf(p)) < MaxPhotos
      BY <1>1, <2>1 DEF Upload
    <3>2. PhotosOf(p)' = PhotosOf(p)
      BY <1>1 DEF Upload, PhotosOf
    <3>3. Cardinality(Uploads(p)') <= Cardinality(Sessions)
      BY CountedThen
    <3> QED
      BY <3>1, <3>2, <3>3, Counted, CountedThen, PhotoAssumption DEF Room
  <2>2. CASE o # p
    <3>1. PhotosOf(p)' \subseteq PhotosOf(p) /\ Uploads(p)' \subseteq Uploads(p)
      BY <1>1, <2>2 DEF Upload, PhotosOf, Uploads
    <3> QED
      BY <3>1, FewerFit
  <2> QED
    BY <2>1, <2>2
<1>2. ASSUME NEW n \in Sessions, Save(n)
      PROVE  Room(p)'
  <2>1. CASE req[n].owner = p
    <3>1. PhotosOf(p)' = PhotosOf(p) \cup {req[n].file}
      BY <1>2, <2>1, OwnerAssumption DEF Save, PhotosOf
    <3>2. Uploads(p)' = Uploads(p) \ {n} /\ n \in Uploads(p)
      BY <1>2, <2>1 DEF Save, Uploads
    <3>3. Cardinality(PhotosOf(p)') <= Cardinality(PhotosOf(p)) + 1
      <4> DEFINE P == PhotosOf(p)
                 f == req[n].file
      <4>1. IsFiniteSet(P) /\ Cardinality(P) \in Nat
        BY Counted
      <4> HIDE DEF P, f
      <4>2. Cardinality(P \cup {f})
              = IF f \in P THEN Cardinality(P) ELSE Cardinality(P) + 1
        BY <4>1, FS_AddElement, Zenon
      <4> QED
        BY <3>1, <4>1, <4>2 DEF P, f
    <3>4. Cardinality(Uploads(p)') = Cardinality(Uploads(p)) - 1
      BY <3>2, Counted, FS_RemoveElement
    <3> QED
      BY <3>3, <3>4, Counted, CountedThen, PhotoAssumption DEF Room
  <2>2. CASE req[n].owner # p
    <3>1. PhotosOf(p)' \subseteq PhotosOf(p) /\ Uploads(p)' \subseteq Uploads(p)
      BY <1>2, <2>2, OwnerAssumption DEF Save, PhotosOf, Uploads, Owners
    <3> QED
      BY <3>1, FewerFit
  <2> QED
    BY <2>1, <2>2
<1>3. ASSUME PhotosOf(p)' \subseteq PhotosOf(p), Uploads(p)' \subseteq Uploads(p)
      PROVE  Room(p)'
  BY <1>3, FewerFit
<1>4. ASSUME NEW n \in Sessions,
             \/ \E f \in Files : Put(n, f) \/ Delete(n, f)
             \/ Place(n) \/ Unstore(n) \/ DropFile(n) \/ Die(n)
      PROVE  PhotosOf(p)' \subseteq PhotosOf(p) /\ Uploads(p)' \subseteq Uploads(p)
  BY <1>4 DEF Put, Delete, Place, Unstore, DropFile, Die, PhotosOf, Uploads
<1>5. ASSUME NEW n \in Sessions, NEW f \in Files, DropVariantPhoto(n, f)
      PROVE  PhotosOf(p)' \subseteq PhotosOf(p) /\ Uploads(p)' \subseteq Uploads(p)
  BY <1>5, OwnerAssumption DEF DropVariantPhoto, PhotosOf, Uploads, Owners
<1>6. ASSUME NEW n \in Sessions, DeleteRow(n)
      PROVE  PhotosOf(p)' \subseteq PhotosOf(p) /\ Uploads(p)' \subseteq Uploads(p)
  BY <1>6, OwnerAssumption DEF DeleteRow, PhotosOf, Uploads, Owners
<1>7. ASSUME NEW o \in Products, ClearDemo(o)
      PROVE  PhotosOf(p)' \subseteq PhotosOf(p) /\ Uploads(p)' \subseteq Uploads(p)
  BY <1>7, OwnerAssumption DEF ClearDemo, PhotosOf, Uploads, Owners
<1>8. ASSUME PlanMoves
      PROVE  PhotosOf(p)' \subseteq PhotosOf(p) /\ Uploads(p)' \subseteq Uploads(p)
  BY <1>8 DEF PlanMoves, PhotosOf, Uploads
<1> QED
  BY <1>1, <1>2, <1>3, <1>4, <1>5, <1>6, <1>7, <1>8 DEF Next

\* The limit of photos is exceeded by the uploads in flight, and by no more.
THEOREM AlmostTheLimit == Spec => []AlmostTen
<1>1. Init => AlmostTen
  <2> SUFFICES ASSUME Init, NEW p \in Products PROVE Room(p)
    BY DEF AlmostTen, Room
  <2>1. PhotosOf(p) = {} /\ Uploads(p) = {}
    BY OwnerAssumption DEF Init, PhotosOf, Uploads, Owners, Idle
  <2> QED
    BY <2>1, FS_EmptySet, Counted, PhotoAssumption DEF Room
<1>2. TypeOK /\ AlmostTen /\ [Next]_vars => AlmostTen'
  <2> SUFFICES ASSUME TypeOK, NEW p \in Products, Room(p), [Next]_vars PROVE Room(p)'
    BY DEF AlmostTen, Room
  <2>1. CASE UNCHANGED vars
    BY <2>1 DEF vars, Room, PhotosOf, Uploads
  <2> QED
    BY <2>1, RoomStep
<1> QED
  BY <1>1, <1>2, Typed, PTL DEF Spec
=============================================================================
