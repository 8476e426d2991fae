-------------------------- MODULE BookCatalogProofs --------------------------
(***************************************************************************)
(* Proofs about BookCatalog, for every set of books, authors, genres,      *)
(* covers and requests: the properties that its run checks.                *)
(*                                                                         *)
(* That covers and books belong together rests on which request may touch  *)
(* which object in the bucket: a creation only the cover of the book it    *)
(* holds, an update only those of its book, and two updates of one cover   *)
(* are noted as damage; and each book shows a cover of its own, unless a   *)
(* client has given it another address.  That links are as asked rests on what is left of  *)
(* the plan of a request that nobody disturbs.                             *)
(***************************************************************************)
EXTENDS BookCatalog, TLAPS

AnyRow == BookRow \cup PartRow \cup PairRow

Given == Book \X (Cover \cup {None})

Seen == {None} \cup Work \cup Mapping

(* The endpoints whose handlers pass a statement.                          *)
OpsAt(label) ==
    CASE label = "insert" -> {"create"}
      [] label \in {"book", "replace", "defaults"} -> {"update"}
      [] label \in {"head", "copy", "unstage", "load", "image", "validate", "authors", "genres",
                    "sync"} -> {"create", "update"}
      [] label = "pair" -> {"link", "rate"}
      [] label = "unpair" -> {"unlink"}
      [] label \in {"mapping", "repoint"} -> {"move"}
      [] label = "remove" -> {"delete", "dropPart"}
      [] label = "newPart" -> {"newAuthor", "newGenre"}
      [] label \in {"part", "rename"} -> {"rename"}
      [] label = "commit" -> {"create", "update", "delete", "link", "move", "unlink", "rate",
                              "newAuthor", "newGenre", "rename", "dropPart"}
      [] OTHER -> {}

Promoting == {"head", "copy", "unstage", "replace"}
Imaging == Promoting \cup {"load", "image"}
(* The statements by which the image of the book is settled.               *)
Settled == {"defaults", "validate", "authors", "genres", "sync", "commit"}

Editing(r) == job[r].op \in {"create", "update"} /\ seen[r] # None

HoldsNothing(r) == \A k \in Rows : ~Holds(r, k)

(* What a request has read by now.                                         *)
SeenOK(r) ==
    CASE job[r].op \in {"create", "update"} ->
           IF pc[r] \in {"insert", "book"} THEN seen[r] = None ELSE seen[r] \in Work
      [] job[r].op = "move" ->
           IF pc[r] = "mapping" THEN seen[r] = None
           ELSE seen[r] \in Mapping /\ seen[r].book = job[r].book
      [] OTHER -> seen[r] = None

(* The books and links a request has written.                              *)
WritesOK(r) ==
    /\ \A k \in Rows : Holds(r, k) => pend[r][k] \in RowType(k)
    /\ \A b \in Book : Holds(r, b) =>
         /\ pend[r][b].state # "none"
         /\ \/ job[r].op = "delete" /\ ~Live(pend[r][b])
            \/ Editing(r) /\ seen[r].book = b
    /\ \A b \in Book, x \in Part : Holds(r, <<b, x>>) =>
         /\ \/ job[r].op \in {"link", "unlink", "move"} /\ job[r].book = b
            \/ Editing(r) /\ seen[r].book = b
         /\ job[r].op # "create" => db[b].state # "none"

(* A creation holds its book from the insertion on.                        *)
Creating(r) ==
    LET b == seen[r].book IN
    /\ Holds(r, b) /\ Live(pend[r][b]) /\ db[b].state = "none"
    /\ seen[r].old = None /\ ~seen[r].removed
    /\ pc[r] \in Imaging => job[r].image \in Upload
    /\ pend[r][b].image = IF pc[r] \in Imaging THEN None ELSE NewImage(r)

(* An update writes its book when the image changes, and has removed the   *)
(* old cover only if it will.                                              *)
Updating(r) ==
    LET b == seen[r].book IN
    /\ b = job[r].book /\ db[b].state # "none"
    /\ pc[r] \in Promoting => job[r].image \in Upload
    /\ pc[r] \in Imaging => job[r].image # Same
    /\ Holds(r, b) => pc[r] \in Settled /\ job[r].image # Same /\ pend[r][b].image = NewImage(r)
    /\ pc[r] \in Settled /\ job[r].image # Same /\ NewImage(r) # seen[r].old => Holds(r, b)
    /\ seen[r].removed => /\ pc[r] \in {"load", "image"} \cup Settled
                          /\ job[r].image \in Upload /\ seen[r].old # seen[r].cover

EditingOK(r) ==
    /\ seen[r].cover = IF job[r].image \in Upload /\ pc[r] \notin {"head", "copy"}
                       THEN Destination(r) ELSE None
    /\ IF job[r].op = "create" THEN Creating(r) ELSE Updating(r)

(* Nobody else works on the book of an update that is alone, except a      *)
(* creation that has just taken its place.                                 *)
Lone(r) ==
    Running(r) /\ job[r].op = "update" /\ alone[r] =>
      \A s \in Request \ {r} :
        Running(s) /\ BookOf(s) = job[r].book => job[s].op = "create"

(* The links that r is to leave.                                           *)
Wanted(r, X) ==
    LET asked == IF X = Author THEN job[r].authors ELSE job[r].genres IN
    IF asked = Same THEN LinkedIn(db, seen[r].book, X) ELSE asked

Untouched(r) == \A x \in Part : ~Holds(r, <<seen[r].book, x>>)

(* What is left of the plan leads to them.                                 *)
LeadsTo(r, X, add, drop) ==
    /\ add \subseteq X /\ drop \subseteq X /\ add \cap drop = {}
    /\ \A x \in X : x \in Wanted(r, X) <=>
         x \in add \/ (Live(View(r, <<seen[r].book, x>>)) /\ x \notin drop)

PlanOK(r) ==
    LET plan == seen[r].plan IN
    /\ pc[r] \in Imaging \cup {"defaults", "validate", "authors", "genres"} => Untouched(r)
    /\ pc[r] \in {"validate", "authors"} /\ job[r].op = "update" =>
         plan[1] = Wanted(r, Author) /\ plan[3] = Wanted(r, Genre)
    /\ pc[r] = "genres" => LeadsTo(r, Author, plan[1], plan[2]) /\ plan[3] = Wanted(r, Genre)
    /\ pc[r] = "sync" => LeadsTo(r, Author, plan[1], plan[2]) /\ LeadsTo(r, Genre, plan[3], plan[4])
    /\ pc[r] = "commit" => LeadsTo(r, Author, {}, {}) /\ LeadsTo(r, Genre, {}, {})

(* An address that it has written as it was given is noted.                *)
Told(r) ==
    Editing(r) /\ Holds(r, seen[r].book) /\ job[r].image \in Cover \cup {None} =>
      <<seen[r].book, job[r].image>> \in given

Mine(r) ==
    /\ IF Running(r) THEN job[r].op \in OpsAt(pc[r])
       ELSE HoldsNothing(r) /\ job[r] = NoJob
    /\ SeenOK(r) /\ WritesOK(r)
    /\ Editing(r) => EditingOK(r)
    /\ Told(r)
    /\ Editing(r) /\ (job[r].op = "create" \/ alone[r]) => PlanOK(r)

(* Committed rows: links are of books that exist.                          *)
RowsOK == \A b \in Book, x \in Part : Live(db[<<b, x>>]) => db[b].state # "none"

(* A request that has removed the old cover of b and not yet committed.    *)
Removing(b) ==
    \E r \in Request : job[r].op = "update" /\ seen[r] # None /\ seen[r].book = b /\ seen[r].removed

(* A request that has promoted c for the book it creates.                  *)
Promised(c) ==
    \E r \in Request : job[r].op = "create" /\ seen[r] # None /\ seen[r].cover = c

(* What a book shows: what it was given, something outside the bucket, or  *)
(* a cover of its own that is there.                                       *)
ImageOK(b) ==
    \/ <<b, db[b].image>> \in given
    \/ db[b].image = Link
    \/ /\ db[b].image \in Cover /\ db[b].image[1] = b
       /\ db[b].image \in bucket \/ b \in damaged \/ Removing(b)

Covers ==
    /\ \A r, s \in Request :
         r # s /\ ChangesImage(job[r]) /\ ChangesImage(job[s]) /\ job[r].book = job[s].book
         => job[r].book \in damaged
    /\ \A r \in Request : Editing(r) /\ seen[r].cover # None =>
         seen[r].cover \in bucket \/ seen[r].book \in damaged
    /\ \A b \in Book : Live(db[b]) => ImageOK(b)
    /\ \A c \in bucket \cap Cover : db[c[1]].state # "none" \/ c[1] \in damaged \/ Promised(c)

BookInv ==
    /\ db \in [Rows -> AnyRow] /\ \A k \in Rows : db[k] \in RowType(k)
    /\ pend \in [Request -> [Rows -> AnyRow \cup {None}]]
    /\ pc \in [Request -> Label] /\ job \in [Request -> Job \cup {NoJob}] /\ seen \in [Request -> Seen]
    /\ bucket \subseteq Upload \cup Cover /\ alone \in [Request -> BOOLEAN] /\ damaged \subseteq Book
    /\ given \subseteq Given
    /\ RowLocksExclusive
    /\ RowsOK /\ Covers
    /\ \A r \in Request : Mine(r) /\ Lone(r)

-----------------------------------------------------------------------------
(* Rows.                                                                   *)

LEMMA RowFacts ==
    /\ \A b \in Book : b \in Rows /\ b \notin Part /\ RowType(b) = BookRow
    /\ \A p \in Part : p \in Rows /\ p \notin Book /\ RowType(p) = PartRow
    /\ \A p \in Pair(Part) \cup Pair(Reader) :
         p \in Rows /\ p \notin Book /\ p \notin Part /\ RowType(p) = PairRow
    /\ \A b \in Book, x \in Part : <<b, x>> \in Pair(Part)
    /\ \A k \in Rows : k \in Book \/ k \in Part \/ k \in Pair(Part) \/ k \in Pair(Reader)
    /\ \A k : RowType(k) \subseteq AnyRow
    /\ None \notin AnyRow
<1>1. \A b \in Book : b \in Rows /\ b \notin Part /\ RowType(b) = BookRow
  BY CatalogAssumption DEF Rows, RowType
<1>2. \A p \in Part : p \in Rows /\ p \notin Book /\ RowType(p) = PartRow
  BY CatalogAssumption DEF Rows, RowType
<1>3. \A p \in Pair(Part) \cup Pair(Reader) :
        p \in Rows /\ p \notin Book /\ p \notin Part /\ RowType(p) = PairRow
  BY CatalogAssumption DEF Rows, RowType
<1>4. \A b \in Book, x \in Part : <<b, x>> \in Pair(Part)
  BY DEF Pair
<1>5. \A k \in Rows : k \in Book \/ k \in Part \/ k \in Pair(Part) \/ k \in Pair(Reader)
  BY DEF Rows
<1>6. (\A k : RowType(k) \subseteq AnyRow) /\ None \notin AnyRow
  BY CatalogAssumption DEF RowType, AnyRow
<1> QED
  BY <1>1, <1>2, <1>3, <1>4, <1>5, <1>6

LEMMA Images ==
    /\ \A c \in Cover : c \in Image /\ c # Link /\ c # None
    /\ \A u \in Upload : u \notin Image /\ u # Same
    /\ Link # None /\ Link # Same /\ None # Same /\ Same \notin Cover /\ Link \in Image /\ None \in Image
    /\ \A b \in Book, e \in Ext : <<b, e>> \in Cover
BY CatalogAssumption DEF Image, Cover

LEMMA InvTypes ==
    ASSUME BookInv
    PROVE  /\ db \in [Rows -> AnyRow] /\ Row = Rows /\ \A k \in Rows : db[k] \in RowType(k)
           /\ pend \in [Request -> [Rows -> AnyRow \cup {None}]]
           /\ pc \in [Request -> Label] /\ job \in [Request -> Job \cup {NoJob}]
           /\ seen \in [Request -> Seen]
           /\ alone \in [Request -> BOOLEAN] /\ damaged \subseteq Book
           /\ bucket \subseteq Upload \cup Cover /\ given \subseteq Given
           /\ \A r \in Request : Mine(r) /\ Lone(r) /\ SeenOK(r) /\ WritesOK(r) /\ Told(r)
           /\ \A r \in Request : Running(r) => job[r].op \in OpsAt(pc[r])
BY DEF BookInv, Row, Mine

LEMMA HeldTypes ==
    ASSUME BookInv, NEW r \in Request, NEW k \in Rows
    PROVE  /\ Holds(r, k) => pend[r][k] \in RowType(k) /\ View(r, k) = pend[r][k]
           /\ ~Holds(r, k) => pend[r][k] = None /\ View(r, k) = db[k]
           /\ View(r, k) \in RowType(k)
BY InvTypes DEF WritesOK, Holds, View

LEMMA LocksHold ==
    ASSUME BookInv, NEW r \in Request, NEW s \in Request \ {r}, NEW k \in Rows, Holds(r, k)
    PROVE  ~Holds(s, k)
BY InvTypes DEF BookInv, RowLocksExclusive

(* Which endpoints a request can be of, where it is.                       *)
LEMMA RunningOps ==
    ASSUME BookInv, NEW r \in Request, Running(r)
    PROVE  job[r] \in Job /\ job[r].op \in OpsAt(pc[r])
<1>1. Mine(r) /\ job[r] \in Job \cup {NoJob}
  BY InvTypes
<1>2. job[r].op \in OpsAt(pc[r])
  BY <1>1 DEF Mine
<1>3. "none" \notin OpsAt(pc[r])
  BY DEF OpsAt
<1> QED
  BY <1>1, <1>2, <1>3 DEF NoJob

LEMMA JobKinds ==
    ASSUME NEW j \in Job
    PROVE  /\ j.op = "create" => j \in CreateJob
           /\ j.op = "update" => j \in UpdateJob
           /\ j.op = "delete" => j \in DeleteJob
           /\ j.op = "link" => j \in LinkJob
           /\ j.op = "move" => j \in MoveJob
           /\ j.op = "unlink" => j \in UnlinkJob
           /\ j.op = "rate" => j \in RateJob
           /\ j.op \in {"newAuthor", "newGenre"} => j \in NewPartJob
           /\ j.op = "rename" => j \in RenameJob
           /\ j.op = "dropPart" => j \in DropPartJob
           /\ j.op \in {"create", "update", "delete", "link", "move", "unlink", "rate", "newAuthor",
                        "newGenre", "rename", "dropPart"}
BY DEF Job, CreateJob, UpdateJob, DeleteJob, LinkJob, MoveJob, UnlinkJob, RateJob, NewPartJob,
       RenameJob, DropPartJob

LEMMA JobBooks ==
    ASSUME NEW j \in Job
    PROVE  /\ "book" \in DOMAIN j <=> j.op \in {"update", "delete", "link", "move", "unlink", "rate"}
           /\ "book" \in DOMAIN j => j.book \in Book
           /\ j.op = "update" => j.image \in FormImage \cup {Same} /\ j.book \in Book
           /\ j.op = "create" => j.image \in FormImage
<1>1. CASE j.op = "create"
  <2>1. j \in CreateJob
    BY <1>1, JobKinds
  <2> QED
    BY <1>1, <2>1 DEF CreateJob
<1>2. CASE j.op = "update"
  <2>1. j \in UpdateJob
    BY <1>2, JobKinds
  <2> QED
    BY <1>2, <2>1 DEF UpdateJob
<1>3. CASE j.op = "delete"
  <2>1. j \in DeleteJob
    BY <1>3, JobKinds
  <2> QED
    BY <1>3, <2>1 DEF DeleteJob
<1>4. CASE j.op = "link"
  <2>1. j \in LinkJob
    BY <1>4, JobKinds
  <2> QED
    BY <1>4, <2>1 DEF LinkJob
<1>5. CASE j.op = "move"
  <2>1. j \in MoveJob
    BY <1>5, JobKinds
  <2> QED
    BY <1>5, <2>1 DEF MoveJob
<1>6. CASE j.op = "unlink"
  <2>1. j \in UnlinkJob
    BY <1>6, JobKinds
  <2> QED
    BY <1>6, <2>1 DEF UnlinkJob
<1>7. CASE j.op = "rate"
  <2>1. j \in RateJob
    BY <1>7, JobKinds
  <2> QED
    BY <1>7, <2>1 DEF RateJob
<1>8. CASE j.op \in {"newAuthor", "newGenre"}
  <2>1. j \in NewPartJob
    BY <1>8, JobKinds
  <2> QED
    BY <1>8, <2>1 DEF NewPartJob
<1>9. CASE j.op = "rename"
  <2>1. j \in RenameJob
    BY <1>9, JobKinds
  <2> QED
    BY <1>9, <2>1 DEF RenameJob
<1>10. CASE j.op = "dropPart"
  <2>1. j \in DropPartJob
    BY <1>10, JobKinds
  <2> QED
    BY <1>10, <2>1 DEF DropPartJob
<1> QED
  BY JobKinds, <1>1, <1>2, <1>3, <1>4, <1>5, <1>6, <1>7, <1>8, <1>9, <1>10

(* A request that edits a book: a creation or an update that has read it.  *)
LEMMA EditingFacts ==
    ASSUME BookInv, NEW r \in Request, Editing(r)
    PROVE  /\ Running(r) /\ job[r] \in Job /\ job[r].op \in {"create", "update"}
           /\ job[r].op \in OpsAt(pc[r]) /\ pc[r] \notin {"insert", "book"}
           /\ seen[r] \in Work /\ seen[r].book \in Book /\ EditingOK(r)
           /\ job[r].op = "create" \/ alone[r] => PlanOK(r)
<1>1. Mine(r)
  BY InvTypes
<1>2. Running(r)
  BY <1>1 DEF Mine, Editing, NoJob
<1>3. job[r] \in Job /\ job[r].op \in OpsAt(pc[r])
  BY <1>2, RunningOps
<1>4. seen[r] \in Work /\ pc[r] \notin {"insert", "book"}
  BY <1>1 DEF Mine, Editing, SeenOK
<1> QED
  BY <1>1, <1>2, <1>3, <1>4 DEF Mine, Editing, Work

LEMMA BookOfFacts ==
    ASSUME BookInv, NEW r \in Request
    PROVE  /\ Editing(r) => BookOf(r) = seen[r].book
           /\ Running(r) /\ job[r].op \in {"update", "delete", "link", "move", "unlink", "rate"} =>
                BookOf(r) = job[r].book
           /\ Running(r) /\ BookOf(r) \in Book /\ job[r].op = "create" => Editing(r)
           /\ BookOf(r) \in Book \cup {None}
<1>1. CASE Editing(r)
  <2>1. seen[r] # None /\ seen[r] \in Work /\ EditingOK(r) /\ job[r].op \in {"create", "update"}
    BY <1>1, EditingFacts DEF Editing
  <2>2. BookOf(r) = seen[r].book /\ seen[r].book \in Book
    BY <2>1 DEF BookOf, Work
  <2>3. job[r].op = "update" => seen[r].book = job[r].book
    BY <2>1 DEF EditingOK, Updating
  <2> QED
    BY <1>1, <2>1, <2>2, <2>3
<1>2. CASE ~Editing(r)
  <2>1. SeenOK(r) /\ job[r] \in Job \cup {NoJob}
    BY InvTypes
  <2>2. CASE job[r] = NoJob
    <3>1. job[r].op = "none" /\ "book" \notin DOMAIN job[r]
      BY <2>2 DEF NoJob
    <3>2. seen[r] = None
      BY <2>1, <3>1 DEF SeenOK
    <3>3. ~Running(r)
      <4>1. Running(r) => job[r].op \in OpsAt(pc[r])
        BY InvTypes
      <4> QED
        BY <3>1, <4>1 DEF OpsAt
    <3>4. BookOf(r) = None
      BY <3>1, <3>2 DEF BookOf
    <3> QED
      BY <1>2, <3>1, <3>4
  <2>3. CASE job[r] \in Job /\ job[r].op = "move" /\ pc[r] # "mapping"
    <3>1. seen[r] \in Mapping /\ seen[r].book = job[r].book
      BY <2>1, <2>3 DEF SeenOK
    <3>2. seen[r] # None
      BY <3>1, CatalogAssumption
    <3>3. BookOf(r) = job[r].book /\ job[r].book \in Book
      BY <3>1, <3>2 DEF BookOf, Mapping
    <3> QED
      BY <1>2, <2>3, <3>3
  <2>4. CASE job[r] \in Job /\ (job[r].op # "move" \/ pc[r] = "mapping")
    <3>1. seen[r] = None
      BY <1>2, <2>1, <2>4 DEF SeenOK, Editing
    <3>2. "book" \in DOMAIN job[r] => job[r].book \in Book
      BY <2>4, JobBooks
    <3>3. BookOf(r) = IF "book" \in DOMAIN job[r] THEN job[r].book ELSE None
      BY <3>1 DEF BookOf
    <3>4. None \notin Book
      BY CatalogAssumption
    <3>5. "book" \in DOMAIN job[r] <=> job[r].op \in {"update", "delete", "link", "move", "unlink", "rate"}
      BY <2>4, JobBooks
    <3> QED
      BY <1>2, <3>2, <3>3, <3>4, <3>5
  <2> QED
    BY <2>1, <2>2, <2>3, <2>4
<1> QED
  BY <1>1, <1>2

-----------------------------------------------------------------------------
(* Nobody else holds a link of a creation, or of an update that is alone.  *)

LEMMA Undisturbed ==
    ASSUME BookInv, NEW r \in Request, Editing(r), job[r].op = "create" \/ alone[r],
           NEW s \in Request \ {r}, NEW x \in Part
    PROVE  ~Holds(s, <<seen[r].book, x>>)
<1> DEFINE b == seen[r].book
<1>1. /\ Running(r) /\ job[r].op \in {"create", "update"} /\ b \in Book /\ EditingOK(r)
  BY EditingFacts
<1>2. SUFFICES ASSUME Holds(s, <<b, x>>) PROVE FALSE
  OBVIOUS
<1>3. Mine(s) /\ Lone(r) /\ WritesOK(s) /\ <<b, x>> \in Rows
  BY InvTypes, RowFacts, <1>1
<1>4. Running(s)
  BY <1>2, <1>3 DEF Mine, HoldsNothing
<1>5. /\ \/ job[s].op \in {"link", "unlink", "move"} /\ job[s].book = b
         \/ Editing(s) /\ seen[s].book = b
      /\ job[s].op # "create" => db[b].state # "none"
  BY <1>1, <1>2, <1>3 DEF WritesOK
<1>6. CASE job[s].op = "create"
  <2>1. Editing(s) /\ seen[s].book = b /\ EditingOK(s)
    BY <1>5, <1>6, EditingFacts
  <2>2. Holds(s, b) /\ db[b].state = "none"
    BY <1>6, <2>1 DEF EditingOK, Creating
  <2>3. job[r].op = "create"
    BY <1>1, <2>2 DEF EditingOK, Updating
  <2>4. Holds(r, b) /\ b \in Rows
    BY <1>1, <2>3, RowFacts DEF EditingOK, Creating
  <2> QED
    BY <2>2, <2>4, LocksHold
<1>7. CASE job[s].op # "create"
  <2>1. job[r].op = "update" /\ job[r].book = b /\ alone[r]
    BY <1>1, <1>5, <1>7 DEF EditingOK, Creating, Updating
  <2>2. BookOf(s) = b
    BY <1>4, <1>5, BookOfFacts
  <2> QED
    BY <1>1, <1>3, <1>4, <1>7, <2>1, <2>2 DEF Lone
<1> QED
  BY <1>6, <1>7

(* What a step of another request leaves of a request's own part of the    *)
(* invariant.                                                              *)
LEMMA OthersStay ==
    ASSUME BookInv, NEW s \in Request,
           pc'[s] = pc[s], seen'[s] = seen[s], job'[s] = job[s], pend'[s] = pend[s],
           alone'[s] => alone[s], given \subseteq given',
           \A b \in Book : db[b].state # "none" => db'[b].state # "none",
           Editing(s) /\ job[s].op = "create" => db'[seen[s].book] = db[seen[s].book],
           Editing(s) /\ (job[s].op = "create" \/ alone[s]) =>
             \A x \in Part : db'[<<seen[s].book, x>>] = db[<<seen[s].book, x>>]
    PROVE  Mine(s)'
<1>1. Mine(s)
  BY InvTypes
<1>2. /\ Running(s)' <=> Running(s)
      /\ \A k : Holds(s, k)' <=> Holds(s, k)
      /\ Editing(s)' <=> Editing(s)
      /\ NewImage(s)' = NewImage(s) /\ Destination(s)' = Destination(s)
  BY DEF Running, Holds, Editing, NewImage, Destination
<1>3. IF Running(s)' THEN job'[s].op \in OpsAt(pc'[s]) ELSE HoldsNothing(s)' /\ job'[s] = NoJob
  BY <1>1, <1>2 DEF Mine, HoldsNothing
<1>4. SeenOK(s)'
  BY <1>1 DEF Mine, SeenOK
<1>5. WritesOK(s)'
  <2>1. WritesOK(s)
    BY <1>1 DEF Mine
  <2>2. \A k \in Rows : Holds(s, k)' => pend'[s][k] \in RowType(k)
    BY <1>2, <2>1 DEF WritesOK
  <2>3. \A b \in Book : Holds(s, b)' =>
          /\ pend'[s][b].state # "none"
          /\ \/ job'[s].op = "delete" /\ ~Live(pend'[s][b])
             \/ Editing(s)' /\ seen'[s].book = b
    BY <1>2, <2>1 DEF WritesOK
  <2>4. \A b \in Book, x \in Part : Holds(s, <<b, x>>)' =>
          /\ \/ job'[s].op \in {"link", "unlink", "move"} /\ job'[s].book = b
             \/ Editing(s)' /\ seen'[s].book = b
          /\ job'[s].op # "create" => db'[b].state # "none"
    BY <1>2, <2>1 DEF WritesOK
  <2> QED
    BY <2>2, <2>3, <2>4 DEF WritesOK
<1>6. ASSUME Editing(s)' PROVE EditingOK(s)'
  <2>1. EditingOK(s) /\ seen[s].book \in Book
    BY <1>2, <1>6, EditingFacts
  <2>2. CASE job[s].op = "create"
    <3>1. Creating(s) /\ db'[seen[s].book] = db[seen[s].book]
      BY <1>2, <1>6, <2>1, <2>2 DEF EditingOK
    <3>2. Creating(s)'
      BY <1>2, <3>1 DEF Creating
    <3> QED
      BY <1>2, <2>1, <2>2, <3>2 DEF EditingOK
  <2>3. CASE job[s].op # "create"
    <3>1. Updating(s)
      BY <2>1, <2>3 DEF EditingOK
    <3>2. Updating(s)'
      BY <1>2, <2>1, <3>1 DEF Updating
    <3> QED
      BY <1>2, <2>1, <2>3, <3>2 DEF EditingOK
  <2> QED
    BY <2>2, <2>3
<1>7. ASSUME Editing(s)', job'[s].op = "create" \/ alone'[s] PROVE PlanOK(s)'
  <2>1. PlanOK(s) /\ seen[s].book \in Book
    BY <1>2, <1>7, EditingFacts
  <2>2. \A x \in Part : /\ db'[<<seen[s].book, x>>] = db[<<seen[s].book, x>>]
                        /\ View(s, <<seen[s].book, x>>)' = View(s, <<seen[s].book, x>>)
    BY <1>2, <1>7 DEF View
  <2>3. \A X \in {Author, Genre} : LinkedIn(db', seen[s].book, X) = LinkedIn(db, seen[s].book, X)
    BY <2>2 DEF LinkedIn, Part
  <2>4. Wanted(s, Author)' = Wanted(s, Author) /\ Wanted(s, Genre)' = Wanted(s, Genre)
    BY <2>3 DEF Wanted
  <2>5. Untouched(s)' <=> Untouched(s)
    BY <1>2 DEF Untouched
  <2>6. \A add, drop : /\ LeadsTo(s, Author, add, drop) => LeadsTo(s, Author, add, drop)'
                       /\ LeadsTo(s, Genre, add, drop) => LeadsTo(s, Genre, add, drop)'
    BY <2>2, <2>4 DEF LeadsTo, Part
  <2> QED
    BY <2>1, <2>4, <2>5, <2>6 DEF PlanOK
<1>8. Told(s)'
  BY <1>1, <1>2 DEF Mine, Told
<1> QED
  BY <1>3, <1>4, <1>5, <1>6, <1>7, <1>8 DEF Mine

-----------------------------------------------------------------------------
(* Steps that commit nothing.                                              *)

(* Only r moves; of rows and history it changes at most what is given.     *)
Steady(r) ==
    /\ db' = db /\ job' = job /\ alone' = alone /\ damaged' = damaged
    /\ given \subseteq given' /\ given' \subseteq Given
    /\ pc' \in [Request -> Label] /\ seen' \in [Request -> Seen]
    /\ \A s \in Request \ {r} : pc'[s] = pc[s] /\ seen'[s] = seen[s]

LEMMA Moves ==
    ASSUME BookInv, NEW r \in Request, NEW label \in Label, Goto(r, label),
           db' = db, job' = job, alone' = alone, damaged' = damaged,
           given' = given \/ (given \subseteq given' /\ given' \subseteq Given),
           NEW x \in Seen, Keep(r, x) \/ (seen' = seen /\ x = seen[r])
    PROVE  Steady(r) /\ pc'[r] = label /\ seen'[r] = x
BY InvTypes DEF Goto, Keep, Steady

LEMMA Stepping ==
    ASSUME BookInv, NEW r \in Request, Running(r), Steady(r), Running(r)',
           pend' \in [Request -> [Rows -> AnyRow \cup {None}]],
           \A s \in Request \ {r} : pend'[s] = pend[s],
           RowLocksExclusive', bucket' \subseteq Upload \cup Cover, Covers', Mine(r)',
           BookOf(r)' = BookOf(r) \/ job[r].op = "create"
    PROVE  BookInv'
<1>1. ASSUME NEW s \in Request PROVE Mine(s)'
  <2>1. CASE s # r
    BY <2>1, OthersStay DEF Steady
  <2> QED
    BY <2>1
<1>2. ASSUME NEW s \in Request PROVE Lone(s)'
  <2>1. \A t \in Request : Running(t)' <=> Running(t)
    BY DEF Steady, Running
  <2>2. \A t \in Request \ {r} : BookOf(t)' = BookOf(t)
    BY DEF Steady, BookOf
  <2>3. Lone(s)
    BY InvTypes
  <2> QED
    BY <2>1, <2>2, <2>3 DEF Lone, Steady
<1>3. RowsOK'
  BY DEF BookInv, RowsOK, Steady
<1> QED
  BY <1>1, <1>2, <1>3 DEF BookInv, Steady

(* A request that goes on with the same book, cover and removal.           *)
SameCover(r) ==
    /\ Editing(r)
    /\ seen'[r] # None /\ seen'[r].book = seen[r].book /\ seen'[r].cover = seen[r].cover
    /\ seen'[r].removed = seen[r].removed

LEMMA CoversStay ==
    ASSUME BookInv, NEW r \in Request, Steady(r), bucket' = bucket,
           \/ SameCover(r)
           \/ seen[r] = None /\ (Editing(r)' => seen'[r].cover = None)
           \/ job[r].op \notin {"create", "update"}
    PROVE  Covers'
<1>1. Covers /\ job' = job /\ damaged' = damaged /\ db' = db /\ bucket' = bucket
  BY DEF BookInv, Steady
<1>2. \A s \in Request \ {r} : seen'[s] = seen[s]
  BY DEF Steady
<1>3. \A s, t \in Request :
        s # t /\ ChangesImage(job'[s]) /\ ChangesImage(job'[t]) /\ job'[s].book = job'[t].book
        => job'[s].book \in damaged'
  BY <1>1 DEF Covers, ChangesImage
<1>4. ASSUME NEW s \in Request, Editing(s)', seen'[s].cover # None
      PROVE  seen'[s].cover \in bucket' \/ seen'[s].book \in damaged'
  <2>1. Editing(s) /\ seen'[s].cover = seen[s].cover /\ seen'[s].book = seen[s].book
    BY <1>1, <1>2, <1>4 DEF Editing, SameCover
  <2> QED
    BY <1>1, <1>4, <2>1 DEF Covers
<1>5. ASSUME NEW b \in Book, Removing(b) PROVE Removing(b)'
  <2>1. PICK s \in Request : job[s].op = "update" /\ seen[s] # None /\ seen[s].book = b /\ seen[s].removed
    BY <1>5 DEF Removing
  <2>2. job'[s].op = "update" /\ seen'[s] # None /\ seen'[s].book = b /\ seen'[s].removed
    BY <1>1, <1>2, <2>1 DEF SameCover
  <2> QED
    BY <2>2 DEF Removing
<1>6. ASSUME NEW c, Promised(c) PROVE Promised(c)'
  <2>1. PICK s \in Request : job[s].op = "create" /\ seen[s] # None /\ seen[s].cover = c
    BY <1>6 DEF Promised
  <2>2. job'[s].op = "create" /\ seen'[s] # None /\ seen'[s].cover = c
    BY <1>1, <1>2, <2>1 DEF SameCover
  <2> QED
    BY <2>2 DEF Promised
<1>7. \A b \in Book : Live(db'[b]) => ImageOK(b)'
  BY <1>1, <1>5 DEF Covers, ImageOK, Steady
<1>8. \A c \in bucket' \cap Cover : db'[c[1]].state # "none" \/ c[1] \in damaged' \/ Promised(c)'
  BY <1>1, <1>6 DEF Covers
<1> QED
  BY <1>3, <1>4, <1>7, <1>8 DEF Covers

(* A statement writes one row, or two, that nobody else holds.             *)
LEMMA RowsWritten ==
    ASSUME BookInv, NEW r \in Request, NEW K \in SUBSET Rows,
           pend' \in [Request -> [Rows -> AnyRow \cup {None}]], db' = db,
           \A s \in Request \ {r} : pend'[s] = pend[s],
           \A k \in K : ~HeldByOther(r, k),
           \A k \in Rows \ K : pend'[r][k] = pend[r][k]
    PROVE  RowLocksExclusive'
<1> SUFFICES ASSUME NEW s \in Request, NEW t \in Request, NEW k \in Rows, s # t, Holds(s, k)', Holds(t, k)'
             PROVE  FALSE
  BY InvTypes DEF RowLocksExclusive, Row
<1>1. \A u \in Request \ {r} : Holds(u, k)' => Holds(u, k)
  BY DEF Holds
<1>2. CASE k \in K
  BY <1>1, <1>2 DEF HeldByOther
<1>3. CASE k \notin K
  <2>1. Holds(s, k) /\ Holds(t, k)
    BY <1>1, <1>3 DEF Holds
  <2> QED
    BY <2>1, InvTypes DEF BookInv, RowLocksExclusive
<1> QED
  BY <1>2, <1>3

LEMMA OneWritten ==
    ASSUME BookInv, NEW r \in Request, NEW k \in Rows, NEW x \in RowType(k), WriteRow(r, k, x)
    PROVE  /\ pend' \in [Request -> [Rows -> AnyRow \cup {None}]] /\ db' = db
           /\ \A s \in Request \ {r} : pend'[s] = pend[s]
           /\ \A o \in Rows : pend'[r][o] = IF o = k THEN x ELSE pend[r][o]
           /\ \A o \in Rows \ {k} : Holds(r, o)' <=> Holds(r, o)
           /\ RowLocksExclusive'
<1>1. /\ pend \in [Request -> [Rows -> AnyRow \cup {None}]] /\ x \in AnyRow
      /\ pend' = [pend EXCEPT ![r][k] = x] /\ db' = db /\ ~HeldByOther(r, k)
  BY InvTypes, RowFacts DEF WriteRow
<1>2. /\ pend' \in [Request -> [Rows -> AnyRow \cup {None}]]
      /\ \A s \in Request \ {r} : pend'[s] = pend[s]
      /\ \A o \in Rows : pend'[r][o] = IF o = k THEN x ELSE pend[r][o]
  BY <1>1
<1>3. RowLocksExclusive'
  <2> DEFINE K == {k}
  <2>1. /\ K \in SUBSET Rows /\ \A o \in K : ~HeldByOther(r, o)
        /\ \A o \in Rows \ K : pend'[r][o] = pend[r][o]
    BY <1>1, <1>2
  <2> HIDE DEF K
  <2> QED
    BY <1>1, <1>2, <2>1, RowsWritten
<1> QED
  BY <1>1, <1>2, <1>3 DEF Holds

LEMMA NoneWritten ==
    ASSUME BookInv, NEW r \in Request, pend' = pend, db' = db
    PROVE  /\ pend' \in [Request -> [Rows -> AnyRow \cup {None}]]
           /\ \A s \in Request \ {r} : pend'[s] = pend[s]
           /\ \A k : Holds(r, k)' <=> Holds(r, k)
           /\ \A k : View(r, k)' = View(r, k)
           /\ RowLocksExclusive'
BY InvTypes DEF BookInv, RowLocksExclusive, Row, Holds, View

LEMMA RunningAt ==
    ASSUME NEW l, NEW op, op \in OpsAt(l)
    PROVE  l \notin {"new", "done", "failed"}
BY DEF OpsAt

(* The steps of the requests that edit no book.                            *)
LEMMA PlainStep ==
    ASSUME BookInv, NEW r \in Request, Running(r), Steady(r), bucket' = bucket,
           job[r].op \notin {"create", "update"}, job[r].op \in OpsAt(pc'[r]), SeenOK(r)', WritesOK(r)',
           seen'[r] = seen[r] \/ (seen'[r] # None /\ seen'[r].book = BookOf(r)),
           pend' \in [Request -> [Rows -> AnyRow \cup {None}]],
           \A s \in Request \ {r} : pend'[s] = pend[s],
           RowLocksExclusive'
    PROVE  BookInv'
<1>1. job'[r] = job[r] /\ Running(r)' /\ ~Editing(r)'
  BY RunningAt DEF Steady, Running, Editing
<1>2. Mine(r)'
  BY <1>1 DEF Mine, Told
<1>3. Covers'
  BY CoversStay
<1>4. BookOf(r)' = BookOf(r)
  BY <1>1 DEF BookOf
<1>5. bucket' \subseteq Upload \cup Cover
  BY InvTypes
<1> QED
  BY <1>1, <1>2, <1>3, <1>4, <1>5, Stepping

(* The steps of a request within its edition of a book.                    *)
LEMMA EditStep ==
    ASSUME BookInv, NEW r \in Request, Editing(r), Steady(r), seen'[r] \in Work,
           seen'[r].book = seen[r].book, job[r].op \in OpsAt(pc'[r]), pc'[r] \notin {"insert", "book"},
           WritesOK(r)', EditingOK(r)', Told(r)', PlanOK(r) => PlanOK(r)',
           bucket' \subseteq Upload \cup Cover, Covers',
           pend' \in [Request -> [Rows -> AnyRow \cup {None}]],
           \A s \in Request \ {r} : pend'[s] = pend[s],
           RowLocksExclusive'
    PROVE  BookInv'
<1>1. job'[r] = job[r] /\ alone'[r] = alone[r] /\ Running(r)' /\ Running(r)
  BY RunningAt, EditingFacts DEF Steady, Running
<1>2. seen'[r] # None /\ seen[r] # None
  BY CatalogAssumption DEF Editing
<1>3. SeenOK(r)'
  BY <1>1, EditingFacts DEF SeenOK
<1>4. job[r].op = "create" \/ alone[r] => PlanOK(r)'
  BY EditingFacts
<1>5. Mine(r)'
  BY <1>1, <1>3, <1>4 DEF Mine
<1>6. BookOf(r)' = BookOf(r)
  BY <1>2 DEF BookOf
<1> QED
  BY <1>1, <1>5, <1>6, Stepping

(* What was noted for it remains so.                                       *)
LEMMA ToldStays ==
    ASSUME BookInv, NEW r \in Request, job' = job, given \subseteq given',
           \/ job[r].op \notin {"create", "update"}
           \/ Editing(r) /\ seen'[r].book = seen[r].book
              /\ pend'[r][seen[r].book] = pend[r][seen[r].book]
    PROVE  Told(r)'
BY InvTypes DEF Told, Editing, Holds

(* What it has written remains its own.                                    *)
LEMMA WritesStay ==
    ASSUME BookInv, NEW r \in Request, db' = db, job' = job, pend' = pend,
           seen'[r] = seen[r] \/ job[r].op \notin {"create", "update"}
             \/ (Editing(r) /\ seen'[r] # None /\ seen'[r].book = seen[r].book)
    PROVE  WritesOK(r)'
<1>1. WritesOK(r) /\ \A k : Holds(r, k)' <=> Holds(r, k)
  BY InvTypes DEF Holds
<1>2. Editing(r) => Editing(r)' /\ seen'[r].book = seen[r].book
  BY DEF Editing
<1>3. \A k \in Rows : Holds(r, k)' => pend'[r][k] \in RowType(k)
  BY <1>1 DEF WritesOK
<1>4. \A b \in Book : Holds(r, b)' =>
         /\ pend'[r][b].state # "none"
         /\ \/ job'[r].op = "delete" /\ ~Live(pend'[r][b])
            \/ Editing(r)' /\ seen'[r].book = b
  BY <1>1, <1>2 DEF WritesOK
<1>5. \A b \in Book, x \in Part : Holds(r, <<b, x>>)' =>
         /\ \/ job'[r].op \in {"link", "unlink", "move"} /\ job'[r].book = b
            \/ Editing(r)' /\ seen'[r].book = b
         /\ job'[r].op # "create" => db'[b].state # "none"
  BY <1>1, <1>2 DEF WritesOK
<1> QED
  BY <1>3, <1>4, <1>5 DEF WritesOK

-----------------------------------------------------------------------------
(* Requests end.                                                           *)

LEMMA Ended ==
    ASSUME BookInv, NEW r \in Request, NEW outcome \in {"done", "failed"}, End(r, outcome),
           pend' = [pend EXCEPT ![r] = NoWrites]
    PROVE  /\ pc' \in [Request -> Label] /\ job' \in [Request -> Job \cup {NoJob}]
           /\ seen' \in [Request -> Seen] /\ pend' \in [Request -> [Rows -> AnyRow \cup {None}]]
           /\ pc'[r] = outcome /\ job'[r] = NoJob /\ seen'[r] = None /\ HoldsNothing(r)'
           /\ \A s \in Request \ {r} : /\ pc'[s] = pc[s] /\ job'[s] = job[s] /\ seen'[s] = seen[s]
                                       /\ pend'[s] = pend[s]
           /\ \A s \in Request : Editing(s)' => s # r /\ Editing(s)
           /\ \A s \in Request : job'[s].op \in {"create", "update"} => s # r /\ job'[s] = job[s]
<1>1. /\ pc \in [Request -> Label] /\ job \in [Request -> Job \cup {NoJob}]
      /\ seen \in [Request -> Seen] /\ pend \in [Request -> [Rows -> AnyRow \cup {None}]]
      /\ NoWrites = [k \in Rows |-> None]
  BY InvTypes DEF NoWrites
<1>2. /\ pc' = [pc EXCEPT ![r] = outcome] /\ job' = [job EXCEPT ![r] = NoJob]
      /\ seen' = [seen EXCEPT ![r] = None]
  BY DEF End, Goto
<1>3. /\ pc' \in [Request -> Label] /\ job' \in [Request -> Job \cup {NoJob}]
      /\ seen' \in [Request -> Seen] /\ pc'[r] = outcome /\ job'[r] = NoJob /\ seen'[r] = None
      /\ \A s \in Request \ {r} : pc'[s] = pc[s] /\ job'[s] = job[s] /\ seen'[s] = seen[s]
  BY <1>1, <1>2 DEF Label, Seen
<1>4. /\ pend' \in [Request -> [Rows -> AnyRow \cup {None}]]
      /\ \A s \in Request \ {r} : pend'[s] = pend[s]
      /\ \A k \in Rows : pend'[r][k] = None
  BY <1>1
<1>5. HoldsNothing(r)'
  BY <1>4 DEF HoldsNothing, Holds
<1> QED
  BY <1>3, <1>4, <1>5 DEF Editing, NoJob

LEMMA Ending ==
    ASSUME BookInv, NEW r \in Request, NEW outcome \in {"done", "failed"}, End(r, outcome),
           pend' = [pend EXCEPT ![r] = NoWrites], given' = given, alone' = alone,
           damaged' \subseteq Book, bucket' \subseteq Upload \cup Cover,
           db' \in [Rows -> AnyRow], \A k \in Rows : db'[k] \in RowType(k), RowsOK', Covers',
           \A b \in Book : db[b].state # "none" => db'[b].state # "none",
           \A s \in Request \ {r} :
             /\ Editing(s) /\ job[s].op = "create" => db'[seen[s].book] = db[seen[s].book]
             /\ Editing(s) /\ (job[s].op = "create" \/ alone[s]) =>
                  \A x \in Part : db'[<<seen[s].book, x>>] = db[<<seen[s].book, x>>]
    PROVE  BookInv'
<1>1. /\ pc' \in [Request -> Label] /\ job' \in [Request -> Job \cup {NoJob}]
      /\ seen' \in [Request -> Seen] /\ pend' \in [Request -> [Rows -> AnyRow \cup {None}]]
      /\ pc'[r] = outcome /\ job'[r] = NoJob /\ seen'[r] = None /\ HoldsNothing(r)'
      /\ \A s \in Request \ {r} : /\ pc'[s] = pc[s] /\ job'[s] = job[s] /\ seen'[s] = seen[s]
                                  /\ pend'[s] = pend[s]
  BY ONLY BookInv, r \in Request, outcome \in {"done", "failed"}, End(r, outcome), pend' = [pend EXCEPT ![r] = NoWrites], Ended
<1>2. Mine(r)'
  <2>1. ~Running(r)' /\ ~Editing(r)' /\ SeenOK(r)'
    BY <1>1 DEF Running, Editing, SeenOK, NoJob
  <2>2. WritesOK(r)'
    BY <1>1, RowFacts DEF WritesOK, HoldsNothing
  <2> QED
    BY <1>1, <2>1, <2>2 DEF Mine, Told
<1>3. \A s \in Request \ {r} : Mine(s)'
  BY <1>1, OthersStay
<1>4. ASSUME NEW s \in Request PROVE Lone(s)'
  <2>1. \A t \in Request : Running(t)' => t # r /\ Running(t) /\ job'[t] = job[t] /\ BookOf(t)' = BookOf(t)
    BY <1>1 DEF Running, BookOf
  <2>2. Lone(s)
    BY InvTypes
  <2> QED
    BY <2>1, <2>2 DEF Lone
<1>5. RowLocksExclusive'
  <2>1. DOMAIN db' = Rows
    OBVIOUS
  <2>2. \A s \in Request, k \in Rows : Holds(s, k)' => s # r /\ Holds(s, k)
    BY <1>1 DEF Holds, HoldsNothing
  <2>3. \A s, t \in Request : \A k \in Rows : Holds(s, k) /\ Holds(t, k) => s = t
    BY InvTypes DEF BookInv, RowLocksExclusive
  <2> QED
    BY <2>1, <2>2, <2>3 DEF RowLocksExclusive, Row
<1>6. alone' \in [Request -> BOOLEAN] /\ given' \subseteq Given
  BY InvTypes
<1> QED
  BY <1>1, <1>2, <1>3, <1>4, <1>5, <1>6 DEF BookInv

(* The covers of a request that fails: those nobody will clean up are      *)
(* noted as damage.                                                        *)
LEMMA CoverOf ==
    ASSUME BookInv, NEW r \in Request, Editing(r), seen[r].cover # None
    PROVE  /\ seen[r].cover = Destination(r) /\ seen[r].cover \in Cover
           /\ seen[r].cover[1] = seen[r].book /\ job[r].image \in Upload
           /\ pc[r] \notin {"head", "copy"}
<1>1. EditingOK(r) /\ seen[r].book \in Book
  BY EditingFacts
<1>2. seen[r].cover = Destination(r) /\ job[r].image \in Upload /\ pc[r] \notin {"head", "copy"}
  BY <1>1 DEF EditingOK
<1>3. ExtOf[job[r].image] \in Ext
  BY <1>2, CatalogAssumption
<1> QED
  BY <1>1, <1>2, <1>3 DEF Destination, Cover

LEMMA AbandonKeeps ==
    ASSUME BookInv, NEW r \in Request, Abandon(r)
    PROVE  BookInv'
<1>1. /\ End(r, "failed") /\ pend' = [pend EXCEPT ![r] = NoWrites] /\ db' = db /\ bucket' = bucket
      /\ given' = given /\ alone' = alone /\ damaged' = damaged \cup LeftBehind(r)
  BY DEF Abandon, Fail, DiscardWrites
<1>2. /\ job'[r] = NoJob
      /\ \A s \in Request \ {r} : job'[s] = job[s] /\ seen'[s] = seen[s]
      /\ \A s \in Request : Editing(s)' => s # r /\ Editing(s)
      /\ \A s \in Request : job'[s].op \in {"create", "update"} => s # r /\ job'[s] = job[s]
  BY <1>1, Ended
<1>3. Covers
  BY DEF BookInv
<1>4. \A s, t \in Request :
        s # t /\ ChangesImage(job'[s]) /\ ChangesImage(job'[t]) /\ job'[s].book = job'[t].book
        => job'[s].book \in damaged'
  BY <1>1, <1>2, <1>3 DEF Covers, ChangesImage
<1>5. \A s \in Request : Editing(s)' /\ seen'[s].cover # None =>
        seen'[s].cover \in bucket' \/ seen'[s].book \in damaged'
  BY <1>1, <1>2, <1>3 DEF Covers
<1>6. ASSUME NEW b \in Book, Removing(b) PROVE Removing(b)' \/ b \in damaged'
  <2>1. PICK s \in Request : job[s].op = "update" /\ seen[s] # None /\ seen[s].book = b /\ seen[s].removed
    BY <1>6 DEF Removing
  <2>2. CASE s = r
    BY <1>1, <2>1, <2>2 DEF LeftBehind
  <2>3. CASE s # r
    BY <1>2, <2>1, <2>3 DEF Removing
  <2> QED
    BY <2>2, <2>3
<1>7. ASSUME NEW c \in Cover, Promised(c) PROVE Promised(c)' \/ c[1] \in damaged'
  <2>1. PICK s \in Request : job[s].op = "create" /\ seen[s] # None /\ seen[s].cover = c
    BY <1>7 DEF Promised
  <2>2. CASE s = r
    <3>1. Editing(r) /\ seen[r].cover # None
      BY <2>1, <2>2, Images DEF Editing
    <3>2. c[1] = seen[r].book /\ seen[r].book \in Book
      BY <2>1, <2>2, <3>1, CoverOf, EditingFacts
    <3> QED
      BY <1>1, <2>1, <2>2, <3>1, <3>2 DEF LeftBehind
  <2>3. CASE s # r
    BY <1>2, <2>1, <2>3 DEF Promised
  <2> QED
    BY <2>2, <2>3
<1>8. Covers'
  <2>1. \A b \in Book : Live(db'[b]) => ImageOK(b)'
    BY <1>1, <1>3, <1>6 DEF Covers, ImageOK
  <2>2. \A c \in bucket' \cap Cover : db'[c[1]].state # "none" \/ c[1] \in damaged' \/ Promised(c)'
    BY <1>1, <1>3, <1>7 DEF Covers
  <2> QED
    BY <1>4, <1>5, <2>1, <2>2 DEF Covers
<1>9. RowsOK'
  BY <1>1 DEF BookInv, RowsOK
<1>10. damaged' \subseteq Book /\ bucket' \subseteq Upload \cup Cover
       /\ db' \in [Rows -> AnyRow] /\ \A k \in Rows : db'[k] \in RowType(k)
  BY <1>1, InvTypes DEF LeftBehind
<1> QED
  BY <1>1, <1>8, <1>9, <1>10, Ending

(* The cover of a creation is on no other request's way.                   *)
LEMMA OwnCover ==
    ASSUME BookInv, NEW r \in Request, Editing(r), job[r].op = "create", seen[r].cover # None,
           NEW s \in Request \ {r}, Editing(s)
    PROVE  seen[s].cover # seen[r].cover
<1> SUFFICES ASSUME seen[s].cover = seen[r].cover PROVE FALSE
  OBVIOUS
<1>1. seen[s].book = seen[r].book /\ seen[r].book \in Rows
  BY CoverOf, EditingFacts, RowFacts
<1>2. Holds(r, seen[r].book) /\ db[seen[r].book].state = "none"
  BY EditingFacts DEF EditingOK, Creating
<1>3. job[s].op = "create"
  BY <1>1, <1>2, EditingFacts DEF EditingOK, Updating
<1>4. Holds(s, seen[r].book)
  BY <1>1, <1>3, EditingFacts DEF EditingOK, Creating
<1> QED
  BY <1>1, <1>2, <1>4, LocksHold

LEMMA CleaningKeeps ==
    ASSUME BookInv, NEW r \in Request, FinalImage(r) # None, Fail(r), bucket' = AfterCleaning(r),
           given' = given, alone' = alone, damaged' = damaged
    PROVE  BookInv'
<1> DEFINE c == seen[r].cover
           b == seen[r].book
<1>1. /\ End(r, "failed") /\ pend' = [pend EXCEPT ![r] = NoWrites] /\ db' = db
  BY DEF Fail, DiscardWrites
<1>2. Editing(r) /\ job[r].op = "create" /\ c # None /\ FinalImage(r) = c
  BY DEF FinalImage, Editing
<1>3. bucket' = bucket \ {c} /\ c \in Cover /\ c[1] = b /\ b \in Book /\ db[b].state = "none"
  BY <1>2, CoverOf, EditingFacts DEF AfterCleaning, EditingOK, Creating
<1>4. /\ job'[r] = NoJob
      /\ \A s \in Request \ {r} : job'[s] = job[s] /\ seen'[s] = seen[s]
      /\ \A s \in Request : Editing(s)' => s # r /\ Editing(s)
      /\ \A s \in Request : job'[s].op \in {"create", "update"} => s # r /\ job'[s] = job[s]
  BY <1>1, Ended
<1>5. Covers
  BY DEF BookInv
<1>6. \A s, t \in Request :
        s # t /\ ChangesImage(job'[s]) /\ ChangesImage(job'[t]) /\ job'[s].book = job'[t].book
        => job'[s].book \in damaged'
  BY <1>4, <1>5 DEF Covers, ChangesImage
<1>7. ASSUME NEW s \in Request, Editing(s)', seen'[s].cover # None
      PROVE  seen'[s].cover \in bucket' \/ seen'[s].book \in damaged'
  <2>1. s # r /\ Editing(s) /\ seen'[s] = seen[s]
    BY <1>4, <1>7
  <2>2. seen[s].cover # c
    BY <1>2, <2>1, OwnCover
  <2> QED
    BY <1>3, <1>5, <1>7, <2>1, <2>2 DEF Covers
<1>8. ASSUME NEW d \in Book, Removing(d) PROVE Removing(d)'
  <2>1. PICK s \in Request : job[s].op = "update" /\ seen[s] # None /\ seen[s].book = d /\ seen[s].removed
    BY <1>8 DEF Removing
  <2> QED
    BY <1>2, <1>4, <2>1 DEF Removing
<1>9. ASSUME NEW d \in Cover, d # c, Promised(d) PROVE Promised(d)'
  <2>1. PICK s \in Request : job[s].op = "create" /\ seen[s] # None /\ seen[s].cover = d
    BY <1>9 DEF Promised
  <2> QED
    BY <1>4, <1>9, <2>1 DEF Promised
<1>10. ASSUME NEW d \in Book, Live(db'[d]) PROVE ImageOK(d)'
  <2>1. d # b /\ db'[d] = db[d]
    BY <1>1, <1>3, <1>10 DEF Live
  <2>2. ImageOK(d)
    BY <1>5, <1>10, <2>1 DEF Covers
  <2> QED
    BY <1>3, <1>8, <2>1, <2>2 DEF ImageOK
<1>11. \A d \in bucket' \cap Cover : db'[d[1]].state # "none" \/ d[1] \in damaged' \/ Promised(d)'
  BY <1>1, <1>3, <1>5, <1>9 DEF Covers
<1>12. Covers'
  BY <1>6, <1>7, <1>10, <1>11 DEF Covers
<1>13. RowsOK'
  BY <1>1 DEF BookInv, RowsOK
<1>14. damaged' \subseteq Book /\ bucket' \subseteq Upload \cup Cover
       /\ db' \in [Rows -> AnyRow] /\ \A k \in Rows : db'[k] \in RowType(k)
  BY <1>1, <1>3, InvTypes
<1> QED
  BY <1>1, <1>12, <1>13, <1>14, Ending

LEMMA RejectKeeps ==
    ASSUME BookInv, NEW r \in Request, Reject(r)
    PROVE  BookInv'
BY AbandonKeeps, CleaningKeeps DEF Reject

(* A commit makes the writes of r the rows that everybody sees.            *)
LEMMA Committed ==
    ASSUME BookInv, NEW r \in Request, CommitWrites(r)
    PROVE  /\ pend' = [pend EXCEPT ![r] = NoWrites]
           /\ db' \in [Rows -> AnyRow] /\ \A k \in Rows : db'[k] = View(r, k) /\ db'[k] \in RowType(k)
           /\ \A k \in Rows : IF Holds(r, k) THEN db'[k] = pend[r][k] ELSE db'[k] = db[k]
           /\ \A b \in Book : db[b].state # "none" => db'[b].state # "none"
<1>1. pend' = [pend EXCEPT ![r] = NoWrites] /\ db' = [k \in Rows |-> View(r, k)]
  BY InvTypes DEF CommitWrites
<1>2. \A k \in Rows : db'[k] = View(r, k) /\ View(r, k) \in RowType(k) /\ View(r, k) \in AnyRow
  BY <1>1, HeldTypes, RowFacts
<1>3. db' \in [Rows -> AnyRow]
  BY <1>1, <1>2
<1>4. \A k \in Rows : IF Holds(r, k) THEN db'[k] = pend[r][k] ELSE db'[k] = db[k]
  BY <1>1 DEF View, Holds
<1>5. ASSUME NEW b \in Book, db[b].state # "none" PROVE db'[b].state # "none"
  <2>1. WritesOK(r) /\ b \in Rows
    BY InvTypes, RowFacts
  <2> QED
    BY <1>4, <1>5, <2>1 DEF WritesOK
<1> QED
  BY <1>1, <1>2, <1>3, <1>4, <1>5

(* The image that a request commits.                                       *)
LEMMA ImageToCommit ==
    ASSUME BookInv, NEW r \in Request, pc[r] = "commit",
           NEW b \in Book, Holds(r, b), Live(pend[r][b])
    PROVE  /\ Editing(r) /\ seen[r].book = b
           /\ \/ pend[r][b].image = Link
              \/ pend[r][b].image = seen[r].cover /\ seen[r].cover # None
              \/ <<b, pend[r][b].image>> \in given
<1>1. Editing(r) /\ seen[r].book = b
  BY InvTypes DEF WritesOK
<1>2. EditingOK(r) /\ job[r] \in Job /\ job[r].op \in {"create", "update"} /\ Told(r)
  BY <1>1, EditingFacts, InvTypes
<1>3. pend[r][b].image = NewImage(r) /\ job[r].image \in FormImage
  <2>1. CASE job[r].op = "create"
    BY <1>1, <1>2, <2>1, JobBooks DEF EditingOK, Creating, Imaging, Promoting
  <2>2. CASE job[r].op = "update"
    BY <1>1, <1>2, <2>2, JobBooks DEF EditingOK, Updating
  <2> QED
    BY <1>2, <2>1, <2>2
<1>4. CASE job[r].image \in Upload
  <2>1. seen[r].cover = Destination(r)
    BY <1>2, <1>4 DEF EditingOK
  <2>2. Destination(r) # None
    BY <1>1, <1>4, CatalogAssumption, Images DEF Destination
  <2> QED
    BY <1>1, <1>3, <1>4, <2>1, <2>2 DEF NewImage
<1>5. CASE job[r].image \notin Upload
  <2>1. pend[r][b].image = job[r].image /\ job[r].image \in Cover \cup {Link, None}
    BY <1>3, <1>5 DEF NewImage, FormImage, Image
  <2> QED
    BY <1>1, <1>2, <2>1 DEF Told
<1> QED
  BY <1>4, <1>5

LEMMA CommitKeeps ==
    ASSUME BookInv, NEW r \in Request, Commit(r)
    PROVE  BookInv'
<1>1. /\ pc[r] = "commit" /\ End(r, "done") /\ CommitWrites(r) /\ bucket' = bucket
      /\ given' = given /\ alone' = alone /\ damaged' = damaged
  BY DEF Commit, Finish, Unmoved
<1>2. /\ pend' = [pend EXCEPT ![r] = NoWrites]
      /\ db' \in [Rows -> AnyRow] /\ \A k \in Rows : db'[k] = View(r, k) /\ db'[k] \in RowType(k)
      /\ \A k \in Rows : IF Holds(r, k) THEN db'[k] = pend[r][k] ELSE db'[k] = db[k]
      /\ \A b \in Book : db[b].state # "none" => db'[b].state # "none"
  BY <1>1, Committed
<1>3. /\ job'[r] = NoJob
      /\ \A s \in Request \ {r} : job'[s] = job[s] /\ seen'[s] = seen[s]
      /\ \A s \in Request : Editing(s)' => s # r /\ Editing(s)
      /\ \A s \in Request : job'[s].op \in {"create", "update"} => s # r /\ job'[s] = job[s]
  BY <1>1, <1>2, Ended
<1>4. Covers /\ RowsOK /\ WritesOK(r)
  BY InvTypes DEF BookInv
<1>5. \A s, t \in Request :
        s # t /\ ChangesImage(job'[s]) /\ ChangesImage(job'[t]) /\ job'[s].book = job'[t].book
        => job'[s].book \in damaged'
  BY <1>1, <1>3, <1>4 DEF Covers, ChangesImage
<1>6. \A s \in Request : Editing(s)' /\ seen'[s].cover # None =>
        seen'[s].cover \in bucket' \/ seen'[s].book \in damaged'
  BY <1>1, <1>3, <1>4 DEF Covers
<1>7. ASSUME NEW b \in Book, Removing(b) PROVE Removing(b)' \/ Holds(r, b)
  <2>1. PICK s \in Request : job[s].op = "update" /\ seen[s] # None /\ seen[s].book = b /\ seen[s].removed
    BY <1>7 DEF Removing
  <2>2. CASE s = r
    <3>1. Editing(r) /\ Updating(r) /\ EditingOK(r)
      BY <2>1, <2>2, EditingFacts DEF Editing, EditingOK
    <3>2. job[r].image \in Upload /\ seen[r].old # seen[r].cover /\ job[r].image # Same
      BY <2>1, <2>2, <3>1, Images DEF Updating
    <3> QED
      BY <1>1, <2>1, <2>2, <3>1, <3>2 DEF Updating, Settled, NewImage
  <2>3. CASE s # r
    BY <1>3, <2>1, <2>3 DEF Removing
  <2> QED
    BY <2>2, <2>3
<1>8. ASSUME NEW c \in Cover, Promised(c) PROVE Promised(c)' \/ db'[c[1]].state # "none"
  <2>1. PICK s \in Request : job[s].op = "create" /\ seen[s] # None /\ seen[s].cover = c
    BY <1>8 DEF Promised
  <2>2. CASE s = r
    <3>1. Editing(r) /\ seen[r].cover # None
      BY <2>1, <2>2, Images DEF Editing
    <3>2. c[1] = seen[r].book /\ seen[r].book \in Book
      BY <2>1, <2>2, <3>1, CoverOf, EditingFacts
    <3>3. Holds(r, c[1]) /\ c[1] \in Rows /\ pend[r][c[1]].state # "none"
      BY <1>4, <2>1, <2>2, <3>1, <3>2, EditingFacts, RowFacts DEF EditingOK, Creating, WritesOK
    <3> QED
      BY <1>2, <3>3
  <2>3. CASE s # r
    BY <1>3, <2>1, <2>3 DEF Promised
  <2> QED
    BY <2>2, <2>3
<1>9. ASSUME NEW b \in Book, Live(db'[b]) PROVE ImageOK(b)'
  <2>1. b \in Rows
    BY RowFacts
  <2>2. CASE Holds(r, b)
    <3>1. db'[b] = pend[r][b]
      BY <1>2, <2>1, <2>2
    <3>2. /\ Editing(r) /\ seen[r].book = b
          /\ \/ db'[b].image = Link
             \/ db'[b].image = seen[r].cover /\ seen[r].cover # None
             \/ <<b, db'[b].image>> \in given
      BY <1>1, <1>9, <2>2, <3>1, ImageToCommit
    <3>3. CASE db'[b].image = Link \/ <<b, db'[b].image>> \in given
      BY <1>1, <3>3 DEF ImageOK
    <3>4. CASE db'[b].image = seen[r].cover /\ seen[r].cover # None
      <4>1. seen[r].cover \in Cover /\ seen[r].cover[1] = b
        BY <3>2, <3>4, CoverOf
      <4>2. seen[r].cover \in bucket \/ b \in damaged
        BY <1>4, <3>2, <3>4 DEF Covers
      <4> QED
        BY <1>1, <3>4, <4>1, <4>2 DEF ImageOK
    <3> QED
      BY <3>2, <3>3, <3>4
  <2>3. CASE ~Holds(r, b)
    <3>1. db'[b] = db[b]
      BY <1>2, <2>1, <2>3
    <3>2. ImageOK(b)
      BY <1>4, <1>9, <3>1 DEF Covers
    <3> QED
      BY <1>1, <1>7, <2>3, <3>1, <3>2 DEF ImageOK
  <2> QED
    BY <2>2, <2>3
<1>10. \A c \in bucket' \cap Cover : db'[c[1]].state # "none" \/ c[1] \in damaged' \/ Promised(c)'
  <2> SUFFICES ASSUME NEW c \in bucket' \cap Cover
               PROVE  db'[c[1]].state # "none" \/ c[1] \in damaged' \/ Promised(c)'
    OBVIOUS
  <2>1. c[1] \in Book
    BY DEF Cover
  <2> QED
    BY <1>1, <1>2, <1>4, <1>8, <2>1 DEF Covers
<1>11. Covers'
  BY <1>5, <1>6, <1>9, <1>10 DEF Covers
<1>12. ASSUME NEW b \in Book, NEW x \in Part, Live(db'[<<b, x>>]) PROVE db'[b].state # "none"
  <2>1. <<b, x>> \in Rows /\ b \in Rows
    BY RowFacts
  <2>2. CASE Holds(r, <<b, x>>)
    <3>1. CASE job[r].op # "create"
      BY <1>2, <1>4, <2>2, <3>1 DEF WritesOK
    <3>2. CASE job[r].op = "create"
      <4>1. Editing(r) /\ seen[r].book = b
        BY <1>4, <2>2, <3>2 DEF WritesOK
      <4>2. Holds(r, b)
        BY <3>2, <4>1, EditingFacts DEF EditingOK, Creating
      <4> QED
        BY <1>2, <1>4, <2>1, <4>2 DEF WritesOK
    <3> QED
      BY <3>1, <3>2
  <2>3. CASE ~Holds(r, <<b, x>>)
    BY <1>2, <1>4, <1>12, <2>1, <2>3 DEF RowsOK
  <2> QED
    BY <2>2, <2>3
<1>13. RowsOK'
  BY <1>12 DEF RowsOK
<1>14. ASSUME NEW s \in Request \ {r}, Editing(s)
       PROVE  /\ job[s].op = "create" => db'[seen[s].book] = db[seen[s].book]
              /\ job[s].op = "create" \/ alone[s] =>
                   \A x \in Part : db'[<<seen[s].book, x>>] = db[<<seen[s].book, x>>]
  <2>1. seen[s].book \in Book /\ seen[s].book \in Rows /\ EditingOK(s)
    BY <1>14, EditingFacts, RowFacts
  <2>2. ASSUME job[s].op = "create" PROVE db'[seen[s].book] = db[seen[s].book]
    <3>1. Holds(s, seen[s].book)
      BY <2>1, <2>2 DEF EditingOK, Creating
    <3>2. ~Holds(r, seen[s].book)
      BY <2>1, <3>1, LocksHold
    <3> QED
      BY <1>2, <2>1, <3>2
  <2>3. ASSUME job[s].op = "create" \/ alone[s], NEW x \in Part
        PROVE  db'[<<seen[s].book, x>>] = db[<<seen[s].book, x>>]
    <3>1. ~Holds(r, <<seen[s].book, x>>)
      BY <1>14, <2>3, Undisturbed
    <3>2. <<seen[s].book, x>> \in Rows
      BY <2>1, RowFacts
    <3> QED
      BY <1>2, <3>1, <3>2
  <2> QED
    BY <2>2, <2>3
<1>15. damaged' \subseteq Book /\ bucket' \subseteq Upload \cup Cover
  BY <1>1, InvTypes
<1> QED
  BY <1>1, <1>2, <1>11, <1>13, <1>14, <1>15, Ending

(* What is committed are the links that were asked for.                    *)
LEMMA CommitAsAsked ==
    ASSUME BookInv, NEW r \in Request, Commit(r), job[r].op \in {"create", "update"}, alone[r]
    PROVE  /\ AskedLinks(r, seen[r].book, Author, job[r].authors)
           /\ AskedLinks(r, seen[r].book, Genre, job[r].genres)
<1> DEFINE b == seen[r].book
<1>1. pc[r] = "commit" /\ CommitWrites(r) /\ Running(r)
  BY DEF Commit, Finish, Running
<1>2. Editing(r)
  <2>1. SeenOK(r)
    BY InvTypes
  <2>2. seen[r] \in Work
    BY <1>1, <2>1 DEF SeenOK
  <2> QED
    BY <2>2, CatalogAssumption DEF Editing
<1>3. LeadsTo(r, Author, {}, {}) /\ LeadsTo(r, Genre, {}, {}) /\ b \in Book /\ job[r] \in Job
  BY <1>1, <1>2, EditingFacts DEF PlanOK
<1>4. \A x \in Part : db'[<<b, x>>] = View(r, <<b, x>>)
  BY <1>1, <1>3, Committed, RowFacts
<1>5. LinkedIn(db', b, Author) = {x \in Author : x \in Wanted(r, Author)}
  BY <1>3, <1>4 DEF LeadsTo, LinkedIn, Part
<1>6. LinkedIn(db', b, Genre) = {x \in Genre : x \in Wanted(r, Genre)}
  BY <1>3, <1>4 DEF LeadsTo, LinkedIn, Part
<1>7. job[r].authors \in (SUBSET Author) \cup {Same} /\ job[r].genres \in (SUBSET Genre) \cup {Same}
  BY <1>3, JobKinds DEF CreateJob, UpdateJob
<1>8. Wanted(r, Author) = IF job[r].authors = Same THEN LinkedIn(db, b, Author) ELSE job[r].authors
  BY DEF Wanted
<1>9. CASE Author = Genre
  BY <1>5, <1>6, <1>7, <1>8, <1>9, CatalogAssumption DEF AskedLinks, Wanted, LinkedIn
<1>10. CASE Author # Genre
  <2>1. Wanted(r, Genre) = IF job[r].genres = Same THEN LinkedIn(db, b, Genre) ELSE job[r].genres
    BY <1>10 DEF Wanted
  <2> QED
    BY <1>5, <1>6, <1>7, <1>8, <2>1 DEF AskedLinks, LinkedIn
<1> QED
  BY <1>9, <1>10

-----------------------------------------------------------------------------
(* The statements of the requests that edit no book.                       *)

LEMMA Labels ==
    /\ Promoting \cup Imaging \cup Settled \subseteq Label
    /\ {"insert", "book", "pair", "unpair", "mapping", "repoint", "remove", "newPart", "part",
        "rename", "commit", "sync"} \subseteq Label
BY DEF Promoting, Imaging, Settled, Label

(* A statement that writes nothing.                                        *)
LEMMA PlainContinue ==
    ASSUME BookInv, NEW r \in Request, Running(r), NEW label \in Label, Continue(r, label), Unmoved,
           job[r].op \notin {"create", "update"}, job[r].op \in OpsAt(label),
           job[r].op = "move" => pc[r] # "mapping" /\ label # "mapping"
    PROVE  BookInv'
<1>1. /\ Goto(r, label) /\ db' = db /\ pend' = pend /\ job' = job /\ seen' = seen
      /\ bucket' = bucket /\ given' = given /\ alone' = alone /\ damaged' = damaged
  BY DEF Continue, Unmoved
<1>2. seen[r] \in Seen /\ SeenOK(r)
  BY InvTypes
<1>3. Steady(r) /\ pc'[r] = label
  BY <1>1, <1>2, Moves
<1>4. SeenOK(r)'
  BY <1>1, <1>2, <1>3 DEF SeenOK
<1>5. WritesOK(r)'
  BY <1>1, WritesStay
<1> QED
  BY <1>1, <1>3, <1>4, <1>5, NoneWritten, PlainStep

(* A statement that writes one row.                                        *)
LEMMA PlainWrite ==
    ASSUME BookInv, NEW r \in Request, Running(r), NEW k \in Rows, NEW x \in RowType(k),
           Write(r, k, x, "commit"), Unmoved,
           job[r].op \notin {"create", "update", "move"}, job[r].op \in OpsAt(pc[r]),
           k \in Book => job[r].op = "delete" /\ x.state # "none" /\ ~Live(x),
           \A b \in Book, y \in Part : k = <<b, y>> =>
             job[r].op \in {"link", "unlink"} /\ job[r].book = b /\ db[b].state # "none"
    PROVE  BookInv'
<1>1. /\ WriteRow(r, k, x) /\ Goto(r, "commit") /\ job' = job /\ seen' = seen
      /\ bucket' = bucket /\ given' = given /\ alone' = alone /\ damaged' = damaged /\ db' = db
  BY DEF Write, Unmoved, WriteRow
<1>2. seen[r] \in Seen /\ SeenOK(r) /\ WritesOK(r)
  BY InvTypes
<1>3. Steady(r) /\ pc'[r] = "commit"
  BY <1>1, <1>2, Labels, Moves
<1>4. SeenOK(r)'
  BY <1>1, <1>2 DEF SeenOK
<1>5. /\ pend' \in [Request -> [Rows -> AnyRow \cup {None}]]
      /\ \A s \in Request \ {r} : pend'[s] = pend[s]
      /\ \A o \in Rows : pend'[r][o] = IF o = k THEN x ELSE pend[r][o]
      /\ \A o \in Rows \ {k} : Holds(r, o)' <=> Holds(r, o)
      /\ RowLocksExclusive'
  BY <1>1, OneWritten
<1>6. WritesOK(r)'
  <2>1. \A o \in Rows : Holds(r, o)' => pend'[r][o] \in RowType(o)
    BY <1>2, <1>5 DEF WritesOK
  <2>2. ASSUME NEW b \in Book, Holds(r, b)'
        PROVE  /\ pend'[r][b].state # "none"
               /\ \/ job'[r].op = "delete" /\ ~Live(pend'[r][b])
                  \/ Editing(r)' /\ seen'[r].book = b
    <3>1. b \in Rows
      BY RowFacts
    <3>2. CASE b = k
      BY <1>1, <1>5, <3>1, <3>2
    <3>3. CASE b # k
      <4>1. Holds(r, b) /\ pend'[r][b] = pend[r][b]
        BY <1>5, <2>2, <3>1, <3>3
      <4> QED
        BY <1>1, <1>2, <4>1 DEF WritesOK, Editing
    <3> QED
      BY <3>2, <3>3
  <2>3. ASSUME NEW b \in Book, NEW y \in Part, Holds(r, <<b, y>>)'
        PROVE  /\ job'[r].op \in {"link", "unlink", "move"} /\ job'[r].book = b
               /\ db'[b].state # "none"
    <3>1. <<b, y>> \in Rows
      BY RowFacts
    <3>2. CASE <<b, y>> = k
      BY <1>1, <3>2
    <3>3. CASE <<b, y>> # k
      <4>1. Holds(r, <<b, y>>)
        BY <1>5, <2>3, <3>1, <3>3
      <4> QED
        BY <1>1, <1>2, <4>1 DEF WritesOK, Editing
    <3> QED
      BY <3>2, <3>3
  <2> QED
    BY <2>1, <2>2, <2>3 DEF WritesOK
<1>7. job[r].op \in OpsAt("commit")
  <2>1. job[r] \in Job
    BY RunningOps
  <2> QED
    BY <2>1, JobKinds DEF OpsAt
<1> QED
  BY <1>1, <1>3, <1>4, <1>5, <1>6, <1>7, PlainStep

LEMMA PairOfFacts ==
    ASSUME NEW j \in Job, j.op \in {"link", "unlink", "rate", "move"}
    PROVE  /\ j.book \in Book /\ PairOf(j) \in Rows /\ RowType(PairOf(j)) = PairRow
           /\ PairOf(j)[1] = j.book /\ PairOf(j) \notin Book
           /\ \A b \in Book, y \in Part : PairOf(j) = <<b, y>> => j.op # "rate" /\ b = j.book
           /\ j.op # "rate" => j.part \in Part /\ PairOf(j) = <<j.book, j.part>>
           /\ j.op = "move" => j.to \in Author
<1>1. j.book \in Book
  BY JobBooks
<1>2. CASE j.op = "rate"
  <2>1. j.reader \in Reader /\ PairOf(j) = <<j.book, j.reader>>
    BY <1>2, JobKinds DEF RateJob, PairOf
  <2>2. PairOf(j) \in Pair(Reader)
    BY <1>1, <2>1 DEF Pair
  <2> QED
    BY <1>1, <1>2, <2>1, <2>2, RowFacts, CatalogAssumption
<1>3. CASE j.op # "rate"
  <2>1. j.part \in Part /\ (j.op = "move" => j.to \in Author)
    BY <1>3, JobKinds DEF LinkJob, UnlinkJob, MoveJob, Part
  <2>2. PairOf(j) = <<j.book, j.part>> /\ PairOf(j) \in Pair(Part)
    BY <1>1, <1>3, <2>1, RowFacts DEF PairOf
  <2> QED
    BY <1>1, <1>3, <2>1, <2>2, RowFacts
<1> QED
  BY <1>2, <1>3

(* A request that links or unlinks has not written the book.               *)
LEMMA BookAsCommitted ==
    ASSUME BookInv, NEW r \in Request, job[r].op \in {"link", "unlink", "move"}, NEW b \in Book
    PROVE  View(r, b) = db[b]
<1>1. ~Holds(r, b)
  BY InvTypes DEF WritesOK, Editing
<1> QED
  BY <1>1 DEF View, Holds

LEMMA InsertPairKeeps ==
    ASSUME BookInv, NEW r \in Request, InsertPair(r)
    PROVE  BookInv'
<1> DEFINE p == PairOf(job[r])
<1>1. CASE ~MayPair(r, p) /\ Abandon(r)
  BY <1>1, AbandonKeeps
<1>2. CASE MayPair(r, p) /\ Write(r, p, [state |-> "live", by |-> r], "commit") /\ Unmoved
  <2>1. Running(r) /\ pc[r] = "pair"
    BY DEF InsertPair, Running
  <2>2. job[r] \in Job /\ job[r].op \in {"link", "rate"} /\ job[r].op \in OpsAt(pc[r])
    BY <2>1, RunningOps DEF OpsAt
  <2>3. p \in Rows /\ RowType(p) = PairRow /\ p[1] = job[r].book /\ job[r].book \in Book /\ p \notin Book
        /\ \A b \in Book, y \in Part : p = <<b, y>> => job[r].op # "rate" /\ b = job[r].book
    BY <2>2, PairOfFacts
  <2>4. [state |-> "live", by |-> r] \in RowType(p)
    BY <2>3 DEF PairRow
  <2>5. View(r, job[r].book).state # "none"
    BY <1>2, <2>3 DEF MayPair, Exists
  <2>6. \A b \in Book, y \in Part : p = <<b, y>> =>
          job[r].op \in {"link", "unlink"} /\ job[r].book = b /\ db[b].state # "none"
    BY <2>2, <2>3, <2>5, BookAsCommitted
  <2> HIDE DEF p
  <2> QED
    BY <1>2, <2>1, <2>2, <2>3, <2>4, <2>6, PlainWrite
<1> QED
  BY <1>1, <1>2 DEF InsertPair

(* The book of a link that r sees is there.                                *)
LEMMA LinkSeen ==
    ASSUME BookInv, NEW r \in Request, NEW b \in Book, NEW x \in Part, Live(View(r, <<b, x>>)),
           job[r].op # "create"
    PROVE  db[b].state # "none"
<1>1. <<b, x>> \in Rows /\ WritesOK(r) /\ RowsOK
  BY InvTypes, RowFacts DEF BookInv
<1>2. CASE Holds(r, <<b, x>>)
  BY <1>1, <1>2 DEF WritesOK
<1>3. CASE ~Holds(r, <<b, x>>)
  BY <1>1, <1>3, HeldTypes DEF RowsOK
<1> QED
  BY <1>2, <1>3

(* A deleted row is of the kind it was.                                    *)
LEMMA DeletedRow ==
    ASSUME NEW k, NEW x \in RowType(k)
    PROVE  /\ [x EXCEPT !.state = "deleted"] \in RowType(k)
           /\ [x EXCEPT !.state = "deleted"].state = "deleted"
BY DEF RowType, BookRow, PartRow, PairRow

LEMMA DeletePairKeeps ==
    ASSUME BookInv, NEW r \in Request, DeletePair(r)
    PROVE  BookInv'
<1> DEFINE p == PairOf(job[r])
           x == [View(r, p) EXCEPT !.state = "deleted"]
<1>1. CASE ~Live(View(r, p)) /\ Abandon(r)
  BY <1>1, AbandonKeeps
<1>2. CASE Live(View(r, p)) /\ Write(r, p, x, "commit") /\ Unmoved
  <2>1. Running(r) /\ pc[r] = "unpair"
    BY DEF DeletePair, Running
  <2>2. job[r] \in Job /\ job[r].op = "unlink" /\ job[r].op \in OpsAt(pc[r])
    BY <2>1, RunningOps DEF OpsAt
  <2>3. p \in Rows /\ job[r].book \in Book /\ p \notin Book
        /\ job[r].part \in Part /\ p = <<job[r].book, job[r].part>>
        /\ \A b \in Book, y \in Part : p = <<b, y>> => b = job[r].book
    BY <2>2, PairOfFacts
  <2>4. x \in RowType(p)
    BY <2>3, HeldTypes, DeletedRow
  <2>5. db[job[r].book].state # "none"
    BY <1>2, <2>2, <2>3, LinkSeen
  <2>6. \A b \in Book, y \in Part : p = <<b, y>> =>
          job[r].op \in {"link", "unlink"} /\ job[r].book = b /\ db[b].state # "none"
    BY <2>2, <2>3, <2>5
  <2> HIDE DEF p, x
  <2> QED
    BY <1>2, <2>1, <2>2, <2>3, <2>4, <2>6, PlainWrite
<1> QED
  BY <1>1, <1>2 DEF DeletePair

LEMMA RemoveRowKeeps ==
    ASSUME BookInv, NEW r \in Request, RemoveRow(r)
    PROVE  BookInv'
<1> DEFINE k == IF job[r].op = "delete" THEN job[r].book ELSE job[r].part
           x == [View(r, k) EXCEPT !.state = "deleted"]
<1>1. CASE ~Live(View(r, k)) /\ Abandon(r)
  BY <1>1, AbandonKeeps
<1>2. CASE Live(View(r, k)) /\ Write(r, k, x, "commit") /\ Unmoved
  <2>1. Running(r) /\ pc[r] = "remove"
    BY DEF RemoveRow, Running
  <2>2. job[r] \in Job /\ job[r].op \in {"delete", "dropPart"} /\ job[r].op \in OpsAt(pc[r])
    BY <2>1, RunningOps DEF OpsAt
  <2>3. k \in Book \cup Part /\ (k \in Book => job[r].op = "delete")
    BY <2>2, JobBooks, JobKinds, CatalogAssumption DEF DropPartJob
  <2>4. k \in Rows /\ x \in RowType(k) /\ x.state = "deleted"
    BY <2>3, RowFacts, HeldTypes, DeletedRow
  <2>5. \A b \in Book, y \in Part : k # <<b, y>>
    BY <2>3, RowFacts
  <2> HIDE DEF k, x
  <2> QED
    BY <1>2, <2>1, <2>2, <2>3, <2>4, <2>5, PlainWrite DEF Live
<1> QED
  BY <1>1, <1>2 DEF RemoveRow

LEMMA StorePartKeeps ==
    ASSUME BookInv, NEW r \in Request, Running(r), job[r].op \in {"newAuthor", "newGenre", "rename"},
           NEW k \in Part, NEW x \in PartRow, StorePart(r, k, x)
    PROVE  BookInv'
<1>1. CASE Taken(r, k, x) /\ Abandon(r)
  BY <1>1, AbandonKeeps
<1>2. CASE ~Taken(r, k, x) /\ Write(r, k, x, "commit") /\ Unmoved
  <2>1. k \in Rows /\ k \notin Book /\ x \in RowType(k) /\ \A b \in Book, y \in Part : k # <<b, y>>
    BY RowFacts
  <2>2. job[r].op \in OpsAt(pc[r])
    BY RunningOps
  <2> QED
    BY <1>2, <2>1, <2>2, PlainWrite
<1> QED
  BY <1>1, <1>2 DEF StorePart

LEMMA InsertPartKeeps ==
    ASSUME BookInv, NEW r \in Request, InsertPart(r)
    PROVE  BookInv'
<1>1. Running(r) /\ pc[r] = "newPart"
  BY DEF InsertPart, Running
<1>2. job[r].op \in {"newAuthor", "newGenre"} /\ job[r] \in NewPartJob
  BY <1>1, RunningOps, JobKinds DEF OpsAt
<1>3. PICK k \in Part : StorePart(r, k, [state |-> "live", name |-> job[r].name])
  BY DEF InsertPart, Part
<1>4. [state |-> "live", name |-> job[r].name] \in PartRow
  BY <1>2 DEF NewPartJob, PartRow
<1> QED
  BY <1>1, <1>2, <1>3, <1>4, StorePartKeeps

LEMMA RenamePartKeeps ==
    ASSUME BookInv, NEW r \in Request, RenamePart(r)
    PROVE  BookInv'
<1> DEFINE x == [View(r, job[r].part) EXCEPT !.name = job[r].name]
<1>1. Running(r) /\ pc[r] = "rename" /\ StorePart(r, job[r].part, x)
  BY DEF RenamePart, Running
<1>2. job[r].op = "rename" /\ job[r] \in RenameJob
  BY <1>1, RunningOps, JobKinds DEF OpsAt
<1>3. job[r].part \in Part /\ job[r].name \in Name
  BY <1>2 DEF RenameJob
<1>4. View(r, job[r].part) \in PartRow
  BY <1>3, RowFacts, HeldTypes
<1>5. x \in PartRow
  BY <1>3, <1>4 DEF PartRow
<1> HIDE DEF x
<1> QED
  BY <1>1, <1>2, <1>3, <1>5, StorePartKeeps

LEMMA ReadPartKeeps ==
    ASSUME BookInv, NEW r \in Request, ReadPart(r)
    PROVE  BookInv'
<1>1. Running(r) /\ pc[r] = "part"
  BY DEF ReadPart, Running
<1>2. job[r].op = "rename"
  BY <1>1, RunningOps DEF OpsAt
<1>3. CASE Abandon(r)
  BY <1>3, AbandonKeeps
<1>4. ASSUME NEW label \in {"commit", "rename"}, Continue(r, label), Unmoved PROVE BookInv'
  <2>1. label \in Label /\ job[r].op \in OpsAt(label)
    BY <1>2, Labels DEF OpsAt
  <2> QED
    BY <1>1, <1>2, <1>4, <2>1, PlainContinue
<1> QED
  BY <1>3, <1>4 DEF ReadPart

LEMMA ReadMappingKeeps ==
    ASSUME BookInv, NEW r \in Request, ReadMapping(r)
    PROVE  BookInv'
<1> DEFINE p == PairOf(job[r])
           row == View(r, p)
           x == [book |-> job[r].book, by |-> row.by]
<1>1. CASE Abandon(r)
  BY <1>1, AbandonKeeps
<1>2. ASSUME NEW label \in {"commit", "repoint"}, Read(r, x, label), Unmoved PROVE BookInv'
  <2>1. Running(r) /\ pc[r] = "mapping"
    BY DEF ReadMapping, Running
  <2>2. job[r].op = "move" /\ job[r] \in Job
    BY <2>1, RunningOps DEF OpsAt
  <2>3. p \in Rows /\ RowType(p) = PairRow /\ job[r].book \in Book
    BY <2>2, PairOfFacts
  <2>4. row \in PairRow
    BY <2>3, HeldTypes
  <2>5. x \in Mapping /\ x.book = job[r].book
    BY <2>3, <2>4 DEF Mapping, PairRow
  <2>6. x # None /\ x \in Seen /\ label \in Label
    BY <2>5, CatalogAssumption, Labels DEF Seen
  <2> HIDE DEF x
  <2>7. /\ Goto(r, label) /\ Keep(r, x) /\ db' = db /\ pend' = pend /\ job' = job
        /\ bucket' = bucket /\ given' = given /\ alone' = alone /\ damaged' = damaged
    BY <1>2 DEF Read, Unmoved
  <2>8. Steady(r) /\ pc'[r] = label /\ seen'[r] = x
    BY <2>6, <2>7, Moves
  <2>9. SeenOK(r)'
    BY <2>2, <2>5, <2>7, <2>8 DEF SeenOK
  <2>10. WritesOK(r)'
    BY <2>2, <2>7, WritesStay
  <2>11. job[r].op \in OpsAt(label)
    BY <2>2 DEF OpsAt
  <2>12. BookOf(r) = job[r].book
    BY <2>1, <2>2, BookOfFacts
  <2>13. seen'[r] # None /\ seen'[r].book = BookOf(r)
    BY <2>5, <2>6, <2>8, <2>12
  <2> QED
    BY <2>1, <2>2, <2>7, <2>8, <2>9, <2>10, <2>11, <2>13, NoneWritten, PlainStep
<1> QED
  BY <1>1, <1>2 DEF ReadMapping

LEMMA RepointKeeps ==
    ASSUME BookInv, NEW r \in Request, Repoint(r)
    PROVE  BookInv'
<1> DEFINE b == job[r].book
           p == PairOf(job[r])
           q == <<b, job[r].to>>
           x == [View(r, p) EXCEPT !.state = "deleted"]
           y == [state |-> "live", by |-> seen[r].by]
           moved == [pend EXCEPT ![r] = [@ EXCEPT ![p] = x, ![q] = y]]
<1>1. Running(r) /\ pc[r] = "repoint" /\ ~HeldByOther(r, p)
  BY DEF Repoint, Running
<1>2. job[r].op = "move" /\ job[r] \in Job
  BY <1>1, RunningOps DEF OpsAt
<1>3. CASE Abandon(r)
  BY <1>3, AbandonKeeps
<1>4. CASE Continue(r, "commit") /\ Unmoved
  <2>1. "commit" \in Label /\ job[r].op \in OpsAt("commit")
    BY <1>2, Labels DEF OpsAt
  <2> QED
    BY <1>1, <1>2, <1>4, <2>1, PlainContinue
<1>5. CASE /\ ~HeldByOther(r, q) /\ MayPair(r, q)
           /\ pend' = moved
           /\ Goto(r, "commit") /\ UNCHANGED <<db, job, seen>> /\ Unmoved
  <2>1. /\ p \in Rows /\ RowType(p) = PairRow /\ b \in Book /\ job[r].to \in Part
        /\ job[r].part \in Part /\ p = <<b, job[r].part>>
    BY <1>2, PairOfFacts DEF Part
  <2>2. q \in Rows /\ RowType(q) = PairRow
    BY <2>1, RowFacts
  <2>3. x \in PairRow
    BY <2>1, HeldTypes, DeletedRow
  <2>4. SeenOK(r) /\ WritesOK(r) /\ seen[r] \in Seen
    BY InvTypes
  <2>5. y \in PairRow
    BY <1>1, <1>2, <2>4 DEF SeenOK, Mapping, PairRow
  <2>6. db[b].state # "none"
    <3>1. View(r, b).state # "none"
      BY <1>5 DEF MayPair, Exists
    <3> QED
      BY <1>2, <2>1, <3>1, BookAsCommitted
  <2>7. /\ \A o \in Book : o # p /\ o # q
        /\ \A c \in Book, z \in Part : <<c, z>> \in {p, q} => c = b
    BY <2>1, <2>2, RowFacts
  <2>8. x \in AnyRow /\ y \in AnyRow
    BY <2>3, <2>5 DEF AnyRow
  <2>9. /\ db' = db /\ job' = job /\ seen' = seen /\ bucket' = bucket
        /\ given' = given /\ alone' = alone /\ damaged' = damaged /\ pend' = moved /\ Goto(r, "commit")
    BY <1>5 DEF Unmoved
  <2> HIDE DEF p, q, x, y
  <2>10. /\ pend' \in [Request -> [Rows -> AnyRow \cup {None}]]
         /\ \A s \in Request \ {r} : pend'[s] = pend[s]
         /\ \A o \in Rows : pend'[r][o] = IF o = q THEN y ELSE IF o = p THEN x ELSE pend[r][o]
    <3>1. pend \in [Request -> [Rows -> AnyRow \cup {None}]]
      BY InvTypes
    <3>2. pend'[r] = [pend[r] EXCEPT ![p] = x, ![q] = y]
      BY <2>9, <3>1
    <3>3. pend'[r] \in [Rows -> AnyRow \cup {None}]
      BY <2>1, <2>2, <2>8, <3>1, <3>2
    <3>4. \A o \in Rows : pend'[r][o] = IF o = q THEN y ELSE IF o = p THEN x ELSE pend[r][o]
      BY <2>1, <2>2, <3>1, <3>2
    <3> QED
      BY <2>9, <3>1, <3>3, <3>4
  <2>11. RowLocksExclusive'
    <3> DEFINE K == {p, q}
    <3>1. /\ K \in SUBSET Rows /\ \A o \in K : ~HeldByOther(r, o)
          /\ \A o \in Rows \ K : pend'[r][o] = pend[r][o]
      BY <1>1, <1>5, <2>1, <2>2, <2>10 DEF q
    <3> HIDE DEF K
    <3> QED
      BY <2>9, <2>10, <3>1, RowsWritten
  <2>12. Steady(r) /\ pc'[r] = "commit"
    BY <2>4, <2>9, Labels, Moves
  <2>13. SeenOK(r)'
    BY <1>1, <1>2, <2>4, <2>9, <2>12 DEF SeenOK
  <2>14. WritesOK(r)'
    <3>1. \A o \in Rows : Holds(r, o)' => pend'[r][o] \in RowType(o)
      <4>1. \A o \in Rows : Holds(r, o)' => o \in {p, q} \/ (Holds(r, o) /\ pend'[r][o] = pend[r][o])
        BY <2>10 DEF Holds
      <4> QED
        BY <2>1, <2>2, <2>3, <2>4, <2>5, <2>10, <4>1 DEF WritesOK
    <3>2. \A o \in Rows \ {p, q} : (Holds(r, o)' <=> Holds(r, o)) /\ pend'[r][o] = pend[r][o]
      BY <2>10 DEF Holds
    <3>3. \A c \in Book : ~Holds(r, c)'
      <4>1. \A c \in Book : ~Holds(r, c)
        BY <1>2, <2>4 DEF WritesOK, Editing
      <4> QED
        BY <2>7, <3>2, <4>1, RowFacts
    <3>4. ASSUME NEW c \in Book, NEW z \in Part, Holds(r, <<c, z>>)'
          PROVE  job[r].book = c /\ db[c].state # "none"
      <4>1. CASE <<c, z>> \in {p, q}
        BY <2>6, <2>7, <4>1
      <4>2. CASE <<c, z>> \notin {p, q}
        <5>1. <<c, z>> \in Rows
          BY RowFacts
        <5>2. Holds(r, <<c, z>>)
          BY <3>2, <3>4, <4>2, <5>1
        <5> QED
          BY <1>2, <2>4, <5>2 DEF WritesOK, Editing
      <4> QED
        BY <4>1, <4>2
    <3> QED
      BY <1>2, <2>9, <3>1, <3>3, <3>4 DEF WritesOK
  <2>15. job[r].op \in OpsAt("commit")
    BY <1>2 DEF OpsAt
  <2> QED
    BY <1>1, <1>2, <2>9, <2>10, <2>11, <2>12, <2>13, <2>14, <2>15, PlainStep
<1> QED
  BY <1>3, <1>4, <1>5 DEF Repoint

-----------------------------------------------------------------------------
(* A creation or an update takes its book.                                 *)

LEMMA WorkingFacts ==
    ASSUME NEW b \in Book, NEW old \in Image
    PROVE  /\ Working(b, old) \in Work /\ Working(b, old) \in Seen /\ Working(b, old) # None
           /\ Working(b, old).book = b /\ Working(b, old).old = old /\ Working(b, old).cover = None
           /\ Working(b, old).removed = FALSE /\ Working(b, old).plan = NoPlan
<1>1. NoPlan \in [1..4 -> SUBSET Part]
  BY DEF NoPlan
<1>2. Working(b, old) \in Work
  BY <1>1 DEF Working, Work
<1> QED
  BY <1>2, CatalogAssumption DEF Working, Seen

LEMMA AsGivenFacts ==
    ASSUME BookInv, NEW r \in Request, NEW b \in Book, given' = given \cup AsGiven(r, b)
    PROVE  /\ given \subseteq given' /\ given' \subseteq Given
           /\ job[r].image \in Cover \cup {None} => <<b, job[r].image>> \in given'
BY InvTypes DEF AsGiven, Given

LEMMA InsertBookKeeps ==
    ASSUME BookInv, NEW r \in Request, InsertBook(r)
    PROVE  BookInv'
<1> DEFINE image == IF job[r].image \in Upload THEN None ELSE job[r].image
           x == [state |-> "live", image |-> image]
           label == IF job[r].image \in Upload THEN "head" ELSE "validate"
<1>1. PICK b \in Book : /\ Fresh(b) /\ WriteRow(r, b, x) /\ Keep(r, Working(b, None))
                        /\ given' = given \cup AsGiven(r, b)
  BY DEF InsertBook
<1>2. /\ Running(r) /\ pc[r] = "insert" /\ Goto(r, label) /\ job' = job
      /\ bucket' = bucket /\ alone' = alone /\ damaged' = damaged
  BY DEF InsertBook, Running
<1>3. job[r].op = "create" /\ job[r] \in Job /\ job[r].image \in FormImage
  BY <1>2, RunningOps, JobBooks DEF OpsAt
<1>4. SeenOK(r) /\ WritesOK(r) /\ b \in Rows
  BY InvTypes, RowFacts
<1>5. seen[r] = None
  BY <1>2, <1>3, <1>4 DEF SeenOK
<1>6. image \in Image /\ x \in BookRow /\ x \in RowType(b)
  BY <1>3, Images, RowFacts DEF BookRow, FormImage
<1>7. /\ Working(b, None) \in Work /\ Working(b, None) \in Seen /\ Working(b, None) # None
      /\ Working(b, None).book = b /\ Working(b, None).old = None /\ Working(b, None).cover = None
      /\ Working(b, None).removed = FALSE
  <2>1. None \in Image
    BY DEF Image
  <2> QED
    BY <2>1, WorkingFacts
<1>8. label \in Label /\ job[r].op \in OpsAt(label)
  BY <1>3 DEF Label, OpsAt
<1>9. /\ pend' \in [Request -> [Rows -> AnyRow \cup {None}]] /\ db' = db
      /\ \A s \in Request \ {r} : pend'[s] = pend[s]
      /\ \A o \in Rows : pend'[r][o] = IF o = b THEN x ELSE pend[r][o]
      /\ \A o \in Rows \ {b} : Holds(r, o)' <=> Holds(r, o)
      /\ RowLocksExclusive'
  BY <1>1, <1>4, <1>6, OneWritten
<1>10. Steady(r) /\ pc'[r] = label /\ seen'[r] = Working(b, None)
  BY <1>1, <1>2, <1>7, <1>8, <1>9, AsGivenFacts, Moves
<1>11. Editing(r)' /\ seen'[r].book = b /\ Running(r)' /\ job'[r] = job[r]
  BY <1>2, <1>3, <1>7, <1>8, <1>10, RunningAt DEF Editing, Running
<1>12. SeenOK(r)'
  BY <1>3, <1>7, <1>10, <1>11 DEF SeenOK
<1>13. /\ pend'[r][b] = x /\ x # None /\ db[b].state = "none"
  BY <1>1, <1>4, <1>6, <1>9, RowFacts DEF Fresh
<1>14. \A c \in Book, y \in Part : ~Holds(r, <<c, y>>)'
  <2>1. \A c \in Book, y \in Part : ~Holds(r, <<c, y>>) /\ <<c, y>> \in Rows /\ <<c, y>> # b
    BY <1>3, <1>4, <1>5, RowFacts DEF WritesOK, Editing
  <2> QED
    BY <1>9, <2>1
<1>15. WritesOK(r)'
  <2>1. \A o \in Rows : Holds(r, o)' => pend'[r][o] \in RowType(o)
    BY <1>4, <1>6, <1>9 DEF WritesOK
  <2>2. \A c \in Book : Holds(r, c)' => c = b
    <3>1. \A c \in Book : ~Holds(r, c) /\ c \in Rows
      BY <1>3, <1>4, <1>5, RowFacts DEF WritesOK, Editing
    <3> QED
      BY <1>9, <3>1
  <2>3. \A c \in Book : Holds(r, c)' =>
         /\ pend'[r][c].state # "none"
         /\ Editing(r)' /\ seen'[r].book = c
    BY <1>11, <1>13, <2>2
  <2> QED
    BY <1>14, <2>1, <2>3 DEF WritesOK
<1>16. EditingOK(r)'
  <2>1. seen'[r].cover = IF job'[r].image \in Upload /\ pc'[r] \notin {"head", "copy"}
                         THEN Destination(r)' ELSE None
    BY <1>7, <1>10, <1>11
  <2>2. Creating(r)'
    <3>1. Holds(r, b)' /\ Live(pend'[r][b]) /\ db'[b].state = "none"
      BY <1>9, <1>13 DEF Holds, Live
    <3>2. pc'[r] \in Imaging <=> job[r].image \in Upload
      BY <1>10 DEF Imaging, Promoting
    <3>3. job[r].image \notin Upload => NewImage(r)' = job[r].image
      BY <1>11 DEF NewImage
    <3>4. pend'[r][b].image = IF pc'[r] \in Imaging THEN None ELSE NewImage(r)'
      BY <1>13, <3>2, <3>3
    <3> QED
      BY <1>7, <1>10, <1>11, <3>1, <3>2, <3>4 DEF Creating
  <2> QED
    BY <1>3, <1>11, <2>1, <2>2 DEF EditingOK
<1>17. PlanOK(r)'
  <2>1. Untouched(r)'
    BY <1>11, <1>14 DEF Untouched
  <2> QED
    BY <1>3, <1>10, <1>11, <2>1 DEF PlanOK
<1>18. Mine(r)'
  <2>1. Told(r)'
    BY <1>1, <1>11, AsGivenFacts DEF Told
  <2> QED
    BY <1>8, <1>10, <1>11, <1>12, <1>15, <1>16, <1>17, <2>1 DEF Mine
<1>19. Covers'
  BY <1>2, <1>5, <1>7, <1>10, CoversStay
<1>20. bucket' \subseteq Upload \cup Cover
  BY <1>2, InvTypes
<1> HIDE DEF image, x, label
<1> QED
  BY <1>2, <1>3, <1>9, <1>10, <1>11, <1>18, <1>19, <1>20, Stepping

LEMMA ReadBookKeeps ==
    ASSUME BookInv, NEW r \in Request, ReadBook(r)
    PROVE  BookInv'
<1> DEFINE b == job[r].book
           x == View(r, b)
           w == Working(b, x.image)
           label == IF job[r].image \in Upload THEN "head"
                    ELSE IF job[r].image = Same THEN "defaults" ELSE "load"
<1>1. CASE Abandon(r)
  BY <1>1, AbandonKeeps
<1>2. CASE Live(x) /\ Read(r, w, label) /\ Unmoved
  <2>1. /\ Running(r) /\ pc[r] = "book" /\ Goto(r, label) /\ Keep(r, w) /\ db' = db /\ pend' = pend
        /\ job' = job /\ bucket' = bucket /\ given' = given /\ alone' = alone /\ damaged' = damaged
    BY <1>2 DEF ReadBook, Running, Unmoved, Read
  <2>2. /\ job[r].op = "update" /\ job[r] \in Job /\ b \in Book
        /\ job[r].image \in FormImage \cup {Same}
    BY <2>1, RunningOps, JobBooks DEF OpsAt
  <2>3. SeenOK(r) /\ WritesOK(r) /\ b \in Rows
    BY <2>2, InvTypes, RowFacts
  <2>4. seen[r] = None
    BY <2>1, <2>2, <2>3 DEF SeenOK
  <2>5. ~Holds(r, b) /\ \A y \in Part : ~Holds(r, <<b, y>>)
    BY <2>2, <2>3, <2>4 DEF WritesOK, Editing
  <2>6. x = db[b] /\ x \in BookRow /\ db[b].state # "none"
    BY <1>2, <2>2, <2>3, <2>5, HeldTypes, RowFacts DEF Live
  <2>7. x.image \in Image
    BY <2>6 DEF BookRow
  <2>8. /\ w \in Work /\ w \in Seen /\ w # None
        /\ w.book = b /\ w.old = x.image /\ w.cover = None /\ w.removed = FALSE
    BY <2>2, <2>7, WorkingFacts
  <2>9. label \in Label /\ job[r].op \in OpsAt(label)
    BY <2>2 DEF Label, OpsAt
  <2> HIDE DEF x, w
  <2>10. Steady(r) /\ pc'[r] = label /\ seen'[r] = w
    BY <2>1, <2>8, <2>9, Moves
  <2>11. Editing(r)' /\ seen'[r].book = b /\ Running(r)' /\ job'[r] = job[r]
    BY <2>1, <2>2, <2>8, <2>9, <2>10, RunningAt DEF Editing, Running
  <2>12. SeenOK(r)'
    BY <2>2, <2>8, <2>10, <2>11 DEF SeenOK
  <2>13. WritesOK(r)'
    <3>1. \A k : Holds(r, k)' <=> Holds(r, k)
      BY <2>1 DEF Holds
    <3>2. \A c \in Book : ~Holds(r, c)
      BY <2>2, <2>3, <2>4 DEF WritesOK, Editing
    <3>3. \A c \in Book, y \in Part : ~Holds(r, <<c, y>>)
      BY <2>2, <2>3, <2>4 DEF WritesOK, Editing
    <3> QED
      BY <2>1, <2>3, <3>1, <3>2, <3>3 DEF WritesOK
  <2>14. EditingOK(r)'
    <3>1. seen'[r].cover = IF job'[r].image \in Upload /\ pc'[r] \notin {"head", "copy"}
                           THEN Destination(r)' ELSE None
      BY <2>8, <2>10, <2>11
    <3>2. ~Holds(r, b)'
      BY <2>1, <2>5 DEF Holds
    <3>3. Updating(r)'
      BY <2>1, <2>2, <2>6, <2>8, <2>10, <2>11, <3>2, Images
        DEF Updating, Promoting, Imaging, Settled
    <3> QED
      BY <2>2, <2>11, <3>1, <3>3 DEF EditingOK
  <2>15. PlanOK(r)'
    <3>1. Untouched(r)'
      BY <2>1, <2>5, <2>11 DEF Untouched, Holds
    <3> QED
      BY <2>10, <2>11, <3>1 DEF PlanOK
  <2>16. Mine(r)'
    <3>1. ~Holds(r, b)'
      BY <2>1, <2>5 DEF Holds
    <3>2. Told(r)'
      BY <2>11, <3>1 DEF Told
    <3> QED
      BY <2>9, <2>10, <2>11, <2>12, <2>13, <2>14, <2>15, <3>2 DEF Mine
  <2>17. Covers'
    BY <2>1, <2>4, <2>8, <2>10, CoversStay
  <2>18. BookOf(r)' = BookOf(r)
    <3>1. BookOf(r) = b
      BY <2>1, <2>2, BookOfFacts
    <3>2. BookOf(r)' = b
      BY <2>8, <2>10 DEF BookOf
    <3> QED
      BY <3>1, <3>2
  <2>19. bucket' \subseteq Upload \cup Cover
    BY <2>1, InvTypes
  <2> HIDE DEF b, label
  <2> QED
    BY <2>1, <2>10, <2>11, <2>16, <2>17, <2>18, <2>19, NoneWritten, Stepping
<1> QED
  BY <1>1, <1>2 DEF ReadBook

-----------------------------------------------------------------------------
(* The image is promoted, and then the row is made to show it.             *)

(* A step before the links are looked at, that writes no row.              *)
LEMMA ImageStep ==
    ASSUME BookInv, NEW r \in Request, Editing(r), pc[r] \in Imaging,
           NEW label \in Imaging \cup {"defaults"}, NEW x \in Work, x.book = seen[r].book,
           Goto(r, label), Keep(r, x) \/ (seen' = seen /\ x = seen[r]),
           db' = db, pend' = pend, job' = job, given' = given, alone' = alone, damaged' = damaged,
           job[r].op \in OpsAt(label), bucket' \subseteq Upload \cup Cover, Covers', EditingOK(r)'
    PROVE  BookInv'
<1>1. label \in Label /\ x \in Seen
  BY DEF Imaging, Promoting, Label, Seen
<1>2. Steady(r) /\ pc'[r] = label /\ seen'[r] = x
  BY <1>1, Moves
<1>3. x # None
  BY CatalogAssumption
<1>4. WritesOK(r)'
  BY <1>2, <1>3, WritesStay
<1>5. PlanOK(r) => PlanOK(r)'
  <2>1. PlanOK(r) => Untouched(r)
    BY DEF PlanOK
  <2>2. Untouched(r) => Untouched(r)'
    BY <1>2 DEF Untouched, Holds
  <2> QED
    BY <1>2, <2>1, <2>2 DEF PlanOK, Imaging, Promoting
<1>6. label \notin {"insert", "book"}
  BY DEF Imaging, Promoting
<1>7. Told(r)'
  BY <1>2, ToldStays
<1> QED
  BY <1>2, <1>4, <1>5, <1>6, <1>7, NoneWritten, EditStep

LEMMA HeadStagedKeeps ==
    ASSUME BookInv, NEW r \in Request, HeadStaged(r)
    PROVE  BookInv'
<1>1. CASE Reject(r)
  BY <1>1, RejectKeeps
<1>2. CASE Continue(r, "copy") /\ Unmoved
  <2>1. /\ Running(r) /\ pc[r] = "head" /\ Goto(r, "copy") /\ db' = db /\ pend' = pend /\ job' = job
        /\ seen' = seen /\ bucket' = bucket /\ given' = given /\ alone' = alone /\ damaged' = damaged
    BY <1>2 DEF HeadStaged, Running, Unmoved, Continue
  <2>2. job[r].op \in {"create", "update"} /\ job[r].op \in OpsAt("copy")
    BY <2>1, RunningOps DEF OpsAt
  <2>3. SeenOK(r) /\ seen[r] \in Work /\ seen[r] # None
    BY <2>1, <2>2, InvTypes, CatalogAssumption DEF SeenOK
  <2>4. Editing(r) /\ EditingOK(r)
    BY <2>2, <2>3, EditingFacts DEF Editing
  <2>5. Steady(r) /\ pc'[r] = "copy"
    BY <2>1, <2>3, InvTypes, Labels, Moves DEF Label
  <2>6. EditingOK(r)'
    BY <2>1, <2>2, <2>4, <2>5
      DEF EditingOK, Creating, Updating, Imaging, Promoting, Settled, NewImage, Holds, Destination
  <2>7. Covers'
    BY <2>1, <2>3, <2>4, <2>5, CoversStay DEF SameCover
  <2>8. bucket' \subseteq Upload \cup Cover /\ pc[r] \in Imaging /\ "copy" \in Imaging \cup {"defaults"}
    BY <2>1, InvTypes DEF Imaging, Promoting
  <2> QED
    BY <2>1, <2>2, <2>3, <2>4, <2>6, <2>7, <2>8, ImageStep
<1> QED
  BY <1>1, <1>2 DEF HeadStaged

LEMMA CopyStagedKeeps ==
    ASSUME BookInv, NEW r \in Request, CopyStaged(r)
    PROVE  BookInv'
<1>1. PICK c : c = Destination(r)
  OBVIOUS
<1> DEFINE b == seen[r].book
           x == [seen[r] EXCEPT !.cover = c]
<1>2. CASE Reject(r)
  BY <1>2, RejectKeeps
<1>3. CASE /\ bucket' = bucket \cup {c}
           /\ Read(r, x, "unstage")
           /\ UNCHANGED <<given, alone, damaged>>
  <2>1. /\ Running(r) /\ pc[r] = "copy" /\ Goto(r, "unstage") /\ Keep(r, x) /\ db' = db /\ pend' = pend
        /\ job' = job /\ bucket' = bucket \cup {c} /\ given' = given /\ alone' = alone /\ damaged' = damaged
    BY <1>3 DEF CopyStaged, Running, Read
  <2>2. job[r].op \in {"create", "update"} /\ job[r].op \in OpsAt("unstage")
    BY <2>1, RunningOps DEF OpsAt
  <2>3. SeenOK(r) /\ seen[r] \in Work /\ seen[r] # None
    BY <2>1, <2>2, InvTypes, CatalogAssumption DEF SeenOK
  <2>4. Editing(r) /\ EditingOK(r) /\ b \in Book
    BY <2>2, <2>3, EditingFacts DEF Editing
  <2>5. job[r].image \in Upload
    BY <2>1, <2>2, <2>4 DEF EditingOK, Creating, Updating, Imaging, Promoting
  <2>6. c \in Cover /\ c[1] = b
    BY <1>1, <2>4, <2>5, CatalogAssumption DEF Destination, Cover
  <2>7. /\ x \in Work /\ x.book = b /\ x.cover = c /\ x.removed = seen[r].removed /\ x.old = seen[r].old
        /\ x \in Seen /\ x # None
    BY <2>3, <2>6, CatalogAssumption DEF Work, Seen
  <2>8. seen[r].cover = None
    BY <2>1, <2>4 DEF EditingOK
  <2> HIDE DEF x
  <2>9. Steady(r) /\ pc'[r] = "unstage" /\ seen'[r] = x
    BY <2>1, <2>7, Moves DEF Label
  <2>10. job'[r] = job[r] /\ Destination(r)' = c
    BY <1>1, <2>1, <2>7, <2>9 DEF Destination
  <2>11. EditingOK(r)'
    <3>1. CASE job[r].op = "create"
      <4>1. Creating(r)'
        BY <2>1, <2>4, <2>5, <2>7, <2>9, <2>10, <3>1
          DEF EditingOK, Creating, Imaging, Promoting, Holds
      <4> QED
        BY <2>5, <2>7, <2>9, <2>10, <3>1, <4>1 DEF EditingOK
    <3>2. CASE job[r].op = "update"
      <4>1. Updating(r)'
        BY <2>1, <2>4, <2>5, <2>7, <2>9, <2>10, <3>2
          DEF EditingOK, Updating, Imaging, Promoting, Holds, Settled
      <4> QED
        BY <2>5, <2>7, <2>9, <2>10, <3>2, <4>1 DEF EditingOK
    <3> QED
      BY <2>2, <3>1, <3>2
  <2>12. Covers'
    <3>1. Covers /\ \A s \in Request \ {r} : seen'[s] = seen[s]
      BY <2>9 DEF BookInv, Steady
    <3>2. \A s, t \in Request :
            s # t /\ ChangesImage(job'[s]) /\ ChangesImage(job'[t]) /\ job'[s].book = job'[t].book
            => job'[s].book \in damaged'
      BY <2>1, <3>1 DEF Covers, ChangesImage
    <3>3. ASSUME NEW s \in Request, Editing(s)', seen'[s].cover # None
          PROVE  seen'[s].cover \in bucket' \/ seen'[s].book \in damaged'
      <4>1. CASE s = r
        BY <2>1, <2>7, <2>9, <4>1
      <4>2. CASE s # r
        <5>1. Editing(s) /\ seen'[s] = seen[s]
          BY <2>1, <3>1, <3>3, <4>2 DEF Editing
        <5> QED
          BY <2>1, <3>1, <3>3, <5>1 DEF Covers
      <4> QED
        BY <4>1, <4>2
    <3>4. ASSUME NEW d \in Book, Removing(d) PROVE Removing(d)'
      <4>1. PICK s \in Request : job[s].op = "update" /\ seen[s] # None /\ seen[s].book = d /\ seen[s].removed
        BY <3>4 DEF Removing
      <4>2. job'[s].op = "update" /\ seen'[s] # None /\ seen'[s].book = d /\ seen'[s].removed
        BY <2>1, <2>7, <2>9, <3>1, <4>1
      <4> QED
        BY <4>2 DEF Removing
    <3>5. ASSUME NEW d \in Cover, Promised(d) PROVE Promised(d)'
      <4>1. PICK s \in Request : job[s].op = "create" /\ seen[s] # None /\ seen[s].cover = d
        BY <3>5 DEF Promised
      <4>2. s # r
        BY <2>8, <3>5, <4>1, Images
      <4> QED
        BY <2>1, <3>1, <4>1, <4>2 DEF Promised
    <3>6. db[b].state # "none" \/ Promised(c)'
      <4>1. CASE job[r].op = "create"
        BY <2>1, <2>7, <2>9, <4>1 DEF Promised
      <4>2. CASE job[r].op = "update"
        BY <2>4, <4>2 DEF EditingOK, Updating
      <4> QED
        BY <2>2, <4>1, <4>2
    <3>7. \A d \in Book : Live(db'[d]) => ImageOK(d)'
      BY <2>1, <3>1, <3>4 DEF Covers, ImageOK
    <3>8. ASSUME NEW d \in bucket' \cap Cover
          PROVE  db'[d[1]].state # "none" \/ d[1] \in damaged' \/ Promised(d)'
      <4>1. CASE d = c
        BY <2>1, <2>6, <3>6, <4>1
      <4>2. CASE d # c
        BY <2>1, <3>1, <3>5, <4>2 DEF Covers
      <4> QED
        BY <4>1, <4>2
    <3> QED
      BY <3>2, <3>3, <3>7, <3>8 DEF Covers
  <2>13. bucket' \subseteq Upload \cup Cover /\ pc[r] \in Imaging /\ "unstage" \in Imaging \cup {"defaults"}
    BY <2>1, <2>6, InvTypes DEF Imaging, Promoting
  <2> QED
    BY <2>1, <2>2, <2>4, <2>7, <2>11, <2>12, <2>13, ImageStep
<1> QED
  BY <1>1, <1>2, <1>3 DEF CopyStaged

(* An object is deleted that no book shows, or that its book is about to   *)
(* replace.                                                                *)
LEMMA CoversShrink ==
    ASSUME BookInv, NEW r \in Request, Editing(r), Steady(r), NEW o, bucket' = bucket \ {o},
           seen'[r] # None, seen'[r].book = seen[r].book, seen'[r].cover = seen[r].cover,
           seen[r].removed => seen'[r].removed,
           \A s \in Request : Editing(s) /\ seen[s].cover = o => seen[s].book \in damaged,
           \A b \in Book : Live(db[b]) /\ db[b].image = o => Removing(b)' \/ <<b, o>> \in given
    PROVE  Covers'
<1>1. /\ Covers /\ job' = job /\ damaged' = damaged /\ db' = db
      /\ \A s \in Request \ {r} : seen'[s] = seen[s]
  BY DEF BookInv, Steady
<1>2. \A s, t \in Request :
        s # t /\ ChangesImage(job'[s]) /\ ChangesImage(job'[t]) /\ job'[s].book = job'[t].book
        => job'[s].book \in damaged'
  BY <1>1 DEF Covers, ChangesImage
<1>3. ASSUME NEW s \in Request, Editing(s)', seen'[s].cover # None
      PROVE  seen'[s].cover \in bucket' \/ seen'[s].book \in damaged'
  <2>1. Editing(s) /\ seen'[s].cover = seen[s].cover /\ seen'[s].book = seen[s].book
    BY <1>1, <1>3 DEF Editing
  <2> QED
    BY <1>1, <1>3, <2>1 DEF Covers
<1>4. ASSUME NEW b \in Book, Removing(b) PROVE Removing(b)'
  <2>1. PICK s \in Request : job[s].op = "update" /\ seen[s] # None /\ seen[s].book = b /\ seen[s].removed
    BY <1>4 DEF Removing
  <2>2. job'[s].op = "update" /\ seen'[s] # None /\ seen'[s].book = b /\ seen'[s].removed
    BY <1>1, <2>1
  <2> QED
    BY <2>2 DEF Removing
<1>5. ASSUME NEW c, Promised(c) PROVE Promised(c)'
  <2>1. PICK s \in Request : job[s].op = "create" /\ seen[s] # None /\ seen[s].cover = c
    BY <1>5 DEF Promised
  <2>2. job'[s].op = "create" /\ seen'[s] # None /\ seen'[s].cover = c
    BY <1>1, <2>1
  <2> QED
    BY <2>2 DEF Promised
<1>6. \A b \in Book : Live(db'[b]) => ImageOK(b)'
  BY <1>1, <1>4 DEF Covers, ImageOK, Steady
<1>7. \A c \in bucket' \cap Cover : db'[c[1]].state # "none" \/ c[1] \in damaged' \/ Promised(c)'
  BY <1>1, <1>5 DEF Covers
<1> QED
  BY <1>2, <1>3, <1>6, <1>7 DEF Covers

LEMMA DeleteStagedKeeps ==
    ASSUME BookInv, NEW r \in Request, DeleteStaged(r)
    PROVE  BookInv'
<1> DEFINE label == IF job[r].op = "update" THEN "replace" ELSE "load"
<1>1. CASE Reject(r)
  BY <1>1, RejectKeeps
<1>2. CASE bucket' = bucket \ {job[r].image} /\ Continue(r, label) /\ UNCHANGED <<given, alone, damaged>>
  <2>1. /\ Running(r) /\ pc[r] = "unstage" /\ Goto(r, label) /\ db' = db /\ pend' = pend /\ job' = job
        /\ seen' = seen /\ bucket' = bucket \ {job[r].image}
        /\ given' = given /\ alone' = alone /\ damaged' = damaged
    BY <1>2 DEF DeleteStaged, Running, Continue
  <2>2. job[r].op \in {"create", "update"} /\ job[r].op \in OpsAt(label)
    BY <2>1, RunningOps DEF OpsAt
  <2>3. SeenOK(r) /\ seen[r] \in Work /\ seen[r] # None /\ seen[r] \in Seen
    BY <2>1, <2>2, InvTypes, CatalogAssumption DEF SeenOK
  <2>4. Editing(r) /\ EditingOK(r)
    BY <2>2, <2>3, EditingFacts DEF Editing
  <2>5. job[r].image \in Upload
    BY <2>1, <2>2, <2>4 DEF EditingOK, Creating, Updating, Imaging, Promoting
  <2>6. label \in {"replace", "load"} /\ label \in Imaging /\ label \in Label
    BY DEF Imaging, Promoting, Label
  <2>7. Steady(r) /\ pc'[r] = label
    BY <2>1, <2>3, <2>6, Moves
  <2>8. EditingOK(r)'
    BY <2>1, <2>2, <2>4, <2>5, <2>6, <2>7, Images
      DEF EditingOK, Creating, Updating, Imaging, Promoting, Settled, NewImage, Holds, Destination
  <2>9. Covers'
    <3>1. \A s \in Request : Editing(s) => seen[s].cover # job[r].image
      BY <2>5, EditingFacts, CatalogAssumption DEF Work
    <3>2. ASSUME NEW b \in Book PROVE db[b].image # job[r].image
      <4>1. db[b] \in BookRow
        BY InvTypes, RowFacts
      <4> QED
        BY <2>5, <4>1, Images DEF BookRow
    <3> QED
      BY <2>1, <2>3, <2>4, <2>7, <3>1, <3>2, CoversShrink
  <2>10. bucket' \subseteq Upload \cup Cover /\ pc[r] \in Imaging
    BY <2>1, InvTypes DEF Imaging, Promoting
  <2> QED
    BY <2>1, <2>2, <2>3, <2>4, <2>6, <2>8, <2>9, <2>10, ImageStep
<1> QED
  BY <1>1, <1>2 DEF DeleteStaged

LEMMA DeleteReplacedKeeps ==
    ASSUME BookInv, NEW r \in Request, DeleteReplaced(r)
    PROVE  BookInv'
<1> DEFINE b == seen[r].book
           x == [seen[r] EXCEPT !.removed = TRUE]
<1>1. /\ Running(r) /\ pc[r] = "replace"
  BY DEF DeleteReplaced, Running
<1>2. job[r].op = "update" /\ job[r].op \in OpsAt("load")
  BY <1>1, RunningOps DEF OpsAt
<1>3. SeenOK(r) /\ seen[r] \in Work /\ seen[r] # None
  BY <1>1, <1>2, InvTypes, CatalogAssumption DEF SeenOK
<1>4. Editing(r) /\ EditingOK(r) /\ Updating(r) /\ b \in Book
  BY <1>2, <1>3, EditingFacts DEF Editing, EditingOK
<1>5. job[r].image \in Upload /\ pc[r] \in Imaging /\ "load" \in Imaging \cup {"defaults"}
  BY <1>1, <1>4 DEF Updating, Imaging, Promoting
<1>6. CASE Continue(r, "load") /\ Unmoved
  <2>1. /\ Goto(r, "load") /\ db' = db /\ pend' = pend /\ job' = job
        /\ seen' = seen /\ bucket' = bucket /\ given' = given /\ alone' = alone /\ damaged' = damaged
    BY <1>6 DEF Unmoved, Continue
  <2>2. Steady(r) /\ pc'[r] = "load"
    BY <1>3, <2>1, InvTypes, Moves DEF Label
  <2>3. EditingOK(r)'
    BY <1>1, <1>2, <1>4, <1>5, <2>1, <2>2
      DEF EditingOK, Updating, Imaging, Promoting, Settled, Holds, Destination
  <2>4. Covers'
    BY <1>3, <1>4, <2>1, <2>2, CoversStay DEF SameCover
  <2>5. bucket' \subseteq Upload \cup Cover
    BY <2>1, InvTypes
  <2> QED
    BY <1>2, <1>3, <1>4, <1>5, <2>1, <2>3, <2>4, <2>5, ImageStep
<1>7. CASE /\ Replaces(r)
           /\ bucket' = bucket \ {seen[r].old}
           /\ Read(r, x, "load")
           /\ UNCHANGED <<given, alone, damaged>>
  <2>1. /\ Goto(r, "load") /\ Keep(r, x) /\ db' = db /\ pend' = pend /\ job' = job
        /\ bucket' = bucket \ {seen[r].old} /\ given' = given /\ alone' = alone /\ damaged' = damaged
    BY <1>7 DEF Read
  <2>2. seen[r].old \in Cover /\ seen[r].old[1] = b /\ seen[r].old # seen[r].cover
    BY <1>7 DEF Replaces
  <2>3. /\ x \in Work /\ x.book = b /\ x.cover = seen[r].cover /\ x.removed = TRUE /\ x.old = seen[r].old
        /\ x \in Seen /\ x # None
    BY <1>3, CatalogAssumption DEF Work, Seen
  <2> HIDE DEF x
  <2>4. Steady(r) /\ pc'[r] = "load" /\ seen'[r] = x
    BY <2>1, <2>3, Moves DEF Label
  <2>5. EditingOK(r)'
    <3>1. Destination(r)' = Destination(r) /\ seen[r].cover = Destination(r)
      BY <1>1, <1>4, <1>5, <2>1, <2>3, <2>4 DEF Destination, EditingOK
    <3>2. Updating(r)'
      BY <1>1, <1>2, <1>4, <1>5, <2>1, <2>2, <2>3, <2>4, Images
        DEF Updating, Imaging, Promoting, Settled, Holds
    <3> QED
      BY <1>2, <1>5, <2>1, <2>3, <2>4, <3>1, <3>2 DEF EditingOK
  <2>6. ASSUME NEW s \in Request, Editing(s), seen[s].cover = seen[r].old PROVE seen[s].book \in damaged
    <3>1. s # r /\ seen[s].cover # None
      BY <2>2, <2>6, Images
    <3>2. seen[s].book = b /\ job[s].image \in Upload /\ EditingOK(s) /\ job[s].op \in {"create", "update"}
      BY <2>2, <2>6, <3>1, CoverOf, EditingFacts
    <3>3. job[s].op = "update"
      BY <1>4, <3>2 DEF EditingOK, Creating, Updating
    <3>4. job[s].book = b /\ job[r].book = b
      BY <1>4, <3>2, <3>3 DEF EditingOK, Updating
    <3>5. ChangesImage(job[r]) /\ ChangesImage(job[s])
      BY <1>2, <1>5, <3>2, <3>3 DEF ChangesImage
    <3> QED
      BY <3>1, <3>2, <3>4, <3>5 DEF BookInv, Covers
  <2>7. ASSUME NEW d \in Book, Live(db[d]), db[d].image = seen[r].old, <<d, seen[r].old>> \notin given
        PROVE  Removing(d)'
    <3>1. ImageOK(d) /\ db[d].image # Link
      BY <2>2, <2>7, Images DEF BookInv, Covers
    <3>2. d = b
      BY <2>2, <2>7, <3>1 DEF ImageOK
    <3> QED
      BY <1>2, <2>1, <2>3, <2>4, <3>2 DEF Removing
  <2>8. Covers'
    BY <1>4, <2>1, <2>3, <2>4, <2>6, <2>7, CoversShrink
  <2>9. bucket' \subseteq Upload \cup Cover
    BY <2>1, InvTypes
  <2> QED
    BY <1>2, <1>4, <1>5, <2>1, <2>3, <2>5, <2>8, <2>9, ImageStep
<1> QED
  BY <1>6, <1>7 DEF DeleteReplaced

(* The image a request has in mind, before it is written.                  *)
LEMMA NewImageFacts ==
    ASSUME BookInv, NEW r \in Request, Editing(r), pc[r] \in {"load", "image"}
    PROVE  /\ NewImage(r) \in Image /\ job[r].image # Same
           /\ job[r].op = "create" => NewImage(r) # seen[r].old
<1>1. /\ EditingOK(r) /\ job[r] \in Job /\ job[r].op \in {"create", "update"} /\ seen[r] \in Work
      /\ seen[r].book \in Book
  BY EditingFacts
<1>2. job[r].image \in FormImage /\ job[r].image # Same
  <2>1. job[r].op = "create" => job[r].image \in Upload
    BY <1>1 DEF EditingOK, Creating, Imaging
  <2>2. job[r].op = "update" => job[r].image # Same /\ job[r].image \in FormImage \cup {Same}
    BY <1>1, JobBooks DEF EditingOK, Updating, Imaging
  <2> QED
    BY <1>1, <2>1, <2>2, Images DEF FormImage
<1>3. CASE job[r].image \in Upload
  <2>1. NewImage(r) = Destination(r) /\ ExtOf[job[r].image] \in Ext
    BY <1>1, <1>3, CatalogAssumption DEF EditingOK, NewImage
  <2>2. NewImage(r) \in Cover
    BY <1>1, <2>1 DEF Destination, Cover
  <2>3. job[r].op = "create" => seen[r].old = None
    BY <1>1 DEF EditingOK, Creating
  <2> QED
    BY <1>2, <2>2, <2>3, Images
<1>4. CASE job[r].image \notin Upload
  <2>1. job[r].op # "create"
    BY <1>1, <1>4 DEF EditingOK, Creating, Imaging
  <2> QED
    BY <1>2, <1>4, <2>1, Images DEF NewImage, FormImage
<1> QED
  BY <1>3, <1>4

LEMMA LoadBookKeeps ==
    ASSUME BookInv, NEW r \in Request, LoadBook(r)
    PROVE  BookInv'
<1> DEFINE next == IF job[r].op = "create" THEN "validate" ELSE "defaults"
           label == IF NewImage(r) = seen[r].old THEN next ELSE "image"
<1>1. CASE Reject(r)
  BY <1>1, RejectKeeps
<1>2. CASE Continue(r, label) /\ Unmoved
  <2>1. /\ Running(r) /\ pc[r] = "load" /\ Goto(r, label) /\ db' = db /\ pend' = pend /\ job' = job
        /\ seen' = seen /\ bucket' = bucket /\ given' = given /\ alone' = alone /\ damaged' = damaged
    BY <1>2 DEF LoadBook, Running, Unmoved, Continue
  <2>2. job[r].op \in {"create", "update"}
    BY <2>1, RunningOps DEF OpsAt
  <2>3. SeenOK(r) /\ seen[r] \in Work /\ seen[r] # None /\ seen[r] \in Seen
    BY <2>1, <2>2, InvTypes, CatalogAssumption DEF SeenOK
  <2>4. Editing(r) /\ EditingOK(r)
    BY <2>2, <2>3, EditingFacts DEF Editing
  <2>5. /\ label = "image" \/ (label = "defaults" /\ job[r].op = "update" /\ NewImage(r) = seen[r].old)
        /\ job[r].image # Same
    BY <2>1, <2>2, <2>4, NewImageFacts
  <2> HIDE DEF label
  <2>6. label \in Imaging \cup {"defaults"} /\ label \in Label /\ job[r].op \in OpsAt(label)
    BY <2>2, <2>5 DEF Imaging, Promoting, Label, OpsAt
  <2>7. Steady(r) /\ pc'[r] = label
    BY <2>1, <2>3, <2>6, Moves
  <2>8. /\ NewImage(r)' = NewImage(r) /\ Destination(r)' = Destination(r)
        /\ Holds(r, seen[r].book)' <=> Holds(r, seen[r].book)
    BY <2>1 DEF NewImage, Destination, Holds
  <2>9. EditingOK(r)'
    <3>1. CASE job[r].op = "create"
      <4>1. Creating(r)'
        BY <2>1, <2>4, <2>5, <2>7, <2>8, <3>1 DEF EditingOK, Creating, Imaging, Promoting
      <4> QED
        BY <2>1, <2>4, <2>5, <2>7, <2>8, <3>1, <4>1 DEF EditingOK
    <3>2. CASE job[r].op = "update"
      <4>1. Updating(r)'
        BY <2>1, <2>4, <2>5, <2>7, <2>8, <3>2 DEF EditingOK, Updating, Imaging, Promoting, Settled
      <4> QED
        BY <2>1, <2>4, <2>5, <2>7, <2>8, <3>2, <4>1 DEF EditingOK
    <3> QED
      BY <2>2, <3>1, <3>2
  <2>10. Covers'
    BY <2>1, <2>3, <2>4, <2>7, CoversStay DEF SameCover
  <2>11. bucket' \subseteq Upload \cup Cover /\ pc[r] \in Imaging
    BY <2>1, InvTypes DEF Imaging
  <2> QED
    BY <2>1, <2>3, <2>4, <2>6, <2>9, <2>10, <2>11, ImageStep
<1> QED
  BY <1>1, <1>2 DEF LoadBook

LEMMA SaveImageKeeps ==
    ASSUME BookInv, NEW r \in Request, SaveImage(r)
    PROVE  BookInv'
<1> DEFINE x == [View(r, seen[r].book) EXCEPT !.image = NewImage(r)]
           label == IF job[r].op = "create" THEN "validate" ELSE "defaults"
<1>1. PICK b : b = seen[r].book
  OBVIOUS
<1>2. /\ Running(r) /\ pc[r] = "image" /\ Goto(r, label) /\ WriteRow(r, b, x) /\ job' = job
      /\ seen' = seen /\ bucket' = bucket /\ given' = given \cup AsGiven(r, b)
      /\ alone' = alone /\ damaged' = damaged
  BY <1>1 DEF SaveImage, Running, Write
<1>3. job[r].op \in {"create", "update"} /\ job[r].op \in OpsAt(label)
  BY <1>2, RunningOps DEF OpsAt
<1>4. SeenOK(r) /\ seen[r] \in Work /\ seen[r] # None /\ seen[r] \in Seen /\ WritesOK(r)
  BY <1>2, <1>3, InvTypes, CatalogAssumption DEF SeenOK
<1>5. Editing(r) /\ EditingOK(r) /\ b \in Book /\ b \in Rows
  BY <1>1, <1>3, <1>4, EditingFacts, RowFacts DEF Editing
<1>6. View(r, b) \in BookRow /\ NewImage(r) \in Image /\ job[r].image # Same
  BY <1>2, <1>5, HeldTypes, RowFacts, NewImageFacts
<1>7. /\ x \in RowType(b) /\ x.image = NewImage(r) /\ x.state = View(r, b).state
  BY <1>1, <1>5, <1>6, RowFacts DEF BookRow
<1>8. x.state # "none" /\ (job[r].op = "create" => Live(x))
  <2>1. CASE job[r].op = "create"
    BY <1>1, <1>5, <1>7, <2>1, HeldTypes DEF EditingOK, Creating, Live
  <2>2. CASE job[r].op = "update"
    <3>1. View(r, b).state # "none"
      BY <1>1, <1>4, <1>5, <2>2, HeldTypes DEF EditingOK, Updating, WritesOK
    <3> QED
      BY <1>7, <2>2, <3>1
  <2> QED
    BY <1>3, <2>1, <2>2
<1> HIDE DEF x
<1>9. /\ pend' \in [Request -> [Rows -> AnyRow \cup {None}]] /\ db' = db
      /\ \A s \in Request \ {r} : pend'[s] = pend[s]
      /\ \A o \in Rows : pend'[r][o] = IF o = b THEN x ELSE pend[r][o]
      /\ \A o \in Rows \ {b} : Holds(r, o)' <=> Holds(r, o)
      /\ RowLocksExclusive'
  BY <1>2, <1>5, <1>7, OneWritten
<1>10. label \in Label /\ label \notin {"insert", "book"}
  BY DEF Label
<1>11. Steady(r) /\ pc'[r] = label
  BY <1>2, <1>4, <1>5, <1>9, <1>10, AsGivenFacts, Moves
<1>12. /\ job'[r] = job[r] /\ seen'[r] = seen[r] /\ pend'[r][b] = x
       /\ Editing(r)' /\ NewImage(r)' = NewImage(r) /\ Destination(r)' = Destination(r)
       /\ \A y \in Part : Holds(r, <<b, y>>)' <=> Holds(r, <<b, y>>)
  BY <1>2, <1>5, <1>9, RowFacts DEF Editing, NewImage, Destination
<1>13. WritesOK(r)'
  <2>1. \A o \in Rows : Holds(r, o)' => pend'[r][o] \in RowType(o)
    BY <1>4, <1>7, <1>9 DEF WritesOK
  <2>2. ASSUME NEW c \in Book, Holds(r, c)'
        PROVE  pend'[r][c].state # "none" /\ Editing(r)' /\ seen'[r].book = c
    <3>1. CASE c = b
      BY <1>1, <1>8, <1>12, <3>1
    <3>2. CASE c # b
      <4>1. Holds(r, c) /\ pend'[r][c] = pend[r][c]
        BY <1>9, <2>2, <3>2, RowFacts
      <4> QED
        BY <1>3, <1>4, <1>12, <4>1 DEF WritesOK
    <3> QED
      BY <3>1, <3>2
  <2>3. ASSUME NEW c \in Book, NEW y \in Part, Holds(r, <<c, y>>)'
        PROVE  /\ Editing(r)' /\ seen'[r].book = c
               /\ job'[r].op # "create" => db'[c].state # "none"
    <3>1. Holds(r, <<c, y>>)
      <4>1. <<c, y>> \in Rows /\ <<c, y>> # b
        BY <1>5, RowFacts
      <4> QED
        BY <1>9, <2>3, <4>1
    <3> QED
      BY <1>3, <1>4, <1>9, <1>12, <3>1 DEF WritesOK
  <2> QED
    BY <2>1, <2>2, <2>3 DEF WritesOK
<1>14. EditingOK(r)'
  <2>1. Holds(r, b)'
    BY <1>7, <1>12, RowFacts DEF Holds
  <2>2. CASE job[r].op = "create"
    <3>1. Creating(r)'
      BY <1>1, <1>5, <1>7, <1>8, <1>9, <1>11, <1>12, <2>1, <2>2
        DEF EditingOK, Creating, Imaging, Promoting
    <3> QED
      BY <1>2, <1>5, <1>11, <1>12, <2>2, <3>1 DEF EditingOK
  <2>3. CASE job[r].op = "update"
    <3>1. Updating(r)'
      BY <1>1, <1>2, <1>5, <1>6, <1>7, <1>9, <1>11, <1>12, <2>1, <2>3
        DEF EditingOK, Updating, Imaging, Promoting, Settled
    <3> QED
      BY <1>2, <1>5, <1>11, <1>12, <2>3, <3>1 DEF EditingOK
  <2> QED
    BY <1>3, <2>2, <2>3
<1>15. PlanOK(r) => PlanOK(r)'
  <2>1. PlanOK(r) => Untouched(r)
    BY <1>2 DEF PlanOK, Imaging
  <2>2. Untouched(r) => Untouched(r)'
    BY <1>1, <1>12 DEF Untouched
  <2> QED
    BY <1>3, <1>11, <1>12, <2>1, <2>2 DEF PlanOK, Imaging, Promoting
<1>16. Covers'
  BY <1>2, <1>4, <1>5, <1>11, CoversStay DEF SameCover
<1>17. bucket' \subseteq Upload \cup Cover
  BY <1>2, InvTypes
<1>18. Told(r)'
  BY <1>1, <1>2, <1>5, <1>12, AsGivenFacts DEF Told
<1> HIDE DEF label
<1> QED
  BY <1>3, <1>4, <1>5, <1>9, <1>10, <1>11, <1>12, <1>13, <1>14, <1>15, <1>16, <1>17, <1>18, EditStep

-----------------------------------------------------------------------------
(* The links are compared with what was asked for, and worked off.         *)

LEMMA SettledStep ==
    ASSUME BookInv, NEW r \in Request, Editing(r), pc[r] \in Settled \ {"commit"},
           NEW label \in Settled, NEW x \in Work, job[r].op \in OpsAt(label),
           x.book = seen[r].book, x.old = seen[r].old, x.cover = seen[r].cover,
           x.removed = seen[r].removed,
           Goto(r, label), Keep(r, x) \/ (seen' = seen /\ x = seen[r]),
           db' = db, job' = job, bucket' = bucket, given' = given, alone' = alone, damaged' = damaged,
           pend' \in [Request -> [Rows -> AnyRow \cup {None}]],
           \A s \in Request \ {r} : pend'[s] = pend[s],
           pend'[r][seen[r].book] = pend[r][seen[r].book],
           RowLocksExclusive', WritesOK(r)', PlanOK(r) => PlanOK(r)'
    PROVE  BookInv'
<1>1. PICK b : b = seen[r].book
  OBVIOUS
<1>2. label \in Label /\ label \notin {"insert", "book"} /\ x \in Seen /\ x # None
  BY CatalogAssumption DEF Settled, Label, Seen
<1>3. Steady(r) /\ pc'[r] = label /\ seen'[r] = x
  BY <1>2, Moves
<1>4. /\ Destination(r)' = Destination(r) /\ NewImage(r)' = NewImage(r) /\ job'[r] = job[r]
      /\ Holds(r, b)' <=> Holds(r, b)
      /\ pend'[r][b] = pend[r][b]
  BY <1>1, <1>3 DEF Destination, NewImage, Holds
<1>5. EditingOK(r) /\ job[r].op \in {"create", "update"}
  BY EditingFacts
<1>6. /\ pc[r] \in Settled /\ pc'[r] \in Settled /\ pc[r] \notin Imaging /\ pc'[r] \notin Imaging
      /\ pc[r] \notin Promoting /\ pc'[r] \notin Promoting
      /\ pc[r] \notin {"head", "copy"} /\ pc'[r] \notin {"head", "copy"}
  BY <1>3 DEF Settled, Imaging, Promoting
<1>7. EditingOK(r)'
  <2>1. CASE job[r].op = "create"
    <3>1. Creating(r)'
      BY <1>1, <1>3, <1>4, <1>5, <1>6, <2>1 DEF EditingOK, Creating
    <3> QED
      BY <1>3, <1>4, <1>5, <1>6, <2>1, <3>1 DEF EditingOK
  <2>2. CASE job[r].op = "update"
    <3>1. Updating(r)'
      BY <1>1, <1>3, <1>4, <1>5, <1>6, <2>2 DEF EditingOK, Updating
    <3> QED
      BY <1>3, <1>4, <1>5, <1>6, <2>2, <3>1 DEF EditingOK
  <2> QED
    BY <1>5, <2>1, <2>2
<1>8. Covers'
  BY <1>2, <1>3, CoversStay DEF SameCover
<1>9. bucket' \subseteq Upload \cup Cover
  BY InvTypes
<1>10. Told(r)'
  BY <1>2, <1>3, ToldStays
<1> QED
  BY <1>2, <1>3, <1>7, <1>8, <1>9, <1>10, EditStep

(* As above, without a row written.                                        *)
LEMMA PlanStep ==
    ASSUME BookInv, NEW r \in Request, Editing(r), pc[r] \in Settled \ {"commit"},
           NEW label \in Settled, NEW x \in Work, job[r].op \in OpsAt(label),
           x.book = seen[r].book, x.old = seen[r].old, x.cover = seen[r].cover,
           x.removed = seen[r].removed,
           Goto(r, label), Keep(r, x) \/ (seen' = seen /\ x = seen[r]),
           db' = db, pend' = pend, job' = job, bucket' = bucket,
           given' = given, alone' = alone, damaged' = damaged,
           PlanOK(r) => PlanOK(r)'
    PROVE  BookInv'
<1>1. x # None /\ seen[r] # None /\ seen \in [Request -> Seen]
  BY CatalogAssumption, InvTypes DEF Editing
<1>2. seen'[r] = x
  BY <1>1 DEF Keep
<1>3. WritesOK(r)'
  BY <1>1, <1>2, WritesStay
<1> QED
  BY <1>3, NoneWritten, SettledStep

LEMMA JobLists ==
    ASSUME NEW j \in Job, j.op \in {"create", "update"}
    PROVE  /\ j.authors \in (SUBSET Author) \cup {Same} /\ j.genres \in (SUBSET Genre) \cup {Same}
           /\ j.op = "create" => j.authors \in SUBSET Author /\ j.genres \in SUBSET Genre
BY JobKinds DEF CreateJob, UpdateJob

(* A kind of link is told from the other, or there is nothing of either.   *)
LEMMA WantedLinks ==
    ASSUME NEW r \in Request, job[r] \in Job, job[r].op \in {"create", "update"}
    PROVE  /\ Wanted(r, Author) = IF job[r].authors = Same THEN LinkedIn(db, seen[r].book, Author)
                                  ELSE job[r].authors
           /\ Wanted(r, Genre) = IF job[r].genres = Same THEN LinkedIn(db, seen[r].book, Genre)
                                 ELSE job[r].genres
           /\ Wanted(r, Author) \subseteq Author /\ Wanted(r, Genre) \subseteq Genre
<1>1. Wanted(r, Author) = IF job[r].authors = Same THEN LinkedIn(db, seen[r].book, Author)
                          ELSE job[r].authors
  BY DEF Wanted
<1>2. CASE Author = Genre
  <2>1. Author = {} /\ Genre = {}
    BY <1>2, CatalogAssumption
  <2>2. /\ job[r].authors # Same => job[r].authors = {}
        /\ job[r].genres # Same => job[r].genres = {}
    BY <2>1, JobLists
  <2>3. LinkedIn(db, seen[r].book, Author) = {} /\ LinkedIn(db, seen[r].book, Genre) = {}
    BY <2>1 DEF LinkedIn
  <2>4. Wanted(r, Author) = {} /\ Wanted(r, Genre) = {}
    BY <1>2, <2>2, <2>3 DEF Wanted
  <2> QED
    BY <2>2, <2>3, <2>4
<1>3. CASE Author # Genre
  <2>1. Wanted(r, Genre) = IF job[r].genres = Same THEN LinkedIn(db, seen[r].book, Genre)
                           ELSE job[r].genres
    BY <1>3 DEF Wanted
  <2> QED
    BY <1>1, <2>1, JobLists DEF LinkedIn
<1> QED
  BY <1>2, <1>3

LEMMA SeenUntouched ==
    ASSUME BookInv, NEW r \in Request, Editing(r), Untouched(r)
    PROVE  /\ \A x \in Part : View(r, <<seen[r].book, x>>) = db[<<seen[r].book, x>>]
           /\ LinksSeen(r, seen[r].book, Author) = LinkedIn(db, seen[r].book, Author)
           /\ LinksSeen(r, seen[r].book, Genre) = LinkedIn(db, seen[r].book, Genre)
<1>1. \A x \in Part : View(r, <<seen[r].book, x>>) = db[<<seen[r].book, x>>]
  BY DEF Untouched, View, Holds
<1> QED
  BY <1>1 DEF LinksSeen, LinkedIn, Part

(* What r wants and sees depends on the rows and on its book alone.        *)
LEMMA SameView ==
    ASSUME NEW r \in Request, db' = db, pend' = pend, job' = job, seen'[r].book = seen[r].book
    PROVE  /\ Wanted(r, Author)' = Wanted(r, Author) /\ Wanted(r, Genre)' = Wanted(r, Genre)
           /\ Untouched(r)' <=> Untouched(r)
           /\ \A X, add, drop : LeadsTo(r, X, add, drop)' <=> LeadsTo(r, X, add, drop)
<1>1. \A X : Wanted(r, X)' = Wanted(r, X)
  BY DEF Wanted, LinkedIn
<1>2. \A k : View(r, k)' = View(r, k) /\ (Holds(r, k)' <=> Holds(r, k))
  BY DEF View, Holds
<1>3. Untouched(r)' <=> Untouched(r)
  BY <1>2 DEF Untouched
<1>4. \A X, add, drop : LeadsTo(r, X, add, drop)' <=> LeadsTo(r, X, add, drop)
  BY <1>1, <1>2 DEF LeadsTo
<1> QED
  BY <1>1, <1>3, <1>4

(* Where a creation or an update is when it looks at links.                *)
LEMMA EditingAt ==
    ASSUME BookInv, NEW r \in Request,
           pc[r] \in {"defaults", "validate", "authors", "genres", "sync"}
    PROVE  /\ Running(r) /\ Editing(r) /\ job[r] \in Job /\ job[r].op \in {"create", "update"}
           /\ job[r].op \in OpsAt(pc[r])
           /\ seen[r] \in Work /\ seen[r].book \in Book /\ pc[r] \in Settled \ {"commit"}
           /\ seen[r].plan \in [1..4 -> SUBSET Part]
<1>1. Running(r)
  BY DEF Running
<1>2. job[r] \in Job /\ job[r].op \in {"create", "update"} /\ job[r].op \in OpsAt(pc[r])
  BY <1>1, RunningOps DEF OpsAt
<1>3. SeenOK(r)
  BY InvTypes
<1>4. seen[r] \in Work
  BY <1>2, <1>3 DEF SeenOK
<1>5. seen[r] # None
  BY <1>4, CatalogAssumption
<1> QED
  BY <1>1, <1>2, <1>4, <1>5 DEF Editing, Settled, Work

LEMMA PlanTyped ==
    ASSUME NEW w \in Work, NEW P \in [1..4 -> SUBSET Part]
    PROVE  /\ [w EXCEPT !.plan = P] \in Work
           /\ [w EXCEPT !.plan = P].plan = P
           /\ [w EXCEPT !.plan = P].book = w.book
           /\ [w EXCEPT !.plan = P].old = w.old
           /\ [w EXCEPT !.plan = P].cover = w.cover
           /\ [w EXCEPT !.plan = P].removed = w.removed
BY DEF Work

LEMMA ReadDefaultsKeeps ==
    ASSUME BookInv, NEW r \in Request, ReadDefaults(r)
    PROVE  BookInv'
<1> DEFINE b == seen[r].book
           A == IF job[r].authors = Same THEN LinksSeen(r, b, Author) ELSE job[r].authors
           G == IF job[r].genres = Same THEN LinksSeen(r, b, Genre) ELSE job[r].genres
           P == <<A, {}, G, {}>>
           x == [seen[r] EXCEPT !.plan = P]
<1>1. /\ pc[r] = "defaults" /\ db' = db /\ pend' = pend /\ job' = job
      /\ bucket' = bucket /\ given' = given /\ alone' = alone /\ damaged' = damaged
      /\ IF job[r].authors = Same /\ job[r].genres = Same
         THEN Goto(r, "commit") /\ seen' = seen ELSE Goto(r, "validate") /\ Keep(r, x)
  BY DEF ReadDefaults, Continue, Read, Unmoved
<1>2. /\ Running(r) /\ Editing(r) /\ job[r] \in Job /\ job[r].op = "update"
      /\ seen[r] \in Work /\ b \in Book /\ pc[r] \in Settled \ {"commit"}
  BY <1>1, EditingAt DEF OpsAt
<1>3. A \in SUBSET Part /\ G \in SUBSET Part
  BY <1>2, JobLists DEF LinksSeen, Part
<1>4. PlanOK(r) => Untouched(r)
  BY <1>1 DEF PlanOK
<1>5. /\ Wanted(r, Author) = IF job[r].authors = Same THEN LinkedIn(db, b, Author)
                             ELSE job[r].authors
      /\ Wanted(r, Genre) = IF job[r].genres = Same THEN LinkedIn(db, b, Genre)
                            ELSE job[r].genres
  BY <1>2, WantedLinks
<1>6. Untouched(r) => A = Wanted(r, Author) /\ G = Wanted(r, Genre)
  BY <1>2, <1>5, SeenUntouched
<1>7. job[r].op \in OpsAt("validate") /\ job[r].op \in OpsAt("commit")
      /\ "validate" \in Settled /\ "commit" \in Settled
  BY <1>2 DEF OpsAt, Settled
<1>8. CASE job[r].authors = Same /\ job[r].genres = Same
  <2>1. Goto(r, "commit") /\ seen' = seen
    BY <1>1, <1>8
  <2>2. pc'[r] = "commit"
    BY <2>1, InvTypes DEF Goto
  <2>3. Untouched(r) => LeadsTo(r, Author, {}, {}) /\ LeadsTo(r, Genre, {}, {})
    <3> SUFFICES ASSUME Untouched(r) PROVE LeadsTo(r, Author, {}, {}) /\ LeadsTo(r, Genre, {}, {})
      OBVIOUS
    <3>1. \A y \in Part : View(r, <<b, y>>) = db[<<b, y>>]
      BY <1>2, SeenUntouched
    <3> QED
      BY <1>5, <1>8, <3>1 DEF LeadsTo, LinkedIn, Part
  <2>4. PlanOK(r) => PlanOK(r)'
    BY <1>1, <1>4, <2>1, <2>2, <2>3, SameView DEF PlanOK, Imaging, Promoting
  <2> HIDE DEF A, G, x
  <2> QED
    BY <1>1, <1>2, <1>7, <2>1, <2>4, PlanStep
<1>9. CASE ~(job[r].authors = Same /\ job[r].genres = Same)
  <2>1. Goto(r, "validate") /\ Keep(r, x)
    BY <1>1, <1>9
  <2>2. P \in [1..4 -> SUBSET Part] /\ P[1] = A /\ P[3] = G
    <3>1. {} \in SUBSET Part
      OBVIOUS
    <3> HIDE DEF A, G
    <3> QED
      BY <1>3, <3>1
  <2> HIDE DEF A, G, P
  <2>3. x \in Work /\ x.plan = P /\ x.book = b /\ x.old = seen[r].old
        /\ x.cover = seen[r].cover /\ x.removed = seen[r].removed
    BY <1>2, <2>2, PlanTyped
  <2> HIDE DEF x
  <2>4. pc'[r] = "validate" /\ seen'[r] = x
    BY <2>1, InvTypes DEF Goto, Keep
  <2>5. seen'[r].plan[1] = A /\ seen'[r].plan[3] = G
    BY <2>2, <2>4, <2>3
  <2>6. seen'[r].book = seen[r].book
    BY <2>4, <2>3
  <2>7. PlanOK(r) => PlanOK(r)'
    BY <1>1, <1>4, <1>6, <2>4, <2>5, <2>6, SameView DEF PlanOK, Imaging, Promoting
  <2> QED
    BY <1>1, <1>2, <1>7, <2>1, <2>7, <2>3, PlanStep
<1> QED
  BY <1>8, <1>9

LEMMA ValidateKeeps ==
    ASSUME BookInv, NEW r \in Request, Validate(r)
    PROVE  BookInv'
<1>1. CASE Reject(r)
  BY <1>1, RejectKeeps
<1>2. CASE Continue(r, "authors") /\ Unmoved
  <2>1. /\ pc[r] = "validate" /\ Goto(r, "authors") /\ db' = db /\ pend' = pend /\ job' = job
        /\ seen' = seen /\ bucket' = bucket /\ given' = given /\ alone' = alone /\ damaged' = damaged
    BY <1>2 DEF Validate, Continue, Unmoved
  <2>2. /\ Running(r) /\ Editing(r) /\ job[r].op \in {"create", "update"}
        /\ seen[r] \in Work /\ pc[r] \in Settled \ {"commit"}
    BY <2>1, EditingAt
  <2>3. pc'[r] = "authors"
    BY <2>1, InvTypes DEF Goto
  <2>4. PlanOK(r) => PlanOK(r)'
    BY <2>1, <2>3, SameView DEF PlanOK, Imaging, Promoting
  <2>5. job[r].op \in OpsAt("authors") /\ "authors" \in Settled
    BY <2>2 DEF OpsAt, Settled
  <2> QED
    BY <2>1, <2>2, <2>4, <2>5, PlanStep
<1> QED
  BY <1>1, <1>2 DEF Validate

(* The links asked for, as _sync_book_links is given them.                 *)
LEMMA Targets ==
    ASSUME BookInv, NEW r \in Request, pc[r] = "authors"
    PROVE  /\ Target(r, Author) \in SUBSET Part /\ Target(r, Genre) \in SUBSET Part
           /\ PlanOK(r) => Target(r, Author) = Wanted(r, Author) /\ Target(r, Genre) = Wanted(r, Genre)
<1>1. /\ Editing(r) /\ job[r] \in Job /\ job[r].op \in {"create", "update"}
      /\ seen[r].plan \in [1..4 -> SUBSET Part]
  BY EditingAt
<1>2. CASE job[r].op = "create"
  <2>1. job[r].authors \in SUBSET Author /\ job[r].genres \in SUBSET Genre
    BY <1>1, <1>2, JobLists
  <2>2. job[r].authors # Same /\ job[r].genres # Same
    BY <2>1, CatalogAssumption
  <2> QED
    BY <1>2, <2>1, <2>2 DEF Target, Wanted, Part
<1>3. CASE job[r].op = "update"
  <2>1. Target(r, Author) \in SUBSET Part /\ Target(r, Genre) \in SUBSET Part
    BY <1>1, <1>3 DEF Target
  <2>2. PlanOK(r) => seen[r].plan[1] = Wanted(r, Author) /\ seen[r].plan[3] = Wanted(r, Genre)
    BY <1>3 DEF PlanOK
  <2>3. Author = Genre => Wanted(r, Author) = Wanted(r, Genre)
    BY DEF Wanted
  <2> QED
    BY <1>3, <2>1, <2>2, <2>3 DEF Target
<1> QED
  BY <1>1, <1>2, <1>3

LEMMA PlanAuthorsKeeps ==
    ASSUME BookInv, NEW r \in Request, PlanAuthors(r)
    PROVE  BookInv'
<1> DEFINE b == seen[r].book
           now == LinksSeen(r, b, Author)
           target == Target(r, Author)
           G == Target(r, Genre)
           P == <<target \ now, now \ target, G, {}>>
           x == [seen[r] EXCEPT !.plan = P]
<1>1. /\ pc[r] = "authors" /\ Goto(r, "genres") /\ Keep(r, x) /\ db' = db /\ pend' = pend /\ job' = job
      /\ bucket' = bucket /\ given' = given /\ alone' = alone /\ damaged' = damaged
  BY DEF PlanAuthors, Read, Unmoved
<1>2. /\ Editing(r) /\ job[r] \in Job /\ job[r].op \in {"create", "update"}
      /\ seen[r] \in Work /\ b \in Book /\ pc[r] \in Settled \ {"commit"}
  BY <1>1, EditingAt
<1>3. target \in SUBSET Part /\ G \in SUBSET Part /\ now \in SUBSET Part
  BY <1>1, Targets DEF LinksSeen, Part
<1>4. /\ P \in [1..4 -> SUBSET Part] /\ P[1] = target \ now /\ P[2] = now \ target /\ P[3] = G
  <2>1. target \ now \in SUBSET Part /\ now \ target \in SUBSET Part /\ {} \in SUBSET Part
    BY <1>3
  <2> HIDE DEF target, now, G
  <2> QED
    BY <1>3, <2>1
<1> HIDE DEF P
<1>5. /\ x \in Work /\ x.plan = P /\ x.book = b
       /\ x.old = seen[r].old /\ x.cover = seen[r].cover /\ x.removed = seen[r].removed
  BY <1>2, <1>4, PlanTyped
<1>6. PlanOK(r) => Untouched(r) /\ target = Wanted(r, Author) /\ G = Wanted(r, Genre)
  BY <1>1, Targets DEF PlanOK
<1>7. PlanOK(r) => LeadsTo(r, Author, target \ now, now \ target)
  <2> SUFFICES ASSUME PlanOK(r) PROVE LeadsTo(r, Author, target \ now, now \ target)
    OBVIOUS
  <2>1. target \subseteq Author
    BY <1>2, <1>6, WantedLinks
  <2> QED
    BY <1>6, <2>1 DEF LeadsTo, LinksSeen
<1> HIDE DEF target, now, G, x
<1>8. pc'[r] = "genres" /\ seen'[r] = x
  BY <1>1, InvTypes DEF Goto, Keep
<1>9. seen'[r].plan[1] = target \ now /\ seen'[r].plan[2] = now \ target /\ seen'[r].plan[3] = G
  BY <1>4, <1>8, <1>5
<1>10. seen'[r].book = seen[r].book
  BY <1>8, <1>5
<1>11. PlanOK(r) => PlanOK(r)'
  BY <1>1, <1>6, <1>7, <1>8, <1>9, <1>10, SameView DEF PlanOK, Imaging, Promoting
<1>12. job[r].op \in OpsAt("genres") /\ "genres" \in Settled
  BY <1>2 DEF OpsAt, Settled
<1> QED
  BY <1>1, <1>2, <1>11, <1>12, <1>5, PlanStep

LEMMA PlanGenresKeeps ==
    ASSUME BookInv, NEW r \in Request, PlanGenres(r)
    PROVE  BookInv'
<1> DEFINE b == seen[r].book
           now == LinksSeen(r, b, Genre)
           target == seen[r].plan[3]
           P == [seen[r].plan EXCEPT ![3] = target \ now, ![4] = now \ target]
           x == [seen[r] EXCEPT !.plan = P]
<1>1. /\ pc[r] = "genres" /\ Goto(r, "sync") /\ Keep(r, x) /\ db' = db /\ pend' = pend /\ job' = job
      /\ bucket' = bucket /\ given' = given /\ alone' = alone /\ damaged' = damaged
  <2>1. pc[r] = "genres"
    BY DEF PlanGenres
  <2>2. seen[r] \in Work
    BY <2>1, EditingAt
  <2>3. [seen[r] EXCEPT !.plan[3] = target \ now, !.plan[4] = now \ target] = x
    BY <2>2 DEF Work
  <2> QED
    BY <2>3 DEF PlanGenres, Read, Unmoved
<1>2. /\ Editing(r) /\ job[r] \in Job /\ job[r].op \in {"create", "update"}
      /\ seen[r] \in Work /\ b \in Book /\ pc[r] \in Settled \ {"commit"}
      /\ seen[r].plan \in [1..4 -> SUBSET Part]
  BY <1>1, EditingAt
<1>3. target \in SUBSET Part /\ now \in SUBSET Part
  BY <1>2 DEF LinksSeen, Part
<1>4. /\ P \in [1..4 -> SUBSET Part] /\ P[1] = seen[r].plan[1] /\ P[2] = seen[r].plan[2]
      /\ P[3] = target \ now /\ P[4] = now \ target
  <2>1. target \ now \in SUBSET Part /\ now \ target \in SUBSET Part
    BY <1>3
  <2> HIDE DEF target, now
  <2> QED
    BY <1>2, <2>1
<1> HIDE DEF P
<1>5. /\ x \in Work /\ x.plan = P /\ x.book = b
       /\ x.old = seen[r].old /\ x.cover = seen[r].cover /\ x.removed = seen[r].removed
  BY <1>2, <1>4, PlanTyped
<1>6. PlanOK(r) => /\ Untouched(r) /\ target = Wanted(r, Genre)
                   /\ LeadsTo(r, Author, seen[r].plan[1], seen[r].plan[2])
  BY <1>1 DEF PlanOK
<1>7. PlanOK(r) => LeadsTo(r, Genre, target \ now, now \ target)
  <2> SUFFICES ASSUME PlanOK(r) PROVE LeadsTo(r, Genre, target \ now, now \ target)
    OBVIOUS
  <2>1. target \subseteq Genre
    BY <1>2, <1>6, WantedLinks
  <2> QED
    BY <1>6, <2>1 DEF LeadsTo, LinksSeen
<1> HIDE DEF target, now, x
<1>8. pc'[r] = "sync" /\ seen'[r] = x
  BY <1>1, InvTypes DEF Goto, Keep
<1>9. seen'[r].book = seen[r].book
  BY <1>8, <1>5
<1>10. PlanOK(r) => PlanOK(r)'
  BY <1>1, <1>4, <1>6, <1>7, <1>8, <1>9, <1>5, SameView DEF PlanOK, Imaging, Promoting
<1>11. job[r].op \in OpsAt("sync") /\ "sync" \in Settled
  BY <1>2 DEF OpsAt, Settled
<1> QED
  BY <1>1, <1>2, <1>10, <1>11, <1>5, PlanStep

LEMMA SyncedKeeps ==
    ASSUME BookInv, NEW r \in Request, Synced(r)
    PROVE  BookInv'
<1>1. /\ pc[r] = "sync" /\ seen[r].plan = NoPlan /\ Goto(r, "commit") /\ db' = db /\ pend' = pend
      /\ job' = job /\ seen' = seen /\ bucket' = bucket
      /\ given' = given /\ alone' = alone /\ damaged' = damaged
  BY DEF Synced, Continue, Unmoved
<1>2. /\ Editing(r) /\ job[r].op \in {"create", "update"}
      /\ seen[r] \in Work /\ pc[r] \in Settled \ {"commit"}
  BY <1>1, EditingAt
<1>3. pc'[r] = "commit"
  BY <1>1, InvTypes DEF Goto
<1>4. /\ seen[r].plan[1] = {} /\ seen[r].plan[2] = {} /\ seen[r].plan[3] = {} /\ seen[r].plan[4] = {}
  BY <1>1 DEF NoPlan
<1>5. PlanOK(r) => LeadsTo(r, Author, {}, {}) /\ LeadsTo(r, Genre, {}, {})
  BY <1>1, <1>4 DEF PlanOK
<1>6. PlanOK(r) => PlanOK(r)'
  BY <1>1, <1>3, <1>5, SameView DEF PlanOK, Imaging, Promoting
<1>7. job[r].op \in OpsAt("commit") /\ "commit" \in Settled
  BY <1>2 DEF OpsAt, Settled
<1> QED
  BY <1>1, <1>2, <1>6, <1>7, PlanStep

(* There is a difference left to work off.                                 *)
LEMMA NextOfPlan ==
    ASSUME NEW plan \in [1..4 -> SUBSET Part], plan # NoPlan
    PROVE  Next4(plan) \in 1..4
<1>1. \E i \in 1..4 : plan[i] # {} /\ \A j \in 1..(i - 1) : plan[j] = {}
  <2>1. CASE plan[1] # {}
    <3>1. \A j \in 1..(1 - 1) : plan[j] = {}
      OBVIOUS
    <3> QED
      BY <2>1, <3>1
  <2>2. CASE plan[1] = {} /\ plan[2] # {}
    <3>1. \A j \in 1..(2 - 1) : plan[j] = {}
      BY <2>2
    <3> QED
      BY <2>2, <3>1
  <2>3. CASE plan[1] = {} /\ plan[2] = {} /\ plan[3] # {}
    <3>1. \A j \in 1..(3 - 1) : plan[j] = {}
      BY <2>3
    <3> QED
      BY <2>3, <3>1
  <2>4. CASE plan[1] = {} /\ plan[2] = {} /\ plan[3] = {} /\ plan[4] # {}
    <3>1. \A j \in 1..(4 - 1) : plan[j] = {}
      BY <2>4
    <3> QED
      BY <2>4, <3>1
  <2>5. CASE plan[1] = {} /\ plan[2] = {} /\ plan[3] = {} /\ plan[4] = {}
    BY <2>5 DEF NoPlan
  <2> QED
    BY <2>1, <2>2, <2>3, <2>4, <2>5
<1> QED
  BY <1>1 DEF Next4

(* The row as it is read from rows under the versions written.             *)
ViewIn(rows, written, k) == IF written[k] # None THEN written[k] ELSE rows[k]

(* The plan without the link that has been seen to.                        *)
LEMMA PlanWorkedOff ==
    ASSUME BookInv, NEW r \in Request, pc[r] = "sync", NEW i \in 1..4, NEW x \in seen[r].plan[i],
           NEW b, b = seen[r].book, b = seen'[r].book, db' = db, job' = job, pc'[r] = "sync",
           \A j \in 1..4 : seen'[r].plan[j] = IF j = i THEN seen[r].plan[j] \ {x} ELSE seen[r].plan[j],
           \A y \in Part \ {x} : ViewIn(db', pend'[r], <<b, y>>) = View(r, <<b, y>>),
           i \in {1, 3} <=> ViewIn(db', pend'[r], <<b, x>>).state = "live"
    PROVE  PlanOK(r) => PlanOK(r)'
<1> SUFFICES ASSUME PlanOK(r) PROVE PlanOK(r)'
  OBVIOUS
<1>1. PICK plan, left : plan = seen[r].plan /\ left = seen'[r].plan
  OBVIOUS
<1>2. plan \in [1..4 -> SUBSET Part] /\ x \in plan[i]
  BY <1>1, EditingAt
<1>3. /\ LeadsTo(r, Author, plan[1], plan[2]) /\ LeadsTo(r, Genre, plan[3], plan[4])
  BY <1>1 DEF PlanOK
<1>4. x \in Part
  BY <1>2
<1>5. /\ i \in {1, 2} => x \in Author /\ x \notin Genre
      /\ i \in {3, 4} => x \in Genre /\ x \notin Author
  BY <1>2, <1>3, CatalogAssumption DEF LeadsTo
<1>6. \A j \in 1..4 : left[j] = IF j = i THEN plan[j] \ {x} ELSE plan[j]
  BY <1>1
<1>7. \A y : View(r, <<b, y>>)' = ViewIn(db', pend'[r], <<b, y>>)
  BY DEF View, ViewIn
<1>8. Wanted(r, Author)' = Wanted(r, Author) /\ Wanted(r, Genre)' = Wanted(r, Genre)
  BY DEF Wanted, LinkedIn
<1>9. Author \subseteq Part /\ Genre \subseteq Part
  BY DEF Part
<1>10. LeadsTo(r, Author, left[1], left[2])'
  <2>1. CASE i = 1
    <3>1. left[1] = plan[1] \ {x} /\ left[2] = plan[2] /\ x \in plan[1]
      BY <1>2, <1>6, <2>1
    <3>2. ViewIn(db', pend'[r], <<b, x>>).state = "live"
      BY <2>1
    <3> QED
      BY <1>3, <1>4, <1>8, <1>9, <1>7, <3>1, <3>2 DEF LeadsTo, Live
  <2>2. CASE i = 2
    <3>1. left[1] = plan[1] /\ left[2] = plan[2] \ {x} /\ x \in plan[2]
      BY <1>2, <1>6, <2>2
    <3>2. ViewIn(db', pend'[r], <<b, x>>).state # "live"
      BY <2>2
    <3> QED
      BY <1>3, <1>4, <1>8, <1>9, <1>7, <3>1, <3>2 DEF LeadsTo, Live
  <2>3. CASE i \in {3, 4}
    BY <1>3, <1>4, <1>5, <1>6, <1>8, <1>9, <1>7, <2>3 DEF LeadsTo, Live
  <2> QED
    BY <2>1, <2>2, <2>3
<1>11. LeadsTo(r, Genre, left[3], left[4])'
  <2>1. CASE i = 3
    <3>1. left[3] = plan[3] \ {x} /\ left[4] = plan[4] /\ x \in plan[3]
      BY <1>2, <1>6, <2>1
    <3>2. ViewIn(db', pend'[r], <<b, x>>).state = "live"
      BY <2>1
    <3> QED
      BY <1>3, <1>4, <1>8, <1>9, <1>7, <3>1, <3>2 DEF LeadsTo, Live
  <2>2. CASE i = 4
    <3>1. left[3] = plan[3] /\ left[4] = plan[4] \ {x} /\ x \in plan[4]
      BY <1>2, <1>6, <2>2
    <3>2. ViewIn(db', pend'[r], <<b, x>>).state # "live"
      BY <2>2
    <3> QED
      BY <1>3, <1>4, <1>8, <1>9, <1>7, <3>1, <3>2 DEF LeadsTo, Live
  <2>3. CASE i \in {1, 2}
    BY <1>3, <1>4, <1>5, <1>6, <1>8, <1>9, <1>7, <2>3 DEF LeadsTo, Live
  <2> QED
    BY <2>1, <2>2, <2>3
<1> QED
  BY <1>1, <1>10, <1>11 DEF PlanOK, Imaging, Promoting

LEMMA SyncLinkKeeps ==
    ASSUME BookInv, NEW r \in Request, SyncLink(r)
    PROVE  BookInv'
<1>1. PICK plan, i, b : plan = seen[r].plan /\ i = Next4(plan) /\ b = seen[r].book
  OBVIOUS
<1>2. pc[r] = "sync" /\ plan # NoPlan
  BY <1>1 DEF SyncLink
<1>3. /\ Running(r) /\ Editing(r) /\ job[r] \in Job /\ job[r].op \in {"create", "update"}
      /\ job[r].op \in OpsAt("sync") /\ seen[r] \in Work /\ b \in Book /\ pc[r] \in Settled \ {"commit"}
      /\ "sync" \in Settled /\ plan \in [1..4 -> SUBSET Part]
  BY <1>1, <1>2, EditingAt DEF Settled
<1>4. i \in 1..4
  BY <1>1, <1>2, <1>3, NextOfPlan
<1> DEFINE adding == i \in {1, 3}
           p(x) == <<b, x>>
           rest(x) == [seen[r] EXCEPT !.plan[i] = @ \ {x}]
           added == [state |-> "live", by |-> r]
           dropped(x) == [View(r, p(x)) EXCEPT !.state = "deleted"]
<1>5. PICK x \in plan[i] :
        /\ ~HeldByOther(r, p(x))
        /\ \/ /\ adding
              /\ WriteRow(r, p(x), added)
              /\ Keep(r, rest(x)) /\ UNCHANGED <<pc, job>> /\ Unmoved
           \/ Abandon(r)
           \/ /\ ~adding
              /\ WriteRow(r, p(x), dropped(x))
              /\ Keep(r, rest(x)) /\ UNCHANGED <<pc, job>> /\ Unmoved
           \/ /\ ~adding /\ ~Live(View(r, p(x)))
              /\ Keep(r, rest(x)) /\ UNCHANGED <<db, pend, pc, job>> /\ Unmoved
  BY <1>1 DEF SyncLink
<1>6. x \in Part
  BY <1>3, <1>4, <1>5
<1>7. p(x) \in Rows /\ RowType(p(x)) = PairRow /\ p(x) \notin Book /\ p(x) # b
      /\ \A y \in Part : p(y) \in Rows
  BY <1>3, <1>6, RowFacts
<1> DEFINE P == [plan EXCEPT ![i] = @ \ {x}]
           w == rest(x)
<1>8. P \in [1..4 -> SUBSET Part]
  BY <1>3, <1>4
<1>9. w = [seen[r] EXCEPT !.plan = P]
  BY <1>1, <1>3 DEF Work
<1>10. /\ w \in Work /\ w.plan = P /\ w.book = b
      /\ w.old = seen[r].old /\ w.cover = seen[r].cover /\ w.removed = seen[r].removed
  <2> HIDE DEF P, w
  <2> QED
    BY <1>1, <1>3, <1>8, <1>9, PlanTyped
<1>11. w # None /\ seen \in [Request -> Seen] /\ pc \in [Request -> Label]
  BY <1>10, CatalogAssumption, InvTypes
<1>12. added \in PairRow /\ added.state = "live"
  BY DEF PairRow
<1>13. dropped(x) \in PairRow /\ dropped(x).state = "deleted"
  BY <1>7, HeldTypes, DeletedRow
<1>14. CASE Abandon(r)
  BY <1>14, AbandonKeeps
<1> HIDE DEF w, P
<1>15. ASSUME NEW y \in PairRow, WriteRow(r, p(x), y), Keep(r, w), UNCHANGED <<pc, job>>, Unmoved,
              adding <=> y.state = "live"
       PROVE  BookInv'
  <2>1. /\ pend' \in [Request -> [Rows -> AnyRow \cup {None}]] /\ db' = db
        /\ \A s \in Request \ {r} : pend'[s] = pend[s]
        /\ \A o \in Rows : pend'[r][o] = IF o = p(x) THEN y ELSE pend[r][o]
        /\ \A o \in Rows \ {p(x)} : Holds(r, o)' <=> Holds(r, o)
        /\ RowLocksExclusive'
    BY <1>7, <1>15, OneWritten
  <2>2. /\ pc' = pc /\ job' = job /\ bucket' = bucket
        /\ given' = given /\ alone' = alone /\ damaged' = damaged
        /\ seen'[r] = w /\ Goto(r, "sync") /\ Keep(r, w)
    BY <1>2, <1>11, <1>15 DEF Unmoved, Keep, Goto
  <2>3. b = seen[r].book /\ b = seen'[r].book /\ b \in Rows
    BY <1>1, <1>3, <1>10, <2>2, RowFacts
  <2>4. pend'[r][b] = pend[r][b]
    BY <1>7, <2>1, <2>3
  <2>5. \A z \in Part \ {x} : p(z) \in Rows \ {p(x)}
    BY <1>7
  <2>6. \A z \in Part \ {x} : ViewIn(db', pend'[r], <<b, z>>) = View(r, <<b, z>>)
    BY <2>1, <2>5 DEF View, ViewIn
  <2>7. ViewIn(db', pend'[r], <<b, x>>) = y
    <3>1. pend'[r][p(x)] = y /\ y # None
      BY <1>7, <1>15, <2>1, CatalogAssumption
    <3> QED
      BY <3>1 DEF ViewIn
  <2>8. i \in {1, 3} <=> ViewIn(db', pend'[r], <<b, x>>).state = "live"
    BY <1>15, <2>7
  <2>9. /\ \A j \in 1..4 : seen'[r].plan[j] = IF j = i THEN seen[r].plan[j] \ {x} ELSE seen[r].plan[j]
       /\ x \in seen[r].plan[i]
    BY <1>1, <1>3, <1>5, <1>10, <2>2 DEF P
  <2>10. PlanOK(r) => PlanOK(r)'
    <3>1. pc'[r] = "sync" /\ db' = db /\ job' = job
      BY <1>2, <2>1, <2>2
    <3> QED
      BY ONLY BookInv, r \in Request, <1>2, <1>4, <2>3, <2>6, <2>8, <2>9, <3>1, PlanWorkedOff
  <2>11. WritesOK(r)'
    <3>1. WritesOK(r) /\ EditingOK(r)
      BY <1>3, InvTypes, EditingFacts
    <3>2. \A o \in Rows : Holds(r, o)' => pend'[r][o] \in RowType(o)
      BY <1>7, <2>1, <3>1 DEF WritesOK
    <3>3. Editing(r)' /\ seen'[r].book = b
      BY <1>3, <1>11, <2>2, <2>3 DEF Editing
    <3>4. ASSUME NEW c \in Book, Holds(r, c)'
          PROVE  pend'[r][c].state # "none" /\ c = b
      <4>1. c # p(x) /\ c \in Rows
        BY <1>7, RowFacts
      <4>2. Holds(r, c) /\ pend'[r][c] = pend[r][c]
        BY <2>1, <3>4, <4>1
      <4> QED
        BY <1>3, <2>3, <3>1, <4>2 DEF WritesOK
    <3>5. ASSUME NEW c \in Book, NEW z \in Part, Holds(r, <<c, z>>)'
          PROVE  c = b /\ (job'[r].op # "create" => db'[c].state # "none")
      <4>1. CASE <<c, z>> = p(x)
        <5>1. c = b
          BY <4>1
        <5>2. job[r].op # "create" => db[b].state # "none"
          BY <1>3, <2>3, <3>1 DEF EditingOK, Updating
        <5> QED
          BY <2>1, <2>2, <5>1, <5>2
      <4>2. CASE <<c, z>> # p(x)
        <5>1. Holds(r, <<c, z>>)
          BY <2>1, <3>5, <4>2, RowFacts
        <5> QED
          BY <1>3, <2>1, <2>2, <2>3, <3>1, <5>1 DEF WritesOK
      <4> QED
        BY <4>1, <4>2
    <3> QED
      BY <3>2, <3>3, <3>4, <3>5 DEF WritesOK
  <2> QED
    BY <1>3, <1>10, <2>1, <2>2, <2>3, <2>4, <2>10, <2>11, SettledStep
<1>16. CASE /\ ~adding /\ ~Live(View(r, p(x)))
            /\ Keep(r, w) /\ UNCHANGED <<db, pend, pc, job>> /\ Unmoved
  <2>1. /\ db' = db /\ pend' = pend /\ pc' = pc /\ job' = job /\ bucket' = bucket
        /\ given' = given /\ alone' = alone /\ damaged' = damaged
        /\ seen'[r] = w /\ Goto(r, "sync") /\ Keep(r, w)
    BY <1>2, <1>11, <1>16 DEF Unmoved, Keep, Goto
  <2>2. b = seen[r].book /\ b = seen'[r].book
    BY <1>1, <1>10, <2>1
  <2>3. \A z \in Part : ViewIn(db', pend'[r], <<b, z>>) = View(r, <<b, z>>)
    BY <2>1 DEF View, ViewIn
  <2>4. i \in {1, 3} <=> ViewIn(db', pend'[r], <<b, x>>).state = "live"
    BY <1>6, <1>16, <2>3 DEF Live
  <2>5. /\ \A j \in 1..4 : seen'[r].plan[j] = IF j = i THEN seen[r].plan[j] \ {x} ELSE seen[r].plan[j]
       /\ x \in seen[r].plan[i]
    BY <1>1, <1>3, <1>5, <1>10, <2>1 DEF P
  <2>6. PlanOK(r) => PlanOK(r)'
    <3>1. pc'[r] = "sync" /\ db' = db /\ job' = job
      BY <1>2, <2>1
    <3>2. \A z \in Part \ {x} : ViewIn(db', pend'[r], <<b, z>>) = View(r, <<b, z>>)
      BY <2>3
    <3> QED
      BY ONLY BookInv, r \in Request, <1>2, <1>4, <2>2, <2>4, <2>5, <3>1, <3>2, PlanWorkedOff
  <2> QED
    BY <1>3, <1>10, <2>1, <2>2, <2>6, PlanStep
<1>17. CASE adding /\ WriteRow(r, p(x), added) /\ Keep(r, w) /\ UNCHANGED <<pc, job>> /\ Unmoved
  BY <1>12, <1>15, <1>17
<1>18. CASE ~adding /\ WriteRow(r, p(x), dropped(x)) /\ Keep(r, w) /\ UNCHANGED <<pc, job>> /\ Unmoved
  BY <1>13, <1>15, <1>18
<1> QED
  BY <1>5, <1>14, <1>16, <1>17, <1>18 DEF w

-----------------------------------------------------------------------------
(* A request arrives.                                                      *)

LEMMA ArriveAtKeeps ==
    ASSUME BookInv, NEW r \in Request, NEW ops, NEW label \in Label, ArriveAt(r, ops, label),
           \A op \in ops : /\ op \in OpsAt(label)
                           /\ op \in {"create", "update"} => label \in {"insert", "book"}
                           /\ op = "move" => label = "mapping"
    PROVE  BookInv'
<1>1. PICK j \in Asked[r] : j.op \in ops /\ job' = [job EXCEPT ![r] = j]
  BY DEF ArriveAt, Begin
<1> DEFINE rivals == {s \in Request \ {r} : /\ Running(s) /\ "book" \in DOMAIN j /\ BookOf(s) = j.book}
<1>2. /\ job \in [Request -> Job \cup {NoJob}] /\ pc \in [Request -> Label]
      /\ seen \in [Request -> Seen] /\ pend \in [Request -> [Rows -> AnyRow \cup {None}]]
      /\ alone \in [Request -> BOOLEAN] /\ damaged \subseteq Book
  BY InvTypes
<1>3. /\ pc[r] = "new" /\ pc' = [pc EXCEPT ![r] = label] /\ job'[r] = j
      /\ db' = db /\ pend' = pend /\ seen' = seen /\ bucket' = bucket /\ given' = given
      /\ alone' = [s \in Request |-> IF s = r THEN rivals = {} ELSE alone[s] /\ s \notin rivals]
      /\ damaged' = damaged \cup
           {b \in Book : ChangesImage(j) /\ b = j.book /\ \E s \in rivals : ChangesImage(job[s])}
  BY <1>1, <1>2 DEF ArriveAt, Begin, Goto
<1>4. j \in Job
  BY <1>1, CatalogAssumption
<1>5. /\ pc' \in [Request -> Label] /\ job' \in [Request -> Job \cup {NoJob}]
      /\ alone' \in [Request -> BOOLEAN] /\ damaged' \subseteq Book
      /\ pc'[r] = label /\ \A s \in Request \ {r} : pc'[s] = pc[s] /\ job'[s] = job[s]
  BY <1>1, <1>2, <1>3, <1>4
<1>6. HoldsNothing(r) /\ job[r] = NoJob /\ SeenOK(r)
  <2>1. Mine(r) /\ ~Running(r)
    BY <1>3, InvTypes DEF Running
  <2> QED
    BY <2>1 DEF Mine
<1>7. seen[r] = None
  BY <1>6 DEF SeenOK, NoJob
<1>8. /\ Running(r)' /\ \A s \in Request \ {r} : /\ Running(s)' <=> Running(s)
                                                 /\ BookOf(s)' = BookOf(s)
      /\ \A s \in Request, k \in Rows : Holds(s, k)' <=> Holds(s, k)
      /\ ~Editing(r)'
  <2>1. Running(r)'
    BY <1>1, <1>5, RunningAt DEF Running
  <2> QED
    BY <1>3, <1>5, <1>7, <2>1 DEF Running, BookOf, Holds, Editing
<1>9. Mine(r)'
  <2>1. job'[r].op \in OpsAt(pc'[r])
    BY <1>1, <1>3, <1>5
  <2>2. SeenOK(r)'
    BY <1>1, <1>3, <1>5, <1>7 DEF SeenOK
  <2>3. WritesOK(r)'
    BY <1>6, <1>8, RowFacts DEF WritesOK, HoldsNothing
  <2> QED
    BY <1>8, <2>1, <2>2, <2>3 DEF Mine, Told
<1>10. ASSUME NEW s \in Request \ {r} PROVE Mine(s)'
  <2>1. alone'[s] => alone[s]
    BY <1>3
  <2> QED
    BY <1>3, <1>5, <2>1, OthersStay
<1>11. ASSUME NEW s \in Request PROVE Lone(s)'
  <2> SUFFICES ASSUME Running(s)', job'[s].op = "update", alone'[s],
                      NEW t \in Request \ {s}, Running(t)', BookOf(t)' = job'[s].book
               PROVE  job'[t].op = "create"
    BY DEF Lone
  <2>1. CASE s = r
    <3>1. "book" \in DOMAIN j
      BY <1>3, <1>4, <2>1, JobBooks
    <3>2. Running(t) /\ BookOf(t) = j.book
      BY <1>3, <1>8, <2>1
    <3>3. t \in rivals
      BY <2>1, <3>1, <3>2
    <3> QED
      BY <1>3, <2>1, <3>3
  <2>2. CASE s # r /\ t = r
    <3>1. Running(s) /\ job[s].op = "update" /\ s \notin rivals /\ BookOf(r)' = job[s].book
      BY <1>3, <1>5, <1>8, <2>2
    <3>2. job[s] \in Job /\ BookOf(s) = job[s].book /\ job[s].book \in Book
      BY <3>1, RunningOps, BookOfFacts, JobBooks
    <3>3. BookOf(r)' = IF "book" \in DOMAIN j THEN j.book ELSE None
      BY <1>3, <1>7 DEF BookOf
    <3>4. "book" \in DOMAIN j /\ j.book = job[s].book
      BY <3>1, <3>2, <3>3, CatalogAssumption
    <3>5. s \in rivals
      BY <2>2, <3>1, <3>2, <3>4
    <3> QED
      BY <3>1, <3>5
  <2>3. CASE s # r /\ t # r
    <3>1. Running(s) /\ job[s].op = "update" /\ alone[s] /\ Running(t) /\ BookOf(t) = job[s].book
      BY <1>3, <1>5, <1>8, <2>3
    <3>2. Lone(s)
      BY InvTypes
    <3> QED
      BY <1>5, <2>3, <3>1, <3>2 DEF Lone
  <2> QED
    BY <2>1, <2>2, <2>3
<1>12. Covers'
  <2>1. Covers
    BY DEF BookInv
  <2>2. \A s, t \in Request :
          s # t /\ ChangesImage(job'[s]) /\ ChangesImage(job'[t]) /\ job'[s].book = job'[t].book
          => job'[s].book \in damaged'
    <3>1. ASSUME NEW s \in Request \ {r}, ChangesImage(j), ChangesImage(job[s]), j.book = job[s].book
          PROVE  j.book \in damaged'
      <4>1. Mine(s) /\ job[s].op = "update"
        BY <3>1, InvTypes DEF ChangesImage
      <4>2. Running(s)
        BY <4>1 DEF Mine, NoJob
      <4>3. BookOf(s) = j.book /\ "book" \in DOMAIN j /\ j.book \in Book
        BY <1>4, <3>1, <4>1, <4>2, BookOfFacts, JobBooks DEF ChangesImage
      <4>4. s \in rivals
        BY <4>2, <4>3
      <4> QED
        BY <1>3, <3>1, <4>3, <4>4
    <3>2. ASSUME NEW s \in Request \ {r}, NEW t \in Request \ {r}, s # t,
                 ChangesImage(job'[s]), ChangesImage(job'[t]), job'[s].book = job'[t].book
          PROVE  job'[s].book \in damaged'
      BY <1>3, <1>5, <2>1, <3>2 DEF Covers
    <3> QED
      BY <1>3, <1>5, <3>1, <3>2
  <2>3. \A s \in Request : Editing(s)' /\ seen'[s].cover # None =>
          seen'[s].cover \in bucket' \/ seen'[s].book \in damaged'
    <3>1. \A s \in Request : Editing(s)' => Editing(s)
      BY <1>3, <1>5, <1>8 DEF Editing
    <3> QED
      BY <1>3, <2>1, <3>1 DEF Covers
  <2>4. \A b \in Book : Removing(b) => Removing(b)'
    BY <1>3, <1>5, <1>7 DEF Removing
  <2>5. \A c : Promised(c) => Promised(c)'
    BY <1>3, <1>5, <1>7 DEF Promised
  <2>6. \A b \in Book : Live(db'[b]) => ImageOK(b)'
    BY <1>3, <2>1, <2>4 DEF Covers, ImageOK
  <2>7. \A c \in bucket' \cap Cover : db'[c[1]].state # "none" \/ c[1] \in damaged' \/ Promised(c)'
    BY <1>3, <2>1, <2>5 DEF Covers
  <2> QED
    BY <2>2, <2>3, <2>6, <2>7 DEF Covers
<1>13. RowsOK' /\ RowLocksExclusive' /\ bucket' \subseteq Upload \cup Cover
       /\ db' \in [Rows -> AnyRow] /\ \A k \in Rows : db'[k] \in RowType(k)
       /\ given' \subseteq Given
  BY <1>3, NoneWritten, InvTypes DEF BookInv, RowsOK
<1> QED
  BY <1>2, <1>3, <1>5, <1>9, <1>10, <1>11, <1>12, <1>13 DEF BookInv

LEMMA ArriveKeeps ==
    ASSUME BookInv, NEW r \in Request, Arrive(r)
    PROVE  BookInv'
<1>1. /\ {"insert", "book", "remove", "pair", "unpair", "mapping", "newPart", "part"} \subseteq Label
  BY DEF Label
<1>2. CASE ArriveAt(r, {"create"}, "insert")
  <2>1. "create" \in OpsAt("insert")
    BY DEF OpsAt
  <2> QED
    BY <1>1, <1>2, <2>1, ArriveAtKeeps
<1>3. CASE ArriveAt(r, {"update"}, "book")
  <2>1. "update" \in OpsAt("book")
    BY DEF OpsAt
  <2> QED
    BY <1>1, <1>3, <2>1, ArriveAtKeeps
<1>4. CASE ArriveAt(r, {"delete", "dropPart"}, "remove")
  <2>1. {"delete", "dropPart"} \subseteq OpsAt("remove")
    BY DEF OpsAt
  <2> QED
    BY <1>1, <1>4, <2>1, ArriveAtKeeps
<1>5. CASE ArriveAt(r, {"link", "rate"}, "pair")
  <2>1. {"link", "rate"} \subseteq OpsAt("pair")
    BY DEF OpsAt
  <2> QED
    BY <1>1, <1>5, <2>1, ArriveAtKeeps
<1>6. CASE ArriveAt(r, {"unlink"}, "unpair")
  <2>1. "unlink" \in OpsAt("unpair")
    BY DEF OpsAt
  <2> QED
    BY <1>1, <1>6, <2>1, ArriveAtKeeps
<1>7. CASE ArriveAt(r, {"move"}, "mapping")
  <2>1. "move" \in OpsAt("mapping")
    BY DEF OpsAt
  <2> QED
    BY <1>1, <1>7, <2>1, ArriveAtKeeps
<1>8. CASE ArriveAt(r, {"newAuthor", "newGenre"}, "newPart")
  <2>1. {"newAuthor", "newGenre"} \subseteq OpsAt("newPart")
    BY DEF OpsAt
  <2> QED
    BY <1>1, <1>8, <2>1, ArriveAtKeeps
<1>9. CASE ArriveAt(r, {"rename"}, "part")
  <2>1. "rename" \in OpsAt("part")
    BY DEF OpsAt
  <2> QED
    BY <1>1, <1>9, <2>1, ArriveAtKeeps
<1> QED
  BY <1>2, <1>3, <1>4, <1>5, <1>6, <1>7, <1>8, <1>9 DEF Arrive

-----------------------------------------------------------------------------
(* The invariant.                                                          *)

LEMMA InitKeeps ==
    ASSUME Init
    PROVE  BookInv
<1>1. /\ db = [k \in Rows |-> InitialRow(k)] /\ Row = Rows
      /\ pend = [r \in Request |-> [k \in Rows |-> None]]
      /\ pc = [r \in Request |-> "new"] /\ job = [r \in Request |-> NoJob]
      /\ seen = [r \in Request |-> None]
      /\ bucket = Upload \cup {<<b, FirstExt>> : b \in Covered}
      /\ given = {} /\ alone = [r \in Request |-> TRUE] /\ damaged = {}
  <2>1. DOMAIN db = Rows
    BY DEF Init
  <2> QED
    BY <2>1 DEF Init, HandlersInit, NoWrites, Row
<1>2. \A b \in Book : /\ db[b].state = (IF b \in Plain \cup Covered THEN "live" ELSE "none")
                      /\ db[b].image = (IF b \in Covered THEN <<b, FirstExt>>
                                        ELSE IF b \in Plain THEN Link ELSE None)
  BY <1>1, RowFacts DEF InitialRow
<1>3. \A p \in Pair(Part) \cup Pair(Reader) :
        db[p].state = (IF p \in Linked THEN "live" ELSE "none")
  BY <1>1, RowFacts DEF InitialRow
<1>4. \A b \in Covered : b \in Book /\ <<b, FirstExt>> \in Cover
  BY CatalogAssumption DEF Cover
<1>5. ASSUME NEW k \in Rows PROVE db[k] \in RowType(k)
  <2>1. CASE k \in Book
    <3>1. db[k] = [state |-> IF k \in Plain \cup Covered THEN "live" ELSE "none",
                   image |-> IF k \in Covered THEN <<k, FirstExt>>
                             ELSE IF k \in Plain THEN Link ELSE None]
      BY <1>1, <2>1 DEF InitialRow
    <3>2. (IF k \in Covered THEN <<k, FirstExt>> ELSE IF k \in Plain THEN Link ELSE None) \in Image
      BY <1>4, Images
    <3> QED
      BY <2>1, <3>1, <3>2 DEF RowType, BookRow
  <2>2. CASE k \in Part
    <3>1. k \notin Book /\ RowType(k) = PartRow
      BY <2>2, RowFacts
    <3>2. db[k] = [state |-> IF k \in Known THEN "live" ELSE "none",
                   name |-> IF k \in Known THEN NameOf[k] ELSE CHOOSE n \in Name : TRUE]
      BY <1>1, <2>2, <3>1 DEF InitialRow
    <3>3. (IF k \in Known THEN NameOf[k] ELSE CHOOSE n \in Name : TRUE) \in Name
      <4>1. (CHOOSE n \in Name : TRUE) \in Name
        BY CatalogAssumption
      <4>2. k \in Known => NameOf[k] \in Name
        BY CatalogAssumption
      <4> QED
        BY <4>1, <4>2
    <3> QED
      BY <3>1, <3>2, <3>3 DEF PartRow
  <2>3. CASE k \in Pair(Part) \cup Pair(Reader)
    <3>1. k \notin Book /\ k \notin Part /\ RowType(k) = PairRow
      BY <2>3, RowFacts
    <3>2. db[k] = [state |-> IF k \in Linked THEN "live" ELSE "none", by |-> None]
      BY <1>1, <3>1 DEF InitialRow
    <3> QED
      BY <3>1, <3>2 DEF PairRow
  <2> QED
    BY <2>1, <2>2, <2>3, RowFacts
<1>6. RowsOK
  <2>1. ASSUME NEW b \in Book, NEW x \in Part, Live(db[<<b, x>>]) PROVE db[b].state # "none"
    <3>1. <<b, x>> \in Pair(Part)
      BY RowFacts
    <3>2. <<b, x>> \in Linked
      BY <1>3, <2>1, <3>1 DEF Live
    <3>3. b \in Plain \cup Covered
      BY <3>2, CatalogAssumption
    <3> QED
      BY <1>2, <3>3
  <2> QED
    BY <2>1 DEF RowsOK
<1>7. Covers
  <2>1. ASSUME NEW b \in Book, Live(db[b]) PROVE ImageOK(b)
    <3>1. CASE b \in Covered
      <4>1. db[b].image = <<b, FirstExt>>
        BY <1>2, <3>1
      <4>2. <<b, FirstExt>> \in bucket
        BY <1>1, <3>1
      <4>3. <<b, FirstExt>> \in Cover /\ <<b, FirstExt>>[1] = b
        BY <1>4, <3>1
      <4> QED
        BY <4>1, <4>2, <4>3 DEF ImageOK
    <3>2. CASE b \notin Covered
      <4>1. b \in Plain
        BY <1>2, <2>1, <3>2 DEF Live
      <4>2. db[b].image = Link
        BY <1>2, <3>2, <4>1
      <4> QED
        BY <4>2 DEF ImageOK
    <3> QED
      BY <3>1, <3>2
  <2>2. ASSUME NEW c \in bucket \cap Cover PROVE db[c[1]].state # "none"
    <3>1. PICK b \in Covered : c = <<b, FirstExt>>
      BY <1>1, CatalogAssumption
    <3> QED
      BY <1>2, <1>4, <3>1
  <2>3. \A r \in Request : ~Editing(r) /\ ~ChangesImage(job[r])
    BY <1>1 DEF Editing, ChangesImage, NoJob
  <2> QED
    BY <2>1, <2>2, <2>3 DEF Covers
<1>8. ASSUME NEW r \in Request PROVE Mine(r) /\ Lone(r)
  <2>1. ~Running(r) /\ HoldsNothing(r) /\ job[r] = NoJob /\ seen[r] = None
    BY <1>1 DEF Running, HoldsNothing, Holds
  <2>2. SeenOK(r) /\ ~Editing(r)
    BY <2>1 DEF SeenOK, Editing, NoJob
  <2>3. WritesOK(r)
    BY <2>1, RowFacts DEF WritesOK, HoldsNothing
  <2> QED
    BY <2>1, <2>2, <2>3 DEF Mine, Lone, Told
<1>9. RowLocksExclusive
  BY <1>1 DEF RowLocksExclusive, Holds
<1>10. \A k \in Rows : db[k] \in AnyRow
  BY <1>5, RowFacts
<1> QED
  BY <1>1, <1>4, <1>5, <1>6, <1>7, <1>8, <1>9, <1>10 DEF BookInv, Label, Seen

LEMMA StutterKeeps ==
    ASSUME BookInv, UNCHANGED vars
    PROVE  BookInv'
<1>1. /\ db' = db /\ pend' = pend /\ pc' = pc /\ job' = job /\ seen' = seen /\ bucket' = bucket
      /\ given' = given /\ alone' = alone /\ damaged' = damaged
  BY DEF vars
<1>2. ASSUME NEW r \in Request PROVE Mine(r)' /\ Lone(r)'
  <2>1. Mine(r)'
    BY <1>1, OthersStay
  <2>2. Lone(r)
    BY InvTypes
  <2> QED
    BY <1>1, <2>1, <2>2 DEF Lone, Running, BookOf
<1>3. RowsOK' /\ RowLocksExclusive'
  BY <1>1 DEF BookInv, RowsOK, RowLocksExclusive, Row, Holds
<1>4. Covers'
  <2>1. Covers
    BY DEF BookInv
  <2> QED
    BY <1>1, <2>1 DEF Covers, ImageOK, ChangesImage, Editing, Removing, Promised
<1> QED
  BY <1>1, <1>2, <1>3, <1>4 DEF BookInv

LEMMA NextKeeps ==
    ASSUME BookInv, [Next]_vars
    PROVE  BookInv'
<1>1. CASE UNCHANGED vars
  BY <1>1, StutterKeeps
<1>2. ASSUME NEW r \in Request,
             \/ Arrive(r)
             \/ InsertBook(r) \/ ReadBook(r)
             \/ HeadStaged(r) \/ CopyStaged(r) \/ DeleteStaged(r) \/ DeleteReplaced(r)
             \/ LoadBook(r) \/ SaveImage(r)
      PROVE  BookInv'
  BY <1>2, ArriveKeeps, InsertBookKeeps, ReadBookKeeps, HeadStagedKeeps, CopyStagedKeeps,
     DeleteStagedKeeps, DeleteReplacedKeeps, LoadBookKeeps, SaveImageKeeps
<1>3. ASSUME NEW r \in Request,
             \/ ReadDefaults(r) \/ Validate(r) \/ PlanAuthors(r) \/ PlanGenres(r)
             \/ SyncLink(r) \/ Synced(r)
      PROVE  BookInv'
  BY <1>3, ReadDefaultsKeeps, ValidateKeeps, PlanAuthorsKeeps, PlanGenresKeeps, SyncLinkKeeps,
     SyncedKeeps
<1>4. ASSUME NEW r \in Request,
             \/ InsertPair(r) \/ DeletePair(r) \/ ReadMapping(r) \/ Repoint(r) \/ RemoveRow(r)
             \/ InsertPart(r) \/ ReadPart(r) \/ RenamePart(r)
             \/ Commit(r) \/ ConnectionLost(r)
      PROVE  BookInv'
  BY <1>4, InsertPairKeeps, DeletePairKeeps, ReadMappingKeeps, RepointKeeps, RemoveRowKeeps,
     InsertPartKeeps, ReadPartKeeps, RenamePartKeeps, CommitKeeps, AbandonKeeps DEF ConnectionLost
<1> QED
  BY <1>1, <1>2, <1>3, <1>4 DEF Next

LEMMA BookInvariance == Spec => []BookInv
<1>1. Init => BookInv
  BY InitKeeps
<1>2. BookInv /\ [Next]_vars => BookInv'
  BY NextKeeps
<1> QED
  BY <1>1, <1>2, PTL DEF Spec

-----------------------------------------------------------------------------
(* Every variable keeps its type: in particular each row that is or will   *)
(* be committed is one of its own table.                                   *)
THEOREM TypesKept == Spec => []TypeOK
<1>1. BookInv => TypeOK
  <2> SUFFICES ASSUME BookInv PROVE TypeOK
    OBVIOUS
  <2>1. \A k \in Rows, r \in Request : pend[r][k] \in RowType(k) \cup {None}
    BY HeldTypes
  <2> QED
    BY <2>1, InvTypes DEF TypeOK, Given
<1> QED
  BY <1>1, BookInvariance, PTL

(* A live book shows no cover that is missing from the bucket, unless its  *)
(* covers have been damaged, its update has still to commit, or a client   *)
(* has put an address in the bucket on it as it is.                        *)
THEOREM ImagesExist == Spec => []CommittedImageExists
<1>1. BookInv => CommittedImageExists
  <2> SUFFICES ASSUME BookInv, NEW b \in Book, Removing(b) PROVE Replacing(b)
    BY Images DEF BookInv, Covers, ImageOK, CommittedImageExists
  <2>1. PICK r \in Request : /\ job[r].op = "update" /\ seen[r] # None /\ seen[r].book = b
                             /\ seen[r].removed
    BY DEF Removing
  <2>2. Editing(r)
    BY <2>1 DEF Editing
  <2>3. Running(r) /\ BookOf(r) = b
    BY <2>1, <2>2, EditingFacts, BookOfFacts
  <2> QED
    BY <2>1, <2>3 DEF Replacing, LeftBehind
<1> QED
  BY <1>1, BookInvariance, PTL

(* A cover in the bucket is that of a book, or of one that a request is    *)
(* about to create, or noted as damage.                                    *)
THEOREM NoStrayCovers == Spec => []CoversHaveBooks
<1>1. BookInv => CoversHaveBooks
  <2> SUFFICES ASSUME BookInv, NEW c \in bucket \cap Cover, Promised(c)
               PROVE  \E r \in Request : Running(r) /\ BookOf(r) = c[1]
    BY DEF BookInv, Covers, CoversHaveBooks
  <2>1. PICK r \in Request : job[r].op = "create" /\ seen[r] # None /\ seen[r].cover = c
    BY DEF Promised
  <2>2. Editing(r) /\ seen[r].cover # None
    BY <2>1, Images DEF Editing
  <2>3. Running(r) /\ BookOf(r) = seen[r].book /\ seen[r].book = c[1]
    BY <2>1, <2>2, EditingFacts, BookOfFacts, CoverOf
  <2> QED
    BY <2>3
<1> QED
  BY <1>1, BookInvariance, PTL

(* Only a commit ends a request that is about to commit with success.      *)
LEMMA DoneByCommit ==
    ASSUME BookInv, Next, NEW r \in Request, pc[r] = "commit", pc'[r] = "done"
    PROVE  Commit(r)
<1>1. pc \in [Request -> Label]
  BY InvTypes
<1>2. ASSUME NEW s \in Request, NEW l, Goto(s, l) PROVE s = r /\ l = "done"
  BY <1>1, <1>2 DEF Goto
<1>3. ASSUME NEW s \in Request, Abandon(s) \/ Reject(s) PROVE FALSE
  BY <1>2, <1>3 DEF Reject, Abandon, Fail, End
<1>4. ASSUME NEW s \in Request, NEW l, l # "done",
             \/ Continue(s, l)
             \/ (\E x : Read(s, x, l))
             \/ (\E k, x : Write(s, k, x, l))
      PROVE  FALSE
  BY <1>2, <1>4 DEF Continue, Read, Write
<1>5. ASSUME NEW s \in Request, Arrive(s) PROVE FALSE
  BY <1>2, <1>5 DEF Arrive, ArriveAt, Begin
<1>6. ASSUME NEW s \in Request, InsertBook(s) \/ ReadBook(s) PROVE FALSE
  BY <1>2, <1>3, <1>4, <1>6 DEF InsertBook, ReadBook
<1>7. ASSUME NEW s \in Request,
             HeadStaged(s) \/ CopyStaged(s) \/ DeleteStaged(s) \/ DeleteReplaced(s)
      PROVE  FALSE
  BY <1>3, <1>4, <1>7 DEF HeadStaged, CopyStaged, DeleteStaged, DeleteReplaced
<1>8. ASSUME NEW s \in Request, LoadBook(s) \/ SaveImage(s) PROVE FALSE
  BY <1>3, <1>4, <1>8 DEF LoadBook, SaveImage
<1>9. ASSUME NEW s \in Request, s = r, ReadDefaults(s) \/ Validate(s) \/ PlanAuthors(s) \/ PlanGenres(s)
      PROVE  FALSE
  BY <1>9 DEF ReadDefaults, Validate, PlanAuthors, PlanGenres
<1>10. ASSUME NEW s \in Request, s # r, ReadDefaults(s) \/ Validate(s) \/ PlanAuthors(s) \/ PlanGenres(s)
       PROVE  FALSE
  BY <1>2, <1>3, <1>10 DEF ReadDefaults, Validate, PlanAuthors, PlanGenres, Continue, Read
<1>11. ASSUME NEW s \in Request, SyncLink(s) \/ Synced(s) PROVE FALSE
  BY <1>3, <1>4, <1>11 DEF SyncLink, Synced
<1>12. ASSUME NEW s \in Request, InsertPair(s) \/ DeletePair(s) \/ ReadMapping(s) PROVE FALSE
  BY <1>3, <1>4, <1>12 DEF InsertPair, DeletePair, ReadMapping
<1>13. ASSUME NEW s \in Request, Repoint(s) \/ RemoveRow(s) PROVE FALSE
  BY <1>2, <1>3, <1>4, <1>13 DEF Repoint, RemoveRow
<1>14. ASSUME NEW s \in Request, InsertPart(s) \/ ReadPart(s) \/ RenamePart(s) PROVE FALSE
  BY <1>3, <1>4, <1>14 DEF InsertPart, ReadPart, RenamePart, StorePart
<1>15. ASSUME NEW s \in Request, Commit(s) PROVE s = r
  BY <1>2, <1>15 DEF Commit, Finish, End
<1> QED
  BY <1>3, <1>5, <1>6, <1>7, <1>8, <1>9, <1>10, <1>11, <1>12, <1>13, <1>14, <1>15
    DEF Next, ConnectionLost

(* A creation, and an update that nobody disturbed, commits exactly the    *)
(* links it was asked for, however its statements mix with the others'.    *)
THEOREM LinksCommitted == Spec => LinksAsAsked
<1> DEFINE Granted ==
      \A r \in Request :
         pc[r] = "commit" /\ pc'[r] = "done" /\ job[r].op \in {"create", "update"} /\ alone[r] =>
             /\ AskedLinks(r, seen[r].book, Author, job[r].authors)
             /\ AskedLinks(r, seen[r].book, Genre, job[r].genres)
<1>1. BookInv /\ [Next]_vars => [Granted]_vars
  BY DoneByCommit, CommitAsAsked
<1> QED
  BY <1>1, BookInvariance, PTL DEF Spec, LinksAsAsked
=============================================================================
