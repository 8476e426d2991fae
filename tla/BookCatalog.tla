---------------------------- MODULE BookCatalog ------------------------------
(***************************************************************************)
(* The catalogue that all shops share: app/book with its covers in the S3  *)
(* bucket (app/utility/aws/s3.py), its authors and genres, the links       *)
(* between them (app/book_author, app/book_genre) and app/book_rating.     *)
(* Rows are transactional, the bucket is not: what a request has copied or *)
(* deleted there stays when its transaction is rolled back.                *)
(***************************************************************************)
EXTENDS Handlers

CONSTANTS
    Book,       \* books rows, existing or to come
    Author,     \* authors rows
    Genre,      \* genres rows
    Reader,     \* users rows
    Name,       \* names of authors and genres
    Ext,        \* extensions of covers
    Upload,     \* staged images that clients have put under staging/
    ExtOf,      \* and their types
    Link,       \* an address of an image that is not in the bucket
    Plain,      \* the books that exist at the start, with such an image,
    Covered,    \* and those with a cover in the bucket
    FirstExt,   \* of this type
    Known,      \* authors and genres that exist at the start
    NameOf,     \* their names
    Linked,     \* the links between books and parts at the start
    Same,       \* a field that an update leaves out
    Asked       \* request -> the calls it may make in this instance

Part == Author \cup Genre
Pair(X) == Book \X X
Cover == Book \X Ext
Image == Cover \cup {Link, None}

BookRow == [state : {"none", "live", "deleted"}, image : Image]
PartRow == [state : {"none", "live", "deleted"}, name : Name]
(* The index entry of a pair: whether a live row is under it, and which.   *)
PairRow == [state : {"none", "live", "deleted"}, by : Request \cup {None}]

VARIABLES
    bucket,     \* S3: the objects that exist
    given,      \* history: the addresses that clients have put on books as they are
    alone,      \* history: request -> nobody else worked on its book meanwhile
    damaged     \* history: books whose cover changes overlapped or failed late

vars == <<db, pend, pc, job, seen, bucket, given, alone, damaged>>

(* The image of a form: a staged upload; any other address, in the bucket  *)
(* (a cover of this book or another, there or not) or outside it; or none. *)
FormImage == Upload \cup Image

(* An ill-formed id among author_ids or genre_ids makes a list invalid.    *)
CreateJob == [op : {"create"}, image : FormImage, authors : SUBSET Author,
              genres : SUBSET Genre, valid : BOOLEAN]
UpdateJob == [op : {"update"}, book : Book, image : FormImage \cup {Same},
              authors : (SUBSET Author) \cup {Same}, genres : (SUBSET Genre) \cup {Same},
              valid : BOOLEAN]
DeleteJob == [op : {"delete"}, book : Book]
LinkJob == [op : {"link"}, book : Book, part : Part]
MoveJob == [op : {"move"}, book : Book, part : Author, to : Author]
UnlinkJob == [op : {"unlink"}, book : Book, part : Part]
RateJob == [op : {"rate"}, book : Book, reader : Reader]
NewPartJob == [op : {"newAuthor", "newGenre"}, name : Name]
RenameJob == [op : {"rename"}, part : Part, name : Name]
DropPartJob == [op : {"dropPart"}, part : Part]

Job == CreateJob \cup UpdateJob \cup DeleteJob \cup LinkJob \cup MoveJob \cup UnlinkJob
         \cup RateJob \cup NewPartJob \cup RenameJob \cup DropPartJob

(* What a request keeps: the book it edits, with the image it has read, the *)
(* cover it has promoted, whether it has removed the old one, and which     *)
(* links it has still to add and to remove; or the mapping it has read.     *)
Work == [book : Book, old : Image, cover : Cover \cup {None}, removed : BOOLEAN,
         plan : [1..4 -> SUBSET Part]]
Mapping == [book : Book, by : Request \cup {None}]

ASSUME CatalogAssumption ==
    /\ Plain \cup Covered \subseteq Book /\ Plain \cap Covered = {}
    /\ Known \subseteq Part /\ NameOf \in [Known -> Name]
    /\ Linked \subseteq (Plain \cup Covered) \X Known
    /\ Asked \in [Request -> SUBSET Job]
    /\ ExtOf \in [Upload -> Ext] /\ FirstExt \in Ext
    /\ Author \cap Genre = {} /\ Part \cap Reader = {} /\ Book \cap Part = {}
    /\ Upload \cap (Cover \cup {Link, None, Same}) = {}
    /\ Link \notin Cover \cup {None, Same} /\ Same \notin Cover \cup {None} /\ Name # {}
    /\ \A X \in (SUBSET Author) \cup (SUBSET Genre) : X # Same
    /\ (Book \cup Part) \cap (Pair(Part) \cup Pair(Reader)) = {}
    /\ None \notin BookRow \cup PartRow \cup PairRow \cup Request \cup Cover \cup Book \cup Work \cup Mapping

Live(x) == x.state = "live"

InitialRow(k) ==
    IF k \in Book
    THEN [state |-> IF k \in Plain \cup Covered THEN "live" ELSE "none",
          image |-> IF k \in Covered THEN <<k, FirstExt>> ELSE IF k \in Plain THEN Link ELSE None]
    ELSE IF k \in Part
    THEN [state |-> IF k \in Known THEN "live" ELSE "none",
          name |-> IF k \in Known THEN NameOf[k] ELSE CHOOSE n \in Name : TRUE]
    ELSE [state |-> IF k \in Linked THEN "live" ELSE "none", by |-> None]

Rows == Book \cup Part \cup Pair(Part) \cup Pair(Reader)

Init ==
    /\ db = [k \in Rows |-> InitialRow(k)]
    /\ HandlersInit
    /\ bucket = Upload \cup {<<b, FirstExt>> : b \in Covered}
    /\ given = {}
    /\ alone = [r \in Request |-> TRUE]
    /\ damaged = {}

-----------------------------------------------------------------------------
(* A request works on the book it names, or on the one it has inserted.    *)
BookOf(r) ==
    IF seen[r] # None THEN seen[r].book
    ELSE IF "book" \in DOMAIN job[r] THEN job[r].book ELSE None

ChangesImage(j) == j.op = "update" /\ j.image \in Upload

ArriveAt(r, ops, label) ==
    /\ Begin(r, {j \in Asked[r] : j.op \in ops}, label)
    /\ LET j == job'[r]
           rivals == {s \in Request \ {r} : /\ Running(s) /\ "book" \in DOMAIN j
                                            /\ BookOf(s) = j.book}
       IN  /\ alone' = [s \in Request |-> IF s = r THEN rivals = {} ELSE alone[s] /\ s \notin rivals]
           /\ damaged' = damaged \cup
                {b \in Book : ChangesImage(j) /\ b = j.book
                                /\ \E s \in rivals : ChangesImage(job[s])}
    /\ UNCHANGED <<bucket, given>>

Arrive(r) ==
    \/ ArriveAt(r, {"create"}, "insert")
    \/ ArriveAt(r, {"update"}, "book")
    \/ ArriveAt(r, {"delete", "dropPart"}, "remove")
    \/ ArriveAt(r, {"link", "rate"}, "pair")
    \/ ArriveAt(r, {"unlink"}, "unpair")
    \/ ArriveAt(r, {"move"}, "mapping")
    \/ ArriveAt(r, {"newAuthor", "newGenre"}, "newPart")
    \/ ArriveAt(r, {"rename"}, "part")

Unmoved == UNCHANGED <<bucket, given, alone, damaged>>

-----------------------------------------------------------------------------
(* Failures.  get_db rolls the rows back; what became of the bucket stays. *)
NoPlan == <<{}, {}, {}, {}>>
Working(b, old) == [book |-> b, old |-> old, cover |-> None, removed |-> FALSE, plan |-> NoPlan]

(* Covers that nobody will clean up or miss: the copy of a creation that   *)
(* fails, the cover that a failing update had already removed.             *)
LeftBehind(r) ==
    {b \in Book : /\ seen[r] # None /\ b = seen[r].book
                  /\ \/ job[r].op = "create" /\ seen[r].cover # None
                     \/ job[r].op = "update" /\ seen[r].removed}

(* An error with nothing to clean up; a lost connection; or in a creation  *)
(* an IntegrityError, after which the session is unusable, so that the     *)
(* cleaning up raises as well.                                             *)
Abandon(r) ==
    /\ Fail(r)
    /\ damaged' = damaged \cup LeftBehind(r)
    /\ UNCHANGED <<bucket, given, alone>>

(* final_image in create: set only when the promotion returned.            *)
FinalImage(r) ==
    IF job[r].op = "create" /\ seen[r] # None /\ pc[r] # "unstage" THEN seen[r].cover ELSE None

(* Mutant: the cover of a rejected creation is left in the bucket.         *)
AfterNoCleaning(r) == bucket

AfterCleaning(r) == bucket \ {FinalImage(r)}

(* An HTTPException: a creation deletes the cover it has promoted; a       *)
(* failing deletion is logged only.                                        *)
Reject(r) ==
    \/ FinalImage(r) = None /\ Abandon(r)
    \/ /\ FinalImage(r) # None
       /\ Fail(r)
       /\ bucket' = AfterCleaning(r)
       /\ UNCHANGED <<given, alone, damaged>>
    \/ FinalImage(r) # None /\ Abandon(r)

-----------------------------------------------------------------------------
(* POST /books inserts the row before the image is looked at.              *)
Fresh(k) == db[k].state = "none" /\ \A s \in Request : ~Holds(s, k)

(* The addresses that a request puts on a book as it was given them.        *)
AsGiven(r, b) == {<<b, i>> : i \in {job[r].image} \cap (Cover \cup {None})}

InsertBook(r) ==
    /\ pc[r] = "insert"
    /\ \E b \in {k \in Book : Fresh(k)} :
         LET image == IF job[r].image \in Upload THEN None ELSE job[r].image IN
         /\ WriteRow(r, b, [state |-> "live", image |-> image])
         /\ Keep(r, Working(b, None))
         /\ given' = given \cup AsGiven(r, b)
    /\ Goto(r, IF job[r].image \in Upload THEN "head" ELSE "validate")
    /\ UNCHANGED <<job, bucket, alone, damaged>>

(* PATCH /books/{id} reads the row first.                                  *)
ReadBook(r) ==
    LET x == View(r, job[r].book) IN
    /\ pc[r] = "book"
    /\ \/ /\ Live(x)
          /\ Read(r, Working(job[r].book, x.image),
                  IF job[r].image \in Upload THEN "head"
                  ELSE IF job[r].image = Same THEN "defaults" ELSE "load")
          /\ Unmoved
       \/ ~Live(x) /\ Abandon(r)

(* resolve_persisted_book_image takes any address that is not a staged one *)
(* as it is, and removes nothing; for a staged one it calls                *)
(* promote_staging_to_book: head_object, copy_object, delete_object.  Any  *)
(* of the calls may fail.                                                  *)
Destination(r) == <<seen[r].book, ExtOf[job[r].image]>>

HeadStaged(r) ==
    /\ pc[r] = "head"
    /\ \/ job[r].image \in bucket /\ Continue(r, "copy") /\ Unmoved
       \/ Reject(r)

CopyStaged(r) ==
    /\ pc[r] = "copy"
    /\ \/ /\ job[r].image \in bucket
          /\ bucket' = bucket \cup {Destination(r)}
          /\ Read(r, [seen[r] EXCEPT !.cover = Destination(r)], "unstage")
          /\ UNCHANGED <<given, alone, damaged>>
       \/ Reject(r)

DeleteStaged(r) ==
    /\ pc[r] = "unstage"
    /\ \/ /\ bucket' = bucket \ {job[r].image}
          /\ Continue(r, IF job[r].op = "update" THEN "replace" ELSE "load")
          /\ UNCHANGED <<given, alone, damaged>>
       \/ Reject(r)

(* Mutant: the new cover may be taken for the replaced one.                *)
ReplacesAny(r) == seen[r].old \in Cover /\ seen[r].old[1] = seen[r].book

(* delete_replaced_book_cover: only a cover of this book under another     *)
(* key.                                                                    *)
Replaces(r) ==
    seen[r].old \in Cover /\ seen[r].old[1] = seen[r].book /\ seen[r].old # seen[r].cover

DeleteReplaced(r) ==
    /\ pc[r] = "replace"
    /\ \/ /\ Replaces(r)
          /\ bucket' = bucket \ {seen[r].old}
          /\ Read(r, [seen[r] EXCEPT !.removed = TRUE], "load")
          /\ UNCHANGED <<given, alone, damaged>>
       \/ Continue(r, "load") /\ Unmoved

(* update_book: the SELECT finds a live row or nothing, but an object that *)
(* the session has loaded keeps its attributes, and an assignment that     *)
(* changes none of them is not flushed.                                    *)
NewImage(r) == IF job[r].image \in Upload THEN seen[r].cover ELSE job[r].image

LoadBook(r) ==
    LET live == Live(View(r, seen[r].book))
        next == IF job[r].op = "create" THEN "validate" ELSE "defaults"
    IN  /\ pc[r] = "load"
        /\ \/ live /\ Continue(r, IF NewImage(r) = seen[r].old THEN next ELSE "image") /\ Unmoved
           \/ ~live /\ Reject(r)

SaveImage(r) ==
    LET b == seen[r].book IN
    /\ pc[r] = "image"
    /\ Write(r, b, [View(r, b) EXCEPT !.image = NewImage(r)],
             IF job[r].op = "create" THEN "validate" ELSE "defaults")
    /\ given' = given \cup AsGiven(r, b)
    /\ UNCHANGED <<bucket, alone, damaged>>

-----------------------------------------------------------------------------
(* The links of a book, as read_by_book_id returns them.                   *)
LinkedIn(rows, b, X) == {x \in X : Live(rows[<<b, x>>])}
LinksSeen(r, b, X) == {x \in X : Live(View(r, <<b, x>>))}

(* An update that names only authors, or only genres, fills in the other   *)
(* list from what is linked now.                                           *)
ReadDefaults(r) ==
    LET b == seen[r].book
        wanted(asked, X) == IF asked = Same THEN LinksSeen(r, b, X) ELSE asked
    IN  /\ pc[r] = "defaults"
        /\ IF job[r].authors = Same /\ job[r].genres = Same
             THEN Continue(r, "commit")
             ELSE Read(r, [seen[r] EXCEPT !.plan = <<wanted(job[r].authors, Author), {},
                                                    wanted(job[r].genres, Genre), {}>>],
                       "validate")
        /\ Unmoved

Target(r, X) ==
    IF job[r].op = "create" THEN IF X = Author THEN job[r].authors ELSE job[r].genres
    ELSE seen[r].plan[IF X = Author THEN 1 ELSE 3]

(* _validate_uuids.                                                        *)
Validate(r) ==
    /\ pc[r] = "validate"
    /\ \/ job[r].valid /\ Continue(r, "authors") /\ Unmoved
       \/ ~job[r].valid /\ Reject(r)

(* _sync_book_links reads the links again, authors before genres, and      *)
(* works off four differences in this order: authors to add, authors to    *)
(* remove, genres to add, genres to remove.                                *)
PlanAuthors(r) ==
    LET now == LinksSeen(r, seen[r].book, Author)
        target == Target(r, Author)
    IN  /\ pc[r] = "authors"
        /\ Read(r, [seen[r] EXCEPT !.plan = <<target \ now, now \ target, Target(r, Genre), {}>>],
                "genres")
        /\ Unmoved

(* Mutant: links that are no longer asked for are kept.                    *)
PlanGenresToAdd(r) ==
    LET now == LinksSeen(r, seen[r].book, Genre)
        target == seen[r].plan[3]
    IN  /\ pc[r] = "genres"
        /\ Read(r, [seen[r] EXCEPT !.plan[3] = target \ now, !.plan[4] = {}], "sync")
        /\ Unmoved

PlanGenres(r) ==
    LET now == LinksSeen(r, seen[r].book, Genre)
        target == seen[r].plan[3]
    IN  /\ pc[r] = "genres"
        /\ Read(r, [seen[r] EXCEPT !.plan[3] = target \ now, !.plan[4] = now \ target], "sync")
        /\ Unmoved

(* An INSERT of a link: the unique index makes it wait for a request that  *)
(* writes the same pair, and both ends must exist, deleted or not.         *)
Exists(r, k) == View(r, k).state # "none"

MayPair(r, p) ==
    ~Live(View(r, p)) /\ Exists(r, p[1]) /\ (p[2] \in Part => Exists(r, p[2]))

Next4(plan) == CHOOSE i \in 1..4 : plan[i] # {} /\ \A j \in 1..(i - 1) : plan[j] = {}

SyncLink(r) ==
    LET plan == seen[r].plan
        i == Next4(plan)
        adding == i \in {1, 3}
    IN  /\ pc[r] = "sync" /\ plan # NoPlan
        /\ \E x \in plan[i] :
             LET p == <<seen[r].book, x>>
                 rest == [seen[r] EXCEPT !.plan[i] = @ \ {x}]
             IN  /\ ~HeldByOther(r, p)
                 /\ \/ /\ adding /\ MayPair(r, p)
                       /\ WriteRow(r, p, [state |-> "live", by |-> r])
                       /\ Keep(r, rest) /\ UNCHANGED <<pc, job>> /\ Unmoved
                    \/ adding /\ ~MayPair(r, p) /\ Abandon(r)
                    \/ /\ ~adding /\ Live(View(r, p))
                       /\ WriteRow(r, p, [View(r, p) EXCEPT !.state = "deleted"])
                       /\ Keep(r, rest) /\ UNCHANGED <<pc, job>> /\ Unmoved
                    \/ /\ ~adding /\ ~Live(View(r, p))
                       /\ Keep(r, rest) /\ UNCHANGED <<db, pend, pc, job>> /\ Unmoved

Synced(r) == pc[r] = "sync" /\ seen[r].plan = NoPlan /\ Continue(r, "commit") /\ Unmoved

-----------------------------------------------------------------------------
(* POST /books/{id}/authors, POST /books/{id}/genres and POST /ratings:    *)
(* one INSERT.                                                             *)
PairOf(j) == <<j.book, IF j.op = "rate" THEN j.reader ELSE j.part>>

InsertPair(r) ==
    LET p == PairOf(job[r]) IN
    /\ pc[r] = "pair" /\ ~HeldByOther(r, p)
    /\ \/ MayPair(r, p) /\ Write(r, p, [state |-> "live", by |-> r], "commit") /\ Unmoved
       \/ ~MayPair(r, p) /\ Abandon(r)

(* DELETE /books/{id}/authors/{author_id} and the genres' likewise.        *)
DeletePair(r) ==
    LET p == PairOf(job[r]) IN
    /\ pc[r] = "unpair" /\ ~HeldByOther(r, p)
    /\ \/ /\ Live(View(r, p))
          /\ Write(r, p, [View(r, p) EXCEPT !.state = "deleted"], "commit") /\ Unmoved
       \/ ~Live(View(r, p)) /\ Abandon(r)

(* PATCH /books/{id}/authors/{mapping}: the row is read, then its author   *)
(* is changed, by its id and whatever has become of it.  A row deleted     *)
(* meanwhile stays deleted under its new author.                           *)
ReadMapping(r) ==
    LET p == PairOf(job[r])
        x == View(r, p)
    IN  /\ pc[r] = "mapping"
        /\ \/ /\ Live(x)
              /\ Read(r, [book |-> job[r].book, by |-> x.by],
                      IF job[r].to = job[r].part THEN "commit" ELSE "repoint")
              /\ Unmoved
           \/ ~Live(x) /\ Abandon(r)

Repoint(r) ==
    LET p == PairOf(job[r])
        q == <<job[r].book, job[r].to>>
        same == Live(View(r, p)) /\ View(r, p).by = seen[r].by
    IN  /\ pc[r] = "repoint" /\ ~HeldByOther(r, p)
        /\ \/ ~same /\ Continue(r, "commit") /\ Unmoved
           \/ /\ same /\ ~HeldByOther(r, q) /\ MayPair(r, q)
              /\ pend' = [pend EXCEPT ![r] = [@ EXCEPT ![p] = [View(r, p) EXCEPT !.state = "deleted"],
                                                       ![q] = [state |-> "live", by |-> seen[r].by]]]
              /\ Goto(r, "commit") /\ UNCHANGED <<db, job, seen>> /\ Unmoved
           \/ same /\ ~HeldByOther(r, q) /\ ~MayPair(r, q) /\ Abandon(r)

(* DELETE /books/{id}, DELETE /genres/{id} and AuthorService.delete, which *)
(* no route calls: one conditional UPDATE.  Links, ratings, listings and   *)
(* covers stay.                                                            *)
RemoveRow(r) ==
    LET k == IF job[r].op = "delete" THEN job[r].book ELSE job[r].part IN
    /\ pc[r] = "remove" /\ ~HeldByOther(r, k)
    /\ \/ /\ Live(View(r, k))
          /\ Write(r, k, [View(r, k) EXCEPT !.state = "deleted"], "commit") /\ Unmoved
       \/ ~Live(View(r, k)) /\ Abandon(r)

-----------------------------------------------------------------------------
(* Authors and genres.  Names of live genres are unique.                   *)
SameName(k, x, y) == k \in Genre /\ Live(x) /\ Live(y) /\ x.name = y.name

Undecided(r, k, x) ==
    \E s \in Request \ {r}, o \in Genre \cup {k} :
        Holds(s, o) /\ (o = k \/ SameName(k, x, db[o]) \/ SameName(k, x, pend[s][o]))

Taken(r, k, x) == \E o \in Genre \ {k} : SameName(k, x, View(r, o))

StorePart(r, k, x) ==
    /\ ~Undecided(r, k, x)
    /\ \/ ~Taken(r, k, x) /\ Write(r, k, x, "commit") /\ Unmoved
       \/ Taken(r, k, x) /\ Abandon(r)

InsertPart(r) ==
    /\ pc[r] = "newPart"
    /\ \E k \in {p \in (IF job[r].op = "newAuthor" THEN Author ELSE Genre) : Fresh(p)} :
         StorePart(r, k, [state |-> "live", name |-> job[r].name])

ReadPart(r) ==
    LET x == View(r, job[r].part) IN
    /\ pc[r] = "part"
    /\ \/ Live(x) /\ Continue(r, IF x.name = job[r].name THEN "commit" ELSE "rename") /\ Unmoved
       \/ ~Live(x) /\ Abandon(r)

(* The flush writes the name alone: a row deleted meanwhile stays deleted. *)
RenamePart(r) ==
    /\ pc[r] = "rename"
    /\ StorePart(r, job[r].part, [View(r, job[r].part) EXCEPT !.name = job[r].name])

Commit(r) == pc[r] = "commit" /\ Finish(r) /\ Unmoved
ConnectionLost(r) == Running(r) /\ Abandon(r)

Next == \E r \in Request :
    \/ Arrive(r)
    \/ InsertBook(r) \/ ReadBook(r)
    \/ HeadStaged(r) \/ CopyStaged(r) \/ DeleteStaged(r) \/ DeleteReplaced(r)
    \/ LoadBook(r) \/ SaveImage(r)
    \/ ReadDefaults(r) \/ Validate(r) \/ PlanAuthors(r) \/ PlanGenres(r)
    \/ SyncLink(r) \/ Synced(r)
    \/ InsertPair(r) \/ DeletePair(r) \/ ReadMapping(r) \/ Repoint(r) \/ RemoveRow(r)
    \/ InsertPart(r) \/ ReadPart(r) \/ RenamePart(r)
    \/ Commit(r) \/ ConnectionLost(r)

Spec == Init /\ [][Next]_vars
-----------------------------------------------------------------------------
(* Properties.                                                             *)

Label == {"new", "done", "failed", "insert", "book", "head", "copy", "unstage", "replace", "load",
          "image", "defaults", "validate", "authors", "genres", "sync", "pair", "unpair",
          "mapping", "repoint", "remove", "newPart", "part", "rename", "commit"}

RowType(k) == IF k \in Book THEN BookRow ELSE IF k \in Part THEN PartRow ELSE PairRow

TypeOK ==
    /\ DOMAIN db = Rows
    /\ \A k \in Rows : /\ db[k] \in RowType(k)
                       /\ \A r \in Request : pend[r][k] \in RowType(k) \cup {None}
    /\ pc \in [Request -> Label]
    /\ \A r \in Request : job[r] \in Job \cup {NoJob}
    /\ bucket \subseteq Upload \cup Cover
    /\ given \subseteq Book \X (Cover \cup {None})
    /\ alone \in [Request -> BOOLEAN]
    /\ damaged \subseteq Book

(* The cover that a committed book shows is in the bucket, and a book      *)
(* whose staged image is still being promoted is not shown: whatever call  *)
(* to S3 fails and wherever a request breaks off.  Excepted are the time   *)
(* from the removal of the old cover to the commit, a request that fails   *)
(* in that time, changes of one cover that overlap, and an address in the  *)
(* bucket that a client has put on the book as it is, for which the code   *)
(* looks nothing up: the cover of another book, or one removed long ago.   *)
Replacing(b) == \E r \in Request : Running(r) /\ BookOf(r) = b /\ b \in LeftBehind(r)

CommittedImageExists ==
    \A b \in Book : Live(db[b]) =>
        \/ <<b, db[b].image>> \in given
        \/ /\ db[b].image # None
           /\ db[b].image \in bucket \cup {Link} \/ b \in damaged \/ Replacing(b)

(* A creation that is rejected leaves no cover of a book that does not     *)
(* exist, unless the rejection came from S3 or from an integrity error.    *)
CoversHaveBooks ==
    \A c \in bucket \cap Cover :
        \/ db[c[1]].state # "none"
        \/ c[1] \in damaged
        \/ \E r \in Request : Running(r) /\ BookOf(r) = c[1]

(* A book update or creation that nobody disturbed commits exactly the     *)
(* authors and genres it was given, and leaves alone the kind of link it   *)
(* was not given.                                                          *)
AskedLinks(r, b, X, asked) ==
    LinkedIn(db', b, X) = IF asked = Same THEN LinkedIn(db, b, X) ELSE asked

LinksAsAsked ==
    [][\A r \in Request :
         pc[r] = "commit" /\ pc'[r] = "done" /\ job[r].op \in {"create", "update"} /\ alone[r] =>
             /\ AskedLinks(r, seen[r].book, Author, job[r].authors)
             /\ AskedLinks(r, seen[r].book, Genre, job[r].genres)]_vars
=============================================================================
