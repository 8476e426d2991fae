------------------------------ MODULE ShopPages ------------------------------
(***************************************************************************)
(* The pages that customers and sellers are shown of Listings while others *)
(* change what is on them (app/business_book and app/variant, the GETs).   *)
(* A page is put together by several SELECTs, each of which sees what is   *)
(* committed when it runs.  Authors, prices and the search are left out.   *)
(***************************************************************************)
EXTENDS Listings, FiniteSetsExt

CONSTANTS
    Reader,     \* requests that read one page each
    Wanted,     \* the pages they may ask for in this instance
    Limit,      \* rows of a page: 100 variants, or what a client asks for
    Beside      \* bound: the requests there may be when a page is asked for

VariantPage == [op : {"offer"}, listing : Listing]
                 \cup [op : {"own", "scoped"}, listing : Listing, shop : Shop]
                 \cup [op : {"variants"}, book : Book \cup {None}]

ListingPage == [op : {"offers"}, book : Book, except : Listing \cup {None}]
                 \cup [op : {"store", "inventory"}, shop : Shop]

ASSUME PagesAssumption ==
    /\ Wanted \subseteq VariantPage \cup ListingPage
    /\ Limit \in Nat \ {0} /\ Beside \subseteq Request
    /\ None \notin Book \cup Listing /\ IsFiniteSet(Listing)

VARIABLES
    page,       \* reader -> the page it has asked for, as far as it is read
    moved       \* history: reader -> rows committed anew since it asked

pageVars == <<vars, page, moved>>

NoPage == [get |-> None, at |-> "idle", total |-> 0, found |-> {}, rows |-> <<>>, sums |-> <<>>,
           books |-> {}, configs |-> {}, values |-> {}, options |-> <<>>, todo |-> {}, cards |-> {}]

Answered == [NoPage EXCEPT !.at = "answered"]

PagesInit == Init /\ page = [c \in Reader |-> NoPage] /\ moved = [c \in Reader |-> {}]

Idle(c) == page[c].at = "idle"

Begun == {r \in Request : pc[r] # "new"}

Turn(c, p, label) == page' = [page EXCEPT ![c] = [p EXCEPT !.at = label]]

Refuse(c) == page' = [page EXCEPT ![c] = Answered]

Ask(c) ==
    /\ Idle(c) /\ Begun \subseteq Beside
    /\ \E g \in Wanted :
         Turn(c, [NoPage EXCEPT !.get = g],
              CASE g.op \in {"offer", "own", "scoped"} -> "head"
                [] g.op = "store" -> "store"
                [] OTHER -> "total")

-----------------------------------------------------------------------------
(* What must be there before anything is listed.                           *)

(* GET /offers/{id}; GET /business-books/{id} and its /variants.           *)
ReadHead(c) ==
    LET p == page[c]
        x == db[p.get.listing]
        may == Live(x) /\ IF p.get.op = "offer" THEN x.status = "ACTIVE" ELSE x.shop = p.get.shop
    IN  /\ p.at = "head"
        /\ \/ may /\ Turn(c, [p EXCEPT !.rows = [l \in {p.get.listing} |-> x]],
                          IF p.get.op = "scoped" THEN "total" ELSE "book")
           \/ ~may /\ Refuse(c)

(* A seller is shown a listing whose book is gone.                         *)
ReadBook(c) ==
    LET p == page[c]
        may == p.get.op = "own" \/ Live(db[p.rows[p.get.listing].book])
    IN  /\ p.at = "book"
        /\ \/ may /\ Turn(c, p, IF p.get.op = "own" THEN "list" ELSE "shop")
           \/ ~may /\ Refuse(c)

ReadShop(c) ==
    LET p == page[c]
        may == Live(db[p.rows[p.get.listing].shop])
    IN  /\ p.at = "shop"
        /\ \/ may /\ Turn(c, p, "list")
           \/ ~may /\ Refuse(c)

ReadStore(c) ==
    LET p == page[c]
        may == Live(db[p.get.shop]) /\ db[p.get.shop].open
    IN  /\ p.at = "store"
        /\ \/ may /\ Turn(c, p, "total")
           \/ ~may /\ Refuse(c)

-----------------------------------------------------------------------------
(* The count and the list.                                                 *)
ForSale(rows, v) == Live(rows[v]) /\ rows[v].stock > 0

InCatalog(rows, l) ==
    /\ Live(rows[l]) /\ rows[l].status = "ACTIVE"
    /\ \E v \in Variant : rows[v].listing = l /\ ForSale(rows, v)

(* The listing is looked at only when a book is asked for.                 *)
VariantsListed(rows, b) ==
    {v \in Variant : /\ ForSale(rows, v)
                     /\ b # None => LET x == rows[rows[v].listing] IN
                                        Live(x) /\ x.status = "ACTIVE" /\ x.book = b}

Matching(rows, g) ==
    CASE g.op = "offer" -> {v \in VariantsOf(rows, g.listing) : ForSale(rows, v)}
      [] g.op \in {"own", "scoped"} -> VariantsOf(rows, g.listing)
      [] g.op = "variants" -> VariantsListed(rows, g.book)
      [] g.op = "offers" -> {l \in Listing : InCatalog(rows, l) /\ rows[l].book = g.book /\ l # g.except}
      [] g.op = "store" -> {l \in Listing : InCatalog(rows, l) /\ rows[l].shop = g.shop}
      [] g.op = "inventory" -> {l \in Listing : Live(rows[l]) /\ rows[l].shop = g.shop}

(* Mutant: the variants of every book are counted.                         *)
CountAnyBook(c) ==
    LET p == page[c]
        get == IF p.get.op = "variants" THEN [p.get EXCEPT !.book = None] ELSE p.get
    IN  p.at = "total" /\ Turn(c, [p EXCEPT !.total = Cardinality(Matching(db, get))], "list")

Count(c) ==
    LET p == page[c] IN
    p.at = "total" /\ Turn(c, [p EXCEPT !.total = Cardinality(Matching(db, p.get))], "list")

(* The newest rows; which these are the model leaves open.                 *)
Newest(S) == IF Cardinality(S) <= Limit THEN {S} ELSE kSubset(Limit, S)

(* An offer with nothing to sell is a 404; any other page may be empty.    *)
List(c) ==
    LET p == page[c] IN
    /\ p.at = "list"
    /\ \E S \in Newest(Matching(db, p.get)) :
         \/ S = {} /\ p.get.op = "offer" /\ Refuse(c)
         \/ S = {} /\ p.get.op # "offer" /\ Turn(c, p, "shown")
         \/ S # {} /\ Turn(c, [p EXCEPT !.found = S, !.rows = [x \in S |-> db[x]]],
                           CASE p.get.op \in {"offer", "own", "scoped"} -> "configs"
                             [] p.get.op = "variants" -> "listings"
                             [] OTHER -> "sums")

-----------------------------------------------------------------------------
(* What the rows of the list are shown with.                               *)

Summary(rows, l, purchasable) ==
    LET V == {v \in VariantsOf(rows, l) : purchasable => ForSale(rows, v)} IN
    [count |-> Cardinality(V), stock |-> FoldSet(LAMBDA v, n : rows[v].stock + n, 0, V)]

(* Mutant: an inventory, too, is summed over what is for sale only.        *)
SumForSale(c) ==
    LET p == page[c]
        listings == IF p.get.op = "offer" THEN {p.get.listing} ELSE p.found
    IN  /\ p.at = "sums"
        /\ Turn(c, [p EXCEPT !.sums = [l \in listings |-> Summary(db, l, TRUE)]],
                IF p.get.op = "offer" THEN "shown" ELSE "books")

Sum(c) ==
    LET p == page[c]
        listings == IF p.get.op = "offer" THEN {p.get.listing} ELSE p.found
    IN  /\ p.at = "sums"
        /\ Turn(c, [p EXCEPT !.sums = [l \in listings |-> Summary(db, l, p.get.op # "inventory")]],
                IF p.get.op = "offer" THEN "shown" ELSE "books")

(* The listings of a page of variants, as they are read for it.            *)
ReadListings(c) ==
    LET p == page[c]
        ids == {p.rows[v].listing : v \in p.found}
    IN  /\ p.at = "listings"
        /\ Turn(c, [p EXCEPT !.rows = [x \in p.found \cup {l \in ids : Live(db[l])} |->
                                          IF x \in p.found THEN p.rows[x] ELSE db[x]]], "books")

MayShow(p, x, books) ==
    IF x \in Listing THEN p.sums[x].count > 0 /\ p.rows[x].book \in books
    ELSE LET l == p.rows[x].listing IN
             l \in DOMAIN p.rows /\ p.rows[l].status = "ACTIVE" /\ p.rows[l].book \in books

(* A seller's inventory has a line for every row, with or without a book.  *)
ReadBooks(c) ==
    LET p == page[c]
        books == {b \in {p.rows[l].book : l \in DOMAIN p.rows \cap Listing} : Live(db[b])}
        todo == IF p.get.op = "inventory" THEN {} ELSE {x \in p.found : MayShow(p, x, books)}
    IN  /\ p.at = "books"
        /\ Turn(c, [p EXCEPT !.books = books, !.todo = todo],
                CASE p.get.op = "inventory" -> "shown"
                  [] p.get.op = "variants" -> "configs"
                  [] OTHER -> "shops")

AfterOptions(p) ==
    CASE p.get.op = "offer" -> "sums"
      [] p.get.op \in {"own", "scoped"} -> "shown"
      [] p.get.op = "variants" -> "shops"

PageConfigs(c) ==
    LET p == page[c]
        configs == ConfigsOf(db, p.found)
    IN  /\ p.at = "configs"
        /\ \/ configs # {} /\ Turn(c, [p EXCEPT !.configs = configs], "values")
           \/ configs = {} /\ Turn(c, [p EXCEPT !.options = [v \in p.found |-> {}]], AfterOptions(p))

PageValues(c) ==
    LET p == page[c]
        live == {k \in p.configs : Live(db[k[2]])}
    IN  /\ p.at = "values"
        /\ Turn(c, [p EXCEPT !.configs = live,
                             !.values = {<<k[2], db[k[2]].kind>> : k \in live}], "kinds")

PageKinds(c) ==
    LET p == page[c] IN
    /\ p.at = "kinds"
    /\ Turn(c, [p EXCEPT !.options = [v \in p.found |-> Resolved(p.configs, p.values, db, v)]],
            AfterOptions(p))

(* The businesses are read one by one, in the order of the page.           *)
ReadShops(c) ==
    LET p == page[c]
        shop(x) == IF x \in Listing THEN p.rows[x].shop ELSE p.rows[p.rows[x].listing].shop
    IN  /\ p.at = "shops"
        /\ \/ p.todo = {} /\ Turn(c, p, "shown")
           \/ \E x \in p.todo :
                Turn(c, [p EXCEPT !.todo = @ \ {x},
                                  !.cards = IF Live(db[shop(x)]) THEN @ \cup {x} ELSE @], "shops")

ReadPage(c) ==
    \/ Ask(c) \/ ReadHead(c) \/ ReadBook(c) \/ ReadShop(c) \/ ReadStore(c) \/ Count(c) \/ List(c)
    \/ Sum(c) \/ ReadListings(c) \/ ReadBooks(c) \/ ReadShops(c)
    \/ PageConfigs(c) \/ PageValues(c) \/ PageKinds(c)

(* The other requests, whose commits the readers may see between two of    *)
(* their statements.  What was shown is not looked at again.               *)
OtherRequest ==
    /\ Next
    /\ (\A c \in Reader : Idle(c)) \/ Begun' \subseteq Beside
    /\ page' = [c \in Reader |-> IF page[c].at = "shown" THEN Answered ELSE page[c]]
    /\ moved' = [c \in Reader |->
         IF page[c].at \in {"idle", "shown", "answered"} THEN {}
         ELSE moved[c] \cup {k \in Rows : db'[k] # db[k]}]

PagesNext ==
    \/ OtherRequest
    \/ (\E c \in Reader : ReadPage(c)) /\ UNCHANGED <<vars, moved>>

PagesSpec == PagesInit /\ [][PagesNext]_pageVars
-----------------------------------------------------------------------------
(* Properties.                                                             *)

(* The rows that what is shown of a listing or a variant depends on.       *)
Around(rows, x) ==
    LET l == IF x \in Listing THEN x ELSE rows[x].listing
        options == {o \in Option : x \in Variant /\ Live(rows[<<x, o>>])}
    IN  {x, l, rows[l].book, rows[l].shop}
          \cup IF x \in Listing THEN {v \in Variant : rows[v].state # "none" /\ rows[v].listing = x}
               ELSE {<<x, o>> : o \in Option} \cup options \cup {rows[o].kind : o \in options}

Steady(c, x) == Around(db, x) \cap moved[c] = {}

TableOf(g) == IF g.op \in {"offers", "store", "inventory"} THEN Listing ELSE Variant

(* The number a page announces is that of its rows, apart from rows that   *)
(* were changed while it was read and, on a full page, from those beyond   *)
(* its limit: pages are counted and listed by different statements, and an *)
(* offer lists at most 100 variants and counts them all.                   *)
Announced(p) == IF p.get.op = "offer" THEN p.sums[p.get.listing].count ELSE p.total

CountsMatchLists ==
    \A c \in Reader :
        LET p == page[c] IN
        p.at = "shown" /\ p.get.op # "own" =>
            /\ Cardinality({x \in p.found : Steady(c, x)}) <= Announced(p)
            /\ Cardinality(p.found) < Limit =>
                 Announced(p) <= Cardinality(p.found \cup {x \in TableOf(p.get) : ~Steady(c, x)})

(* GET /offers/{id} and GET /variants/{id} find it.                        *)
CanBeOpened(rows, x) ==
    LET l == IF x \in Listing THEN x ELSE rows[x].listing IN
    /\ InCatalog(rows, l)
    /\ Live(rows[rows[l].book]) /\ Live(rows[rows[l].shop])
    /\ x \in Variant => ForSale(rows, x)

OptionsShown(rows, v) ==
    LET configs == {k \in ConfigsOf(rows, {v}) : Live(rows[k[2]])} IN
    Resolved(configs, {<<k[2], rows[k[2]].kind>> : k \in configs}, rows, v)

(* Whatever did not change while a page was read is shown as it is: it has *)
(* a card just when it can be opened (a listing that is counted has none   *)
(* when its book or its business is gone), a variant has the options it    *)
(* has, all of them, and a seller's numbers are those of the variants.     *)
ShownAsItIs ==
    \A c \in Reader :
        LET p == page[c] IN
        p.at = "shown" => \A x \in p.found : Steady(c, x) =>
            /\ p.get.op \in {"offers", "store", "variants"} => (x \in p.cards <=> CanBeOpened(db, x))
            /\ x \in Variant => p.options[x] = OptionsShown(db, x)
            /\ p.get.op = "inventory" => p.sums[x] = Summary(db, x, FALSE)
=============================================================================
