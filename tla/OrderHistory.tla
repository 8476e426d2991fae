----------------------------- MODULE OrderHistory -----------------------------
(***************************************************************************)
(* What an order costs, and what customers and sellers are shown of their  *)
(* orders page by page (app/order, app/order_item, app/utility/pagination) *)
(* while orders are placed, prices change, lines are deleted and variants  *)
(* disappear.  A page takes several statements, each of which sees what    *)
(* was committed when it began.  Stock, the status of an order and the     *)
(* waits for stock are OrderStock's: here a checkout may find any line     *)
(* sold out.                                                               *)
(***************************************************************************)
EXTENDS Handlers, Sequences, SequencesExt

CONSTANTS
    Customer, Seller,
    Variant,        \* variants rows, which exist
    Order,          \* orders rows, existing or to come
    Reference,      \* what clients name orders by
    SellerOf,       \* variant -> the business of its listing
    Priced,         \* variant -> its row at the start
    Placed,         \* order -> its row at the start, for those that exist
    Bought,         \* item -> its row at the start, for those that exist
    MaxLines,       \* bound on the lines of an order
    PreviewLimit,   \* limit_per_order of preview_items_for_orders
    Same,           \* a field that an update leaves out
    Asked           \* request -> the calls it may make in this instance

Item == Order \X (1..MaxLines)
State == {"none", "live", "deleted"}
(* Prices are in cents, discounts in percent.                              *)
VariantRow == [state : State, price : Nat, off : 0..100 \cup {None}]
OrderRow == [state : State, by : Customer, seller : Seller, ref : Reference, total : Nat, at : Nat]
ItemRow == [state : State, variant : Variant, quantity : Nat, unit : Nat]

VARIABLES
    clock,      \* now(): the start of a transaction, all of them distinct
    since,      \* history: request -> rows committed since it began (its page)
    start,      \* history: request -> the orders it would list when it began
    lost        \* history: request -> the orders its list has lost since

vars == <<db, pend, pc, job, seen, clock, since, start, lost>>

Line == [variant : Variant, quantity : Int]
CheckoutCall == [op : {"checkout"}, by : Customer, ref : Reference, lines : Seq(Line)]
CheckoutJob == [op : {"checkout"}, by : Customer, ref : Reference, lines : Seq(Line), quote : Int]
DeleteItemJob == [op : {"deleteItem"}, order : Order, item : Item]
RepriceJob == [op : {"reprice"}, variant : Variant, price : Nat \cup {Same},
               off : 0..100 \cup {None, Same}]
DropJob == [op : {"drop"}, variant : Variant]
(* A search is the set of references that contain its text; a blank one    *)
(* is no search, that is all of them.                                      *)
CustomerPages == [op : {"customerPages"}, by : Customer, size : 1..100, search : SUBSET Reference]
SellerPages == [op : {"sellerPages"}, seller : Seller, size : 1..100, search : SUBSET Reference]
DetailJob == [op : {"customerOrder"}, by : Customer, order : Order]
               \cup [op : {"sellerOrder"}, seller : Seller, order : Order]

Call == CheckoutCall \cup DeleteItemJob \cup RepriceJob \cup DropJob \cup CustomerPages
          \cup SellerPages \cup DetailJob
Job == (Call \ CheckoutCall) \cup CheckoutJob

Rows == Variant \cup Order \cup Item

(* Of several lines with one variant the first.                            *)
FirstLines(lines) == {i \in DOMAIN lines : \A h \in 1..(i - 1) : lines[h].variant # lines[i].variant}

ASSUME OrderHistoryAssumption ==
    /\ SellerOf \in [Variant -> Seller] /\ Priced \in [Variant -> VariantRow]
    /\ DOMAIN Placed \subseteq Order /\ \A o \in DOMAIN Placed : Placed[o] \in OrderRow
    /\ DOMAIN Bought \subseteq Item /\ \A i \in DOMAIN Bought : Bought[i] \in ItemRow
    /\ MaxLines \in Nat /\ PreviewLimit \in Nat
    /\ DOMAIN Asked = Request /\ \A r \in Request : Asked[r] \subseteq Call
    /\ \A r \in Request : \A j \in Asked[r] :
         j.op = "checkout" => FirstLines(j.lines) \subseteq 1..MaxLines
    /\ Same \notin Nat \cup {None} /\ None \notin Nat
    /\ {} \notin {Customer, Seller, Variant, Reference} /\ IsFiniteSet(Order)
    /\ Variant \cap Order = {} /\ (Variant \cup Order) \cap Item = {}
    /\ None \notin VariantRow \cup OrderRow \cup ItemRow \cup [page : Nat, shown : SUBSET Order]

Cost(bought) == SumFunction([i \in DOMAIN bought |-> bought[i].unit * bought[i].quantity])

Inserted(rows, o) == {i \in {o} \X (1..MaxLines) : rows[i].state # "none"}
Value(rows, items) == Cost([i \in items |-> rows[i]])

(* Orders were placed one after the other, each under a reference of its   *)
(* own and with lines of one seller, which added up to its total.          *)
AddsUp(rows, o) ==
    /\ Inserted(rows, o) # {}
    /\ rows[o].total = Value(rows, Inserted(rows, o))
    /\ \A i \in Inserted(rows, o) : SellerOf[rows[i].variant] = rows[o].seller

InitialRow(k) ==
    IF k \in Variant THEN Priced[k]
    ELSE IF k \in DOMAIN Placed THEN Placed[k]
    ELSE IF k \in DOMAIN Bought THEN Bought[k]
    ELSE IF k \in Order THEN [state |-> "none", by |-> CHOOSE c \in Customer : TRUE,
                              seller |-> CHOOSE s \in Seller : TRUE,
                              ref |-> CHOOSE n \in Reference : TRUE, total |-> 0, at |-> 0]
    ELSE [state |-> "none", variant |-> CHOOSE v \in Variant : TRUE, quantity |-> 0, unit |-> 0]

InitialRows == [k \in Rows |-> InitialRow(k)]

ASSUME StartAssumption ==
    /\ \A o \in DOMAIN Placed :
         Placed[o].at <= Cardinality(DOMAIN Placed) /\ AddsUp(InitialRows, o)
    /\ \A o, p \in DOMAIN Placed :
         o # p => Placed[o].at # Placed[p].at /\ Placed[o].ref # Placed[p].ref
    /\ \A o \in DOMAIN Placed : Placed[o].state # "none"
    /\ \A i \in DOMAIN Bought : i[1] \in DOMAIN Placed

Init ==
    /\ db = InitialRows
    /\ HandlersInit
    /\ clock = 1 + Cardinality(DOMAIN Placed)
    /\ since = [r \in Request |-> {}]
    /\ start = [r \in Request |-> {}]
    /\ lost = [r \in Request |-> {}]

Live(x) == x.state = "live"

Quiet == UNCHANGED <<clock, since, start, lost>>

-----------------------------------------------------------------------------
(* Prices.  Decimal.quantize rounds a half to the even cent.               *)
RoundHalfEven(n, d) ==
    LET q == n \div d
        twice == 2 * (n % d)
    IN  IF twice > d \/ (twice = d /\ q % 2 = 1) THEN q + 1 ELSE q

(* effective_price_decimal.                                                *)
UnitPrice(x) == IF x.off = None THEN x.price ELSE RoundHalfEven(x.price * (100 - x.off), 100)

Due(rows, lines) ==
    SumFunction([i \in DOMAIN lines |-> UnitPrice(rows[lines[i].variant]) * lines[i].quantity])

(* A client that shows the catalogue's effective_price, which is not       *)
(* rounded, and rounds the sum.                                            *)
DueUnrounded(rows, lines) ==
    LET exact(x) == x.price * (IF x.off = None THEN 100 ELSE 100 - x.off) IN
    RoundHalfEven(
        SumFunction([i \in DOMAIN lines |-> exact(rows[lines[i].variant]) * lines[i].quantity]), 100)

(* Mutant: of two lines with one variant the last counts.                  *)
LastQuantity(lines, v) ==
    LET i == CHOOSE i \in DOMAIN lines :
               lines[i].variant = v /\ \A h \in DOMAIN lines : lines[h].variant = v => h <= i
    IN  lines[i].quantity

(* The quantities of the lines with one variant are added up.              *)
Quantity(lines, v) ==
    SumFunction([i \in {i \in DOMAIN lines : lines[i].variant = v} |-> lines[i].quantity])

(* The lines of an order, before their prices are known.                   *)
Merged(lines) ==
    [i \in FirstLines(lines) |->
       [variant |-> lines[i].variant, quantity |-> Quantity(lines, lines[i].variant), unit |-> 0]]

-----------------------------------------------------------------------------
(* What lists contain.                                                     *)
Lines(rows, o) == {i \in {o} \X (1..MaxLines) : Live(rows[i])}

(* Mutant: deleted lines are joined too.                                   *)
OfSellerEver(rows, j) ==
    {o \in Order : /\ Live(rows[o]) /\ rows[o].ref \in j.search
                   /\ \E i \in {o} \X (1..MaxLines) :
                        rows[i].state # "none" /\ SellerOf[rows[i].variant] = j.seller}

(* A seller's orders are found through their live lines; neither the line's *)
(* variant nor its listing needs to be live.                                *)
OfSeller(rows, j) ==
    {o \in Order : /\ Live(rows[o]) /\ rows[o].ref \in j.search
                   /\ \E i \in Lines(rows, o) : SellerOf[rows[i].variant] = j.seller}

OfCustomer(rows, j) ==
    {o \in Order : Live(rows[o]) /\ rows[o].by = j.by /\ rows[o].ref \in j.search}

Listed(rows, j) == IF j.op = "customerPages" THEN OfCustomer(rows, j) ELSE OfSeller(rows, j)

Newer(rows, S, o) == {p \in S : rows[p].at > rows[o].at}

NewestFirst(rows, S) ==
    [n \in 1..Cardinality(S) |-> CHOOSE o \in S : Cardinality(Newer(rows, S, o)) = n - 1]

(* Mutant: pages are counted from zero.                                    *)
OffsetFromZero(page, size) == page * size

Offset(page, size) == (page - 1) * size

Slice(s, page, size) == SubSeq(s, Offset(page, size) + 1, Min({Offset(page, size) + size, Len(s)}))

Summary(rows, lines) ==
    [count |-> Cardinality(lines),
     total |-> Value(rows, lines)]

(* Mutant: only lines whose variant is still sold.                         *)
SoldLines(rows, o, seller) ==
    {i \in Lines(rows, o) : SellerOf[rows[i].variant] = seller /\ Live(rows[rows[i].variant])}

SellerLines(rows, o, seller) == {i \in Lines(rows, o) : SellerOf[rows[i].variant] = seller}

-----------------------------------------------------------------------------
Walkers == {"customerPages", "sellerPages"}
Readers == Walkers \cup {"customerOrder", "sellerOrder"}

ArriveAt(r, ops, label) ==
    /\ Begin(r, {j \in Asked[r] : j.op \in ops}, label)
    /\ since' = [since EXCEPT ![r] = {}]
    /\ UNCHANGED <<clock, start, lost>>

(* The client names the sum it knows: the server's own, or its own sum of  *)
(* the prices the catalogue shows.                                         *)
ArriveCheckout(r) ==
    /\ Begin(r, UNION {[op : {"checkout"}, by : {j.by}, ref : {j.ref}, lines : {j.lines},
                        quote : {Due(db, j.lines), DueUnrounded(db, j.lines)}] :
                         j \in {i \in Asked[r] : i.op = "checkout"}}, "lines")
    /\ since' = [since EXCEPT ![r] = {}]
    /\ UNCHANGED <<clock, start, lost>>

Arrive(r) ==
    \/ ArriveCheckout(r)
    \/ ArriveAt(r, {"deleteItem"}, "item")
    \/ ArriveAt(r, {"reprice"}, "variant")
    \/ ArriveAt(r, {"drop"}, "drop")
    \/ ArriveAt(r, {"customerPages", "sellerPages"}, "count")
    \/ ArriveAt(r, {"customerOrder", "sellerOrder"}, "order")

Forget(r) ==
    /\ since' = [since EXCEPT ![r] = {}]
    /\ start' = [start EXCEPT ![r] = {}]
    /\ lost' = [lost EXCEPT ![r] = {}]
    /\ UNCHANGED clock

Abandon(r) == Fail(r) /\ Forget(r)

ConnectionLost(r) == Running(r) /\ Abandon(r)

(* The commit of a writer, which every request that is running may notice. *)
Commit(r) ==
    /\ pc[r] = "commit"
    /\ Finish(r)
    /\ since' = [s \in Request |->
         IF s = r THEN {}
         ELSE IF Running(s) /\ job[s].op \in Readers \cup {"checkout"}
                THEN since[s] \cup {k \in Rows : db'[k] # db[k]}
                ELSE since[s]]
    /\ lost' = [s \in Request |->
         IF s # r /\ Running(s) /\ job[s].op \in Walkers
           THEN lost[s] \cup (Listed(db, job[s]) \ Listed(db', job[s]))
           ELSE lost[s]]
    /\ UNCHANGED <<clock, start>>

-----------------------------------------------------------------------------
(* POST /orders.                                                           *)
CheckLines(r) ==
    LET lines == job[r].lines IN
    /\ pc[r] = "lines"
    /\ \/ /\ lines = <<>> \/ \E i \in DOMAIN lines : lines[i].quantity <= 0
          /\ Abandon(r)
       \/ /\ lines # <<>> /\ \A i \in DOMAIN lines : lines[i].quantity > 0
          /\ Read(r, [at |-> clock, left |-> FirstLines(lines), bought |-> Merged(lines)], "resolve")
          /\ clock' = clock + 1
          /\ UNCHANGED <<since, start, lost>>

(* The variant and its listing; all lines must be of one seller.           *)
Resolve(r) ==
    LET i == Min(seen[r].left)
        v == seen[r].bought[i].variant
        x == View(r, v)
        oneSeller == SellerOf[v] = SellerOf[seen[r].bought[1].variant]
    IN  /\ pc[r] = "resolve"
        /\ \/ /\ Live(x) /\ oneSeller
              /\ Read(r, [at |-> seen[r].at, left |-> seen[r].left \ {i},
                          bought |-> [seen[r].bought EXCEPT ![i].unit = UnitPrice(x)]],
                      IF seen[r].left = {i} THEN "quote" ELSE "resolve")
              /\ Quiet
           \/ ~(Live(x) /\ oneSeller) /\ Abandon(r)

SoldOut(r) == pc[r] \in {"resolve", "items"} /\ Abandon(r)

(* The business and the address may be missing as well.                    *)
CompareQuote(r) ==
    /\ pc[r] = "quote"
    /\ \/ Cost(seen[r].bought) # job[r].quote /\ Continue(r, "outOfDate") /\ Quiet
       \/ Cost(seen[r].bought) = job[r].quote /\ Continue(r, "insert") /\ Quiet
       \/ Cost(seen[r].bought) = job[r].quote /\ Abandon(r)

RefuseOutOfDate(r) == pc[r] = "outOfDate" /\ Abandon(r)

(* uq_orders_reference_active: an insertion waits for another one with the *)
(* same reference, and fails when the reference is in use.                 *)
Fresh(o) == db[o].state = "none" /\ \A s \in Request : ~Holds(s, o)

Undecided(r, ref) ==
    \E s \in Request \ {r}, o \in Order : Holds(s, o) /\ pend[s][o].ref = ref

(* Mutant: a reference may be used again.                                  *)
NeverTaken(ref) == FALSE

Taken(ref) == \E o \in Order : Live(db[o]) /\ db[o].ref = ref

InsertOrder(r) ==
    LET bought == seen[r].bought
        new == [state |-> "live", by |-> job[r].by, seller |-> SellerOf[bought[1].variant],
                ref |-> job[r].ref, total |-> Cost(bought), at |-> seen[r].at]
    IN  /\ pc[r] = "insert" /\ ~Undecided(r, job[r].ref)
        /\ \/ Taken(job[r].ref) /\ Abandon(r)
           \/ /\ ~Taken(job[r].ref)
              /\ \E o \in {k \in Order : Fresh(k)} :
                   /\ WriteRow(r, o, new)
                   /\ Keep(r, [order |-> o, bought |-> bought])
              /\ Goto(r, "items") /\ UNCHANGED job /\ Quiet

(* Mutant: the quantity of the client's first line.                        *)
NewItemAsAsked(r, n) ==
    [state |-> "live", variant |-> seen[r].bought[n].variant,
     quantity |-> job[r].lines[n].quantity, unit |-> seen[r].bought[n].unit]

NewItem(r, n) ==
    [state |-> "live", variant |-> seen[r].bought[n].variant,
     quantity |-> seen[r].bought[n].quantity, unit |-> seen[r].bought[n].unit]

(* The lines are deducted from stock and inserted one by one; nobody else  *)
(* sees one of them before the commit.                                     *)
InsertItems(r) ==
    LET new == {<<seen[r].order, n>> : n \in DOMAIN seen[r].bought} IN
    /\ pc[r] = "items"
    /\ pend' = [pend EXCEPT ![r] =
         [k \in Rows |-> IF k \in new THEN NewItem(r, k[2]) ELSE @[k]]]
    /\ Goto(r, "commit") /\ UNCHANGED <<db, job, seen>> /\ Quiet

-----------------------------------------------------------------------------
(* DELETE /orders/{order_id}/items/{id}: a read, and a conditional UPDATE. *)
(* Neither the order's total nor the stock is touched.                     *)
FindItem(r) ==
    LET found == Live(View(r, job[r].item)) /\ job[r].item[1] = job[r].order IN
    /\ pc[r] = "item"
    /\ \/ found /\ Continue(r, "delete") /\ Quiet
       \/ ~found /\ Abandon(r)

DeleteItem(r) ==
    LET i == job[r].item IN
    /\ pc[r] = "delete" /\ ~HeldByOther(r, i)
    /\ \/ Live(View(r, i)) /\ Write(r, i, [View(r, i) EXCEPT !.state = "deleted"], "commit") /\ Quiet
       \/ ~Live(View(r, i)) /\ Abandon(r)

(* PATCH of a variant's price or discount, and its deletion.  Whether the  *)
(* variant is the caller's is Listings'.                                   *)
FindVariant(r) ==
    LET x == View(r, job[r].variant) IN
    /\ pc[r] = "variant"
    /\ \/ Live(x) /\ Read(r, x, "reprice") /\ Quiet
       \/ ~Live(x) /\ Abandon(r)

Reprice(r) ==
    LET v == job[r].variant
        dearer == job[r].price \notin {Same, seen[r].price}
        reduced == job[r].off \notin {Same, seen[r].off}
    IN  /\ pc[r] = "reprice"
        /\ IF dearer \/ reduced
             THEN Write(r, v, [View(r, v) EXCEPT !.price = IF dearer THEN job[r].price ELSE @,
                                                 !.off = IF reduced THEN job[r].off ELSE @], "commit")
             ELSE Continue(r, "commit")
        /\ Quiet

DropVariant(r) ==
    LET v == job[r].variant IN
    /\ pc[r] = "drop" /\ ~HeldByOther(r, v)
    /\ \/ Live(View(r, v)) /\ Write(r, v, [View(r, v) EXCEPT !.state = "deleted"], "commit") /\ Quiet
       \/ ~Live(View(r, v)) /\ Abandon(r)

-----------------------------------------------------------------------------
(* GET /orders and /business-orders, asked for page after page.            *)
CountOrders(r) ==
    LET orders == Listed(db, job[r])
        page == IF seen[r] = None THEN 1 ELSE seen[r].page + 1
        shown == IF seen[r] = None THEN {} ELSE seen[r].shown
    IN  /\ pc[r] = "count"
        /\ Read(r, [page |-> page, shown |-> shown, results |-> Cardinality(orders)], "list")
        /\ since' = [since EXCEPT ![r] = {}]
        /\ start' = [start EXCEPT ![r] = IF page = 1 THEN orders ELSE @]
        /\ lost' = [lost EXCEPT ![r] = IF page = 1 THEN {} ELSE @]
        /\ UNCHANGED clock

ListOrders(r) ==
    LET rows == Slice(NewestFirst(db, Listed(db, job[r])), seen[r].page, job[r].size)
        next == IF job[r].op = "sellerPages" THEN "totals" ELSE "counts"
    IN  /\ pc[r] = "list"
        /\ Read(r, [page |-> seen[r].page, results |-> seen[r].results, rows |-> rows,
                    shown |-> seen[r].shown \cup ToSet(rows), summary |-> <<>>, preview |-> <<>>],
                IF rows = <<>> THEN "served" ELSE next)
        /\ Quiet

(* item_counts_for_orders, then preview_items_for_orders.                  *)
CountItems(r) ==
    /\ pc[r] = "counts"
    /\ Read(r, [seen[r] EXCEPT !.summary =
                  [n \in DOMAIN seen[r].rows |->
                     [count |-> Cardinality(Lines(db, seen[r].rows[n])),
                      total |-> db[seen[r].rows[n]].total]]], "previews")
    /\ Quiet

PreviewItems(r) ==
    /\ pc[r] = "previews"
    /\ Read(r, [seen[r] EXCEPT !.preview =
                  [n \in DOMAIN seen[r].rows |->
                     Min({PreviewLimit, Cardinality(Lines(db, seen[r].rows[n]))})]], "served")
    /\ Quiet

(* business_totals_for_orders has no entry for an order without live       *)
(* lines, and the service looks every listed order up in it.               *)
SumForSeller(r) ==
    LET lines(n) == SellerLines(db, seen[r].rows[n], job[r].seller)
        complete == \A n \in DOMAIN seen[r].rows : lines(n) # {}
    IN  /\ pc[r] = "totals"
        /\ \/ /\ complete
              /\ Read(r, [seen[r] EXCEPT !.summary =
                            [n \in DOMAIN seen[r].rows |-> Summary(db, lines(n))]], "served")
           \/ ~complete /\ Continue(r, "keyError")
        /\ Quiet

AnswerKeyError(r) == pc[r] = "keyError" /\ Abandon(r)

(* Mutant: the last page is not counted.                                   *)
FullPages(results, size) == results \div size

(* build_pagination_meta.                                                  *)
TotalPages(results, size) == (results + size - 1) \div size

(* The client goes on until a page is not full.                            *)
LastPage(r) == Len(seen[r].rows) < job[r].size

NextPage(r) ==
    /\ pc[r] = "served" /\ job[r].op \in Walkers
    /\ \/ ~LastPage(r) /\ Read(r, [page |-> seen[r].page, shown |-> seen[r].shown], "count") /\ Quiet
       \/ LastPage(r) /\ Finish(r) /\ Forget(r)

-----------------------------------------------------------------------------
(* GET /orders/{id} and /business-orders/{id}.                             *)
FindOrder(r) ==
    LET o == job[r].order
        found == Live(db[o]) /\ (job[r].op = "customerOrder" => db[o].by = job[r].by)
    IN  /\ pc[r] = "order"
        /\ \/ found /\ Continue(r, IF job[r].op = "customerOrder" THEN "lineup" ELSE "belongs") /\ Quiet
           \/ ~found /\ Abandon(r)

CheckBelongs(r) ==
    LET own == SellerLines(db, job[r].order, job[r].seller) # {} IN
    /\ pc[r] = "belongs"
    /\ \/ own /\ Continue(r, "lineup") /\ Quiet
       \/ ~own /\ Abandon(r)

(* list_customer_order_items and list_business_order_items.                *)
ListItems(r) ==
    LET o == job[r].order
        lines == IF job[r].op = "customerOrder" THEN Lines(db, o) ELSE SellerLines(db, o, job[r].seller)
        detail == [rows |-> <<o>>, items |-> lines, preview |-> <<>>,
                   summary |-> <<[count |-> Cardinality(lines), total |-> db[o].total]>>]
    IN  /\ pc[r] = "lineup"
        /\ Read(r, detail, IF job[r].op = "customerOrder" THEN "served" ELSE "total")
        /\ Quiet

(* A detail without live lines is served with zeros.                       *)
SumDetail(r) ==
    /\ pc[r] = "total"
    /\ Read(r, [seen[r] EXCEPT !.summary =
                  <<Summary(db, SellerLines(db, job[r].order, job[r].seller))>>], "served")
    /\ Quiet

EndDetail(r) ==
    /\ pc[r] = "served" /\ job[r].op \in {"customerOrder", "sellerOrder"}
    /\ Finish(r) /\ Forget(r)

-----------------------------------------------------------------------------
Step(r) ==
    \/ CheckLines(r) \/ Resolve(r) \/ SoldOut(r) \/ CompareQuote(r) \/ RefuseOutOfDate(r)
    \/ InsertOrder(r) \/ InsertItems(r)
    \/ FindItem(r) \/ DeleteItem(r) \/ FindVariant(r) \/ Reprice(r) \/ DropVariant(r)
    \/ CountOrders(r) \/ ListOrders(r) \/ CountItems(r) \/ PreviewItems(r) \/ SumForSeller(r)
    \/ AnswerKeyError(r) \/ NextPage(r)
    \/ FindOrder(r) \/ CheckBelongs(r) \/ ListItems(r) \/ SumDetail(r) \/ EndDetail(r)
    \/ Commit(r) \/ ConnectionLost(r)

Next == \E r \in Request : Arrive(r) \/ Step(r)

Spec == Init /\ [][Next]_vars

-----------------------------------------------------------------------------
(* Types, as the tables declare them; ck_variants_price_non_negative and   *)
(* the columns of orders and order_items leave no room for less than zero. *)
TypeOK ==
    /\ \A v \in Variant : db[v] \in VariantRow
    /\ \A o \in Order : db[o] \in OrderRow
    /\ \A i \in Item : db[i] \in ItemRow
    /\ \A r \in Request : \A k \in Rows :
         pend[r][k] \in {None} \cup VariantRow \cup OrderRow \cup ItemRow
    /\ \A r \in Request : job[r] \in Job \cup {NoJob}
    /\ clock \in Nat
    /\ since \in [Request -> SUBSET Rows]
    /\ start \in [Request -> SUBSET Order] /\ lost \in [Request -> SUBSET Order]

GoneSince(r, o) == {i \in since[r] : i \in Inserted(db, o) /\ db[i].state = "deleted"}

(* An order's total is the sum of the lines it was placed with, cent for   *)
(* cent, whatever prices did meanwhile and whichever of its lines are      *)
(* deleted since; all of them are of its seller (OrderService.create).     *)
OrdersAddUp == \A o \in Order : Live(db[o]) => AddsUp(db, o)

(* A checkout sent again under its reference, after its answer was lost or *)
(* before it came, never places a second order                             *)
(* (uq_orders_reference_active).                                           *)
OneOrderPerReference ==
    \A o, p \in Order : Live(db[o]) /\ Live(db[p]) /\ db[o].ref = db[p].ref => o = p

(* A client that sums up what the server charges for a unit is told that   *)
(* its cart is out of date only if a variant in it was changed while its   *)
(* checkout ran, also when a variant is in its cart twice                  *)
(* (OrderService.create and _resolve_order_lines).                         *)
QuoteHolds ==
    \A r \in Request : pc[r] = "outOfDate" =>
        \/ \E i \in DOMAIN job[r].lines : job[r].lines[i].variant \in since[r]
        \/ job[r].quote # Due(db, job[r].lines)

(* What a page or a detail says of an order fits the order and its lines,  *)
(* although each figure is another statement's: a customer sees the total  *)
(* paid, a seller what is left of it after the lines that were deleted;    *)
(* counts, sums and previews differ from the lines at the end by no more   *)
(* than what was deleted while the page was made (read_for_customer,       *)
(* read_for_business, read_by_id and read_by_id_for_business).             *)
PagesAddUp ==
    \A r \in Request : pc[r] = "served" =>
        \A n \in DOMAIN seen[r].rows :
            LET o == seen[r].rows[n]
                told == seen[r].summary[n]
                left == Lines(db, o)
                gone == GoneSince(r, o)
            IN  /\ told.count \in Cardinality(left)..Cardinality(left \cup gone)
                /\ IF job[r].op \in {"customerPages", "customerOrder"}
                     THEN told.total = Value(db, Inserted(db, o))
                     ELSE /\ told.total \in Value(db, left)..Value(db, left \cup gone)
                          /\ gone = {} => told.total = db[o].total - Value(db, Inserted(db, o) \ left)
                /\ seen[r].preview # <<>> =>
                     /\ seen[r].preview[n] >= Min({PreviewLimit, Cardinality(left)})
                     /\ seen[r].preview[n] <= Min({PreviewLimit, told.count})

(* The page numbers a response announces are those that have rows, unless  *)
(* an order came or went between its count and its list                    *)
(* (build_pagination_meta and the offset of the list).                     *)
AnnouncedPagesExist ==
    \A r \in Request :
        /\ pc[r] = "served" /\ job[r].op \in Walkers
        /\ since[r] \cap (Order \cup Item) = {}
        => (seen[r].rows # <<>> <=> seen[r].page <= TotalPages(seen[r].results, job[r].size))

(* A customer who asks for page after page until one is not full has been  *)
(* shown every order that was there when he began, whatever was placed     *)
(* meanwhile.  A seller as well, unless an order, be it one placed since,  *)
(* lost its last line: the others then move up, and the next page begins   *)
(* one too far down (list_orders_for_user, list_orders_for_business).      *)
NoneMissed ==
    \A r \in Request :
        /\ pc[r] = "served" /\ job[r].op \in Walkers /\ LastPage(r)
        => \/ start[r] \subseteq seen[r].shown
           \/ job[r].op = "sellerPages" /\ lost[r] # {}

(* A seller's page fails, for want of a sum, only when the last line of a  *)
(* listed order was deleted while the page was made (read_for_business).   *)
SellerIsServed ==
    \A r \in Request : pc[r] = "keyError" =>
        \E n \in DOMAIN seen[r].rows :
            Lines(db, seen[r].rows[n]) = {} /\ GoneSince(r, seen[r].rows[n]) # {}
=============================================================================
