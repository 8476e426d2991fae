-------------------------- MODULE OrderStockProofs ---------------------------
(***************************************************************************)
(* Theorems about OrderStock, for every set of requests, orders, variants  *)
(* and listings: types, the locks of rows and stock that is never negative *)
(* first, then what every transaction has written by the time it commits,  *)
(* and last what the commits mean for orders, for listings and for the     *)
(* account of stock that StockAccount specifies.                           *)
(*                                                                         *)
(* The account needs to know how SumFunction of the community modules      *)
(* behaves: it is defined by recursion over a finite set, and the facts    *)
(* about it are proved by taking a smallest counterexample.                *)
(***************************************************************************)
EXTENDS OrderStock, Functions, FiniteSetTheorems, WellFoundedInduction, TLAPS

-----------------------------------------------------------------------------
(* Rows and their types.                                                   *)

LEMMA RowTypes ==
    /\ \A v \in Variant : v \in Key /\ RowType(v) = VariantRow
    /\ \A l \in Listing : l \in Key /\ RowType(l) = ListingRow
    /\ \A o \in Order : o \in Key /\ RowType(o) = OrderRow
    /\ \A i \in Item : i \in Key /\ RowType(i) = ItemRow
<1>1. \A v \in Variant : v \in Key /\ RowType(v) = VariantRow
  BY KeysDisjoint DEF RowType, Key
<1>2. \A l \in Listing : l \in Key /\ RowType(l) = ListingRow
  BY KeysDisjoint DEF RowType, Key
<1>3. \A o \in Order : o \in Key /\ RowType(o) = OrderRow
  BY KeysDisjoint DEF RowType, Key
<1>4. \A i \in Item : i \in Key /\ RowType(i) = ItemRow
  <2> TAKE i \in Item
  <2>1. i \notin Variant /\ i \notin Listing /\ i \notin Order /\ i \in Key
    BY KeysDisjoint DEF Key
  <2> QED
    BY <2>1 DEF RowType
<1> QED
  BY <1>1, <1>2, <1>3, <1>4

LEMMA RowTypeIsVersion ==
    \A k \in Key : RowType(k) \subseteq Version /\ None \notin RowType(k)
<1> TAKE k \in Key
<1>1. RowType(k) \in {VariantRow, ListingRow, OrderRow, ItemRow}
  BY RowTypes DEF Key
<1> QED
  BY <1>1, NoneIsNoRow DEF Version

LEMMA ViewType ==
    ASSUME RowsOK, NEW r \in Request, NEW k \in Key
    PROVE  View(r, k) \in RowType(k)
BY DEF RowsOK, View

LEMMA WriteRowType ==
    ASSUME RowsOK, NEW r \in Request, NEW k \in Key, NEW x \in RowType(k), WriteRow(r, k, x)
    PROVE  RowsOK'
<1>1. x \in Version
  BY RowTypeIsVersion
<1> QED
  BY <1>1 DEF RowsOK, WriteRow

LEMMA WriteRows2Type ==
    ASSUME RowsOK, NEW r \in Request, NEW k \in Key, NEW x \in RowType(k),
           NEW m \in Key, NEW y \in RowType(m), WriteRows2(r, k, x, m, y)
    PROVE  RowsOK'
<1>1. x \in Version /\ y \in Version
  BY RowTypeIsVersion
<1> QED
  BY <1>1 DEF RowsOK, WriteRows2

LEMMA DiscardType ==
    ASSUME RowsOK, NEW r \in Request, DiscardWrites(r)
    PROVE  RowsOK'
BY DEF RowsOK, DiscardWrites, NoWrites, Row

LEMMA CommitType ==
    ASSUME RowsOK, NEW r \in Request, CommitWrites(r)
    PROVE  RowsOK'
<1>1. Row = Key
  BY DEF RowsOK, Row
<1>2. \A k \in Key : View(r, k) \in RowType(k) /\ View(r, k) \in Version
  BY ViewType, RowTypeIsVersion
<1> QED
  BY <1>1, <1>2 DEF RowsOK, CommitWrites, NoWrites

-----------------------------------------------------------------------------
(* Local state.                                                            *)

LEMMA OtherRequests ==
    ASSUME NEW s \in Request, RequestOK(s),
           pc'[s] = pc[s], job'[s] = job[s], todo'[s] = todo[s], at'[s] = at[s]
    PROVE  RequestOK(s)'
BY DEF RequestOK

LEMMA GotoFrame ==
    ASSUME LocalsOK, NEW r \in Request, NEW label \in Label, Goto(r, label)
    PROVE  /\ pc' \in [Request -> Label]
           /\ pc'[r] = label
           /\ \A s \in Request \ {r} : pc'[s] = pc[s]
BY DEF LocalsOK, Goto

LEMMA LoopFrame ==
    ASSUME LocalsOK, NEW r \in Request, NEW S \in SUBSET Variant,
           NEW label \in Label, NEW after \in Label, Loop(r, S, label, after)
    PROVE  /\ pc' \in [Request -> Label]
           /\ todo' \in [Request -> SUBSET Variant]
           /\ DOMAIN at' = Request
           /\ todo'[r] = S
           /\ \/ pc'[r] = label /\ at'[r] \in S
              \/ pc'[r] = after /\ S = {}
           /\ \A s \in Request \ {r} :
                pc'[s] = pc[s] /\ todo'[s] = todo[s] /\ at'[s] = at[s]
BY DEF LocalsOK, Loop, Goto

LEMMA EndFrame ==
    ASSUME TypeOK, NEW r \in Request, NEW outcome \in {"done", "failed"}, End(r, outcome)
    PROVE  LocalsOK' /\ \A s \in Request : RequestOK(s)'
<1>1. LocalsOK'
  BY DEF TypeOK, LocalsOK, End, Goto, Label, Job
<1>2. RequestOK(r)'
  BY DEF TypeOK, LocalsOK, End, Goto, RequestOK
<1>3. ASSUME NEW s \in Request \ {r} PROVE RequestOK(s)'
  BY <1>3, OtherRequests DEF TypeOK, LocalsOK, End, Goto
<1> QED
  BY <1>1, <1>2, <1>3

LEMMA FailType ==
    ASSUME TypeOK, NEW r \in Request, Fail(r)
    PROVE  TypeOK'
<1>1. RowsOK'
  BY DiscardType DEF Fail, TypeOK
<1>2. LocalsOK' /\ \A s \in Request : RequestOK(s)'
  BY EndFrame DEF Fail
<1> QED
  BY <1>1, <1>2 DEF TypeOK, Fail, HistoryOK, history

LEMMA BeginType ==
    ASSUME TypeOK, NEW r \in Request, BeginAny(r)
    PROVE  TypeOK'
<1>0. RowsOK' /\ HistoryOK'
  BY DEF TypeOK, BeginAny, BeginCheckout, BeginCancel, BeginStatus, BeginSetStock,
         BeginDeleteVariant, BeginDeleteItem, BeginSetListing, BeginDeleteListing, Begin,
         RowsOK, HistoryOK, history
<1>1. CASE BeginCheckout(r)
  <2>1. PICK j \in CheckoutJob :
          job' = [job EXCEPT ![r] = j] /\ Loop(r, DOMAIN j.cart, "resolve", "place")
    BY <1>1 DEF BeginCheckout
  <2>2. j.cart \in Cart /\ DOMAIN j.cart \in SUBSET Variant
    BY DEF CheckoutJob, Cart
  <2>3. UNCHANGED <<seen, put>>
    BY <1>1 DEF BeginCheckout
  <2>4. LocalsOK /\ {"resolve", "place"} \subseteq Label
    BY DEF TypeOK, Label
  <2>5. /\ pc' \in [Request -> Label]
        /\ todo' \in [Request -> SUBSET Variant]
        /\ DOMAIN at' = Request
        /\ todo'[r] = DOMAIN j.cart
        /\ \/ pc'[r] = "resolve" /\ at'[r] \in DOMAIN j.cart
           \/ pc'[r] = "place" /\ DOMAIN j.cart = {}
        /\ \A s \in Request \ {r} :
             pc'[s] = pc[s] /\ todo'[s] = todo[s] /\ at'[s] = at[s]
    BY <2>1, <2>2, <2>4, LoopFrame
  <2>6. LocalsOK'
    BY <2>1, <2>3, <2>4, <2>5 DEF LocalsOK, Job
  <2>7. RequestOK(r)'
    BY <2>1, <2>4, <2>5 DEF LocalsOK, RequestOK
  <2>8. ASSUME NEW s \in Request \ {r} PROVE RequestOK(s)'
    BY <2>1, <2>4, <2>5, <2>8, OtherRequests DEF TypeOK, LocalsOK
  <2> QED
    BY <1>0, <2>6, <2>7, <2>8 DEF TypeOK
<1>2. ASSUME NEW Jobs, NEW label, Begin(r, Jobs, label),
             \/ Jobs \in {CancelJob, StatusJob} /\ label = "read"
             \/ Jobs \in {SetStockJob, DeleteVariantJob, DeleteItemJob, SetListingJob,
                          DeleteListingJob} /\ label = "check"
      PROVE  TypeOK'
  <2>1. PICK j \in Jobs : job' = [job EXCEPT ![r] = j]
    BY <1>2 DEF Begin
  <2>2. j \in Job
    BY <1>2 DEF Job
  <2>3. LocalsOK'
    BY <1>2, <2>1, <2>2 DEF Begin, Goto, Label, TypeOK, LocalsOK
  <2>4. RequestOK(r)'
    BY <1>2, <2>1 DEF Begin, Goto, TypeOK, LocalsOK, RequestOK
  <2>5. ASSUME NEW s \in Request \ {r} PROVE RequestOK(s)'
    BY <1>2, <2>1, <2>5, OtherRequests DEF Begin, Goto, TypeOK, LocalsOK
  <2> QED
    BY <1>0, <2>3, <2>4, <2>5 DEF TypeOK
<1> QED
  BY <1>1, <1>2 DEF BeginAny, BeginCancel, BeginStatus, BeginSetStock, BeginDeleteVariant,
       BeginDeleteItem, BeginSetListing, BeginDeleteListing

-----------------------------------------------------------------------------
(* Statements: a step of r keeps the type invariant when it writes rows of *)
(* their type and leaves r at a statement of its own handler.              *)

LEMMA GotoStep ==
    ASSUME TypeOK, NEW r \in Request, NEW label \in Label, Goto(r, label),
           job' = job, todo' = todo, at' = at, put' = put, DOMAIN seen' = Request,
           RowsOK', history' = history,
           pc'[r] = label => RequestOK(r)'
    PROVE  TypeOK'
<1>1. LocalsOK
  BY DEF TypeOK
<1>2. /\ pc' \in [Request -> Label]
      /\ pc'[r] = label
      /\ \A s \in Request \ {r} : pc'[s] = pc[s]
  BY <1>1, GotoFrame
<1>3. LocalsOK'
  BY <1>1, <1>2 DEF LocalsOK
<1>4. ASSUME NEW s \in Request \ {r} PROVE RequestOK(s)'
  BY <1>2, <1>4, OtherRequests DEF TypeOK
<1> QED
  BY <1>2, <1>3, <1>4 DEF TypeOK, HistoryOK, history

LEMMA LoopStep ==
    ASSUME TypeOK, NEW r \in Request, NEW S \in SUBSET Variant,
           NEW label \in Label, NEW after \in Label, Loop(r, S, label, after),
           job' = job, put' \in [Request -> SUBSET Item], seen' = seen,
           RowsOK', history' = history,
           todo'[r] = S /\ pc'[r] = label /\ at'[r] \in S => RequestOK(r)',
           todo'[r] = S /\ pc'[r] = after /\ S = {} => RequestOK(r)'
    PROVE  TypeOK'
<1>1. LocalsOK
  BY DEF TypeOK
<1>2. /\ pc' \in [Request -> Label]
      /\ todo' \in [Request -> SUBSET Variant]
      /\ DOMAIN at' = Request
      /\ todo'[r] = S
      /\ \/ pc'[r] = label /\ at'[r] \in S
         \/ pc'[r] = after /\ S = {}
      /\ \A s \in Request \ {r} :
           pc'[s] = pc[s] /\ todo'[s] = todo[s] /\ at'[s] = at[s]
  BY <1>1, LoopFrame
<1>3. LocalsOK'
  BY <1>1, <1>2 DEF LocalsOK
<1>4. ASSUME NEW s \in Request \ {r} PROVE RequestOK(s)'
  BY <1>2, <1>4, OtherRequests DEF TypeOK
<1> QED
  BY <1>2, <1>3, <1>4 DEF TypeOK, HistoryOK, history

LEMMA RowsUnchanged == RowsOK /\ UNCHANGED <<db, pend>> => RowsOK'
BY DEF RowsOK

LEMMA LabelNames ==
    {"resolve", "place", "deduct", "read", "belongs", "list", "restore", "mark", "check",
     "load", "writeStock", "removeVariant", "removeItem", "reload", "writeListing",
     "select", "cascade", "removeListing", "commit"} \subseteq Label
BY DEF Label

LEMMA CheckoutTypes ==
    ASSUME NEW j \in CheckoutJob
    PROVE  /\ j.order \in Order
           /\ DOMAIN j.cart \subseteq Variant
           /\ \A v \in DOMAIN j.cart : j.cart[v] \in Nat \ {0}
           /\ CartUnits(j.cart) \in [Variant -> Nat]
           /\ j.fulfillment \in Fulfillment
           /\ j # NoJob
<1>1. PICK S \in (SUBSET Variant) \ {{}} : j.cart \in [S -> 1..MaxQuantity]
  BY DEF CheckoutJob, Cart
<1>2. \A v \in DOMAIN j.cart : v \in Variant /\ j.cart[v] \in Nat \ {0}
  BY <1>1, CatalogAssumption
<1> QED
  BY <1>2, CatalogAssumption DEF CheckoutJob, CartUnits, NoJob

LEMMA CheckoutType ==
    ASSUME TypeOK, NEW r \in Request, ResolveLine(r) \/ InsertOrder(r) \/ DeductLine(r)
    PROVE  TypeOK'
<1> DEFINE j == job[r]
           cart == job[r].cart
<1>1. /\ j \in CheckoutJob
      /\ pc[r] \in {"resolve", "deduct"} =>
           at[r] \in todo[r] /\ todo[r] \subseteq DOMAIN cart
  BY DEF TypeOK, RequestOK, ResolveLine, InsertOrder, DeductLine
<1>2. /\ j.order \in Order
      /\ DOMAIN cart \subseteq Variant
      /\ \A v \in DOMAIN cart : cart[v] \in Nat \ {0}
      /\ CartUnits(cart) \in [Variant -> Nat]
      /\ j.fulfillment \in Fulfillment
      /\ j # NoJob
  BY <1>1, CheckoutTypes
<1>3. RowsOK /\ LocalsOK /\ RequestOK(r)
  BY DEF TypeOK
<1>4. CASE Fail(r)
  BY <1>4, FailType
<1>5. CASE ResolveLine(r) /\ ~Fail(r)
  <2>1. /\ pc[r] = "resolve"
        /\ Loop(r, todo[r] \ {at[r]}, "resolve", "place")
        /\ UNCHANGED <<db, pend, job, seen, put, history>>
    BY <1>5 DEF ResolveLine
  <2>2. RowsOK'
    BY <2>1, <1>3, RowsUnchanged
  <2> DEFINE S == todo[r] \ {at[r]}
  <2>3. /\ todo'[r] = S /\ pc'[r] = "resolve" /\ at'[r] \in S => RequestOK(r)'
        /\ todo'[r] = S /\ pc'[r] = "place" /\ S = {} => RequestOK(r)'
    BY <1>1, <2>1 DEF RequestOK
  <2>4. put' \in [Request -> SUBSET Item] /\ todo[r] \ {at[r]} \in SUBSET Variant
    BY <2>1, <1>3 DEF LocalsOK
  <2> QED
    BY <2>1, <2>2, <2>3, <2>4, LoopStep, LabelNames
<1>6. CASE InsertOrder(r) /\ ~Fail(r)
  <2>1. /\ pc[r] = "place"
        /\ WriteRow(r, j.order, PlacedOrder(r))
        /\ Loop(r, DOMAIN cart, "deduct", "commit")
        /\ UNCHANGED <<job, seen, put, history>>
    BY <1>6 DEF InsertOrder
  <2>2. PlacedOrder(r) \in OrderRow
    BY <1>2 DEF PlacedOrder, OrderRow, OrderStatus
  <2>3. RowsOK'
    BY <2>1, <2>2, <1>2, <1>3, RowTypes, WriteRowType
  <2> DEFINE S == DOMAIN cart
  <2>4. /\ todo'[r] = S /\ pc'[r] = "deduct" /\ at'[r] \in S => RequestOK(r)'
        /\ todo'[r] = S /\ pc'[r] = "commit" /\ S = {} => RequestOK(r)'
    BY <1>1, <1>2, <2>1 DEF RequestOK
  <2>5. put' \in [Request -> SUBSET Item]
    BY <2>1, <1>3 DEF LocalsOK
  <2> QED
    BY <2>1, <2>3, <2>4, <2>5, <1>2, LoopStep, LabelNames
<1>7. CASE DeductLine(r) /\ ~Fail(r)
  <2> DEFINE v == at[r]
             item == <<j.order, v>>
             newVariant == [View(r, v) EXCEPT !.stock = @ - cart[v]]
             newItem == [quantity |-> cart[v], live |-> TRUE]
  <2>1. /\ pc[r] = "deduct"
        /\ WriteRows2(r, v, newVariant, item, newItem)
        /\ Loop(r, todo[r] \ {v}, "deduct", "commit")
        /\ UNCHANGED <<job, seen, put, history>>
    BY <1>7 DEF DeductLine
  <2>2. v \in Variant /\ item \in Item /\ cart[v] \in Nat
    BY <1>1, <1>2, <2>1 DEF Item
  <2>3. View(r, v) \in VariantRow
    BY <2>2, <1>3, RowTypes, ViewType
  <2>4. newVariant \in VariantRow /\ newItem \in ItemRow
    BY <2>2, <2>3 DEF VariantRow, ItemRow
  <2>5. RowsOK'
    BY <2>1, <2>2, <2>4, <1>3, RowTypes, WriteRows2Type
  <2> DEFINE S == todo[r] \ {v}
  <2>6. /\ todo'[r] = S /\ pc'[r] = "deduct" /\ at'[r] \in S => RequestOK(r)'
        /\ todo'[r] = S /\ pc'[r] = "commit" /\ S = {} => RequestOK(r)'
    BY <1>1, <1>2, <2>1 DEF RequestOK
  <2>7. put' \in [Request -> SUBSET Item] /\ todo[r] \ {v} \in SUBSET Variant
    BY <2>1, <1>3 DEF LocalsOK
  <2> QED
    BY <2>1, <2>5, <2>6, <2>7, LoopStep, LabelNames
<1> QED
  BY <1>4, <1>5, <1>6, <1>7

LEMMA CancelTypes ==
    ASSUME NEW j \in CancelJob \cup StatusJob
    PROVE  j.order \in Order /\ j.target \in OrderStatus /\ j # NoJob
BY DEF CancelJob, StatusJob, OrderStatus, NoJob

LEMMA CancelType ==
    ASSUME TypeOK, NEW r \in Request,
           ReadOrder(r) \/ CheckSeller(r) \/ ListItems(r) \/ RestoreLine(r) \/ MarkStatus(r)
    PROVE  TypeOK'
<1> DEFINE j == job[r]
           o == job[r].order
<1>1. /\ j \in CancelJob \cup StatusJob
      /\ pc[r] = "belongs" => j \in StatusJob
      /\ pc[r] = "restore" => at[r] \in todo[r]
  BY DEF TypeOK, RequestOK, ReadOrder, CheckSeller, ListItems, RestoreLine, MarkStatus
<1>2. o \in Order /\ j.target \in OrderStatus /\ j # NoJob
  BY <1>1, CancelTypes
<1>3. RowsOK /\ LocalsOK /\ RequestOK(r)
  BY DEF TypeOK
<1>4. CASE Fail(r)
  BY <1>4, FailType
<1>5. CASE ReadOrder(r) /\ ~Fail(r)
  <2>1. PICK label \in {"list", "belongs"} :
          /\ Goto(r, label)
          /\ label = "belongs" => j.op # "cancel"
          /\ seen' = [seen EXCEPT ![r] = View(r, o).status]
          /\ UNCHANGED <<db, pend, job, todo, at, put, history>>
    BY <1>5 DEF ReadOrder
  <2>2. RowsOK' /\ DOMAIN seen' = Request
    BY <2>1, <1>3, RowsUnchanged DEF LocalsOK
  <2>3. pc'[r] = label => RequestOK(r)'
    BY <2>1, <1>1 DEF RequestOK, CancelJob, StatusJob
  <2> QED
    BY <2>1, <2>2, <2>3, GotoStep, LabelNames
<1>6. CASE CheckSeller(r) /\ ~Fail(r)
  <2>1. PICK label \in {"list", "mark"} :
          Goto(r, label) /\ UNCHANGED <<db, pend, locals, history>>
    BY <1>6 DEF CheckSeller
  <2>2. RowsOK' /\ DOMAIN seen' = Request
    BY <2>1, <1>3, RowsUnchanged DEF LocalsOK, locals
  <2>3. pc'[r] = label => RequestOK(r)'
    BY <2>1, <1>1 DEF RequestOK, locals
  <2> QED
    BY <2>1, <2>2, <2>3, GotoStep, LabelNames DEF locals
<1>7. CASE ListItems(r) /\ ~Fail(r)
  <2> DEFINE S == LiveItems(r, o)
  <2>1. /\ Loop(r, S, "restore", "mark")
        /\ UNCHANGED <<db, pend, job, seen, put, history>>
    BY <1>7 DEF ListItems
  <2>2. RowsOK' /\ S \in SUBSET Variant /\ put' \in [Request -> SUBSET Item]
    BY <2>1, <1>3, RowsUnchanged DEF LocalsOK, LiveItems
  <2>3. /\ todo'[r] = S /\ pc'[r] = "restore" /\ at'[r] \in S => RequestOK(r)'
        /\ todo'[r] = S /\ pc'[r] = "mark" /\ S = {} => RequestOK(r)'
    BY <2>1, <1>1 DEF RequestOK
  <2> QED
    BY <2>1, <2>2, <2>3, LoopStep, LabelNames
<1>8. CASE RestoreLine(r) /\ ~Fail(r)
  <2> DEFINE v == at[r]
             item == <<o, v>>
             S == todo[r] \ {v}
             newVariant == [View(r, v) EXCEPT !.stock = @ + View(r, item).quantity]
  <2>1. /\ pc[r] = "restore"
        /\ \/ WriteRow(r, v, newVariant) /\ put' = [put EXCEPT ![r] = @ \cup {item}]
           \/ UNCHANGED <<db, pend, put>>
        /\ Loop(r, S, "restore", "mark")
        /\ UNCHANGED <<job, seen, history>>
    BY <1>8 DEF RestoreLine
  <2>2. v \in Variant /\ item \in Item
    BY <2>1, <1>1, <1>2, <1>3 DEF Item, LocalsOK
  <2>3. newVariant \in VariantRow
    <3>1. View(r, v) \in VariantRow /\ View(r, item) \in ItemRow
      BY <2>2, <1>3, RowTypes, ViewType
    <3> QED
      BY <3>1 DEF VariantRow, ItemRow
  <2>4. RowsOK' /\ put' \in [Request -> SUBSET Item] /\ S \in SUBSET Variant
    <3>1. RowsOK'
      BY <2>1, <2>2, <2>3, <1>3, RowTypes, WriteRowType, RowsUnchanged
    <3> QED
      BY <3>1, <2>1, <2>2, <1>3 DEF LocalsOK
  <2>5. /\ todo'[r] = S /\ pc'[r] = "restore" /\ at'[r] \in S => RequestOK(r)'
        /\ todo'[r] = S /\ pc'[r] = "mark" /\ S = {} => RequestOK(r)'
    BY <2>1, <1>1 DEF RequestOK
  <2> QED
    BY <2>1, <2>4, <2>5, LoopStep, LabelNames
<1>9. CASE MarkStatus(r) /\ ~Fail(r)
  <2> DEFINE newOrder == [View(r, o) EXCEPT !.status = j.target]
  <2>1. /\ WriteRow(r, o, newOrder)
        /\ Goto(r, "commit")
        /\ UNCHANGED <<locals, history>>
    BY <1>9 DEF MarkStatus
  <2>2. newOrder \in OrderRow
    <3>1. View(r, o) \in OrderRow
      BY <1>2, <1>3, RowTypes, ViewType
    <3> QED
      BY <3>1, <1>2 DEF OrderRow
  <2>3. RowsOK' /\ DOMAIN seen' = Request
    BY <2>1, <2>2, <1>2, <1>3, RowTypes, WriteRowType DEF LocalsOK, locals
  <2>4. pc'[r] = "commit" => RequestOK(r)'
    BY <2>1, <1>1, <1>2 DEF RequestOK, locals
  <2> QED
    BY <2>1, <2>3, <2>4, GotoStep, LabelNames DEF locals
<1> QED
  BY <1>4, <1>5, <1>6, <1>7, <1>8, <1>9

LEMMA SellerTypes ==
    ASSUME NEW j
    PROVE  /\ j \in SetStockJob => j.op = "setStock" /\ j.variant \in Variant /\ j.stock \in Int
           /\ j \in DeleteVariantJob => j.op = "deleteVariant" /\ j.variant \in Variant
           /\ j \in DeleteItemJob => j.op = "deleteItem" /\ j.item \in Item
           /\ j \in SetListingJob =>
                j.op = "setListing" /\ j.listing \in Listing /\ j.target \in ListingStatus
           /\ j \in DeleteListingJob => j.op = "deleteListing" /\ j.listing \in Listing
           /\ j \in SetStockJob \cup DeleteVariantJob \cup DeleteItemJob
                      \cup SetListingJob \cup DeleteListingJob => j # NoJob
BY CatalogAssumption
   DEF SetStockJob, DeleteVariantJob, DeleteItemJob, SetListingJob, DeleteListingJob,
       ListingStatus, NoJob

LEMMA VariantType ==
    ASSUME TypeOK, NEW r \in Request,
           \/ CheckVariant(r) \/ LoadVariant(r) \/ WriteStock(r) \/ RemoveVariant(r)
           \/ CheckItem(r) \/ RemoveItem(r)
    PROVE  TypeOK'
<1> DEFINE j == job[r]
<1>1. RowsOK /\ LocalsOK /\ RequestOK(r)
  BY DEF TypeOK
<1>2. CASE Fail(r)
  BY <1>2, FailType
<1>3. CASE (CheckVariant(r) \/ CheckItem(r)) /\ ~Fail(r)
  <2>1. PICK label \in {"load", "removeVariant", "removeItem"} :
          /\ pc[r] = "check"
          /\ Goto(r, label) /\ UNCHANGED <<db, pend, locals, history>>
          /\ label = "load" => j.op = "setStock"
          /\ label = "removeVariant" => j.op = "deleteVariant"
          /\ label = "removeItem" => j.op = "deleteItem"
    BY <1>3 DEF CheckVariant, CheckItem
  <2>2. RowsOK' /\ DOMAIN seen' = Request
    BY <2>1, <1>1, RowsUnchanged DEF LocalsOK, locals
  <2>3. j \in SetStockJob \cup DeleteVariantJob \cup DeleteItemJob
                 \cup SetListingJob \cup DeleteListingJob
    BY <2>1, <1>1 DEF RequestOK
  <2>4. pc'[r] = label => RequestOK(r)'
    BY <2>1, <2>3, SellerTypes DEF RequestOK, locals
  <2> QED
    BY <2>1, <2>2, <2>4, GotoStep, LabelNames DEF locals
<1>4. CASE LoadVariant(r) /\ ~Fail(r)
  <2>1. PICK label \in {"commit", "writeStock"} :
          /\ pc[r] = "load"
          /\ Goto(r, label)
          /\ seen' = [seen EXCEPT ![r] = View(r, j.variant).stock]
          /\ UNCHANGED <<db, pend, job, todo, at, put, history>>
    BY <1>4 DEF LoadVariant
  <2>2. RowsOK' /\ DOMAIN seen' = Request
    BY <2>1, <1>1, RowsUnchanged DEF LocalsOK
  <2>3. pc'[r] = label => RequestOK(r)'
    BY <2>1, <1>1, SellerTypes DEF RequestOK
  <2> QED
    BY <2>1, <2>2, <2>3, GotoStep, LabelNames
<1>5. CASE (WriteStock(r) \/ RemoveVariant(r)) /\ ~Fail(r)
  <2> DEFINE v == j.variant
  <2>1. PICK x \in {[View(r, v) EXCEPT !.stock = j.stock], [View(r, v) EXCEPT !.live = FALSE]} :
          /\ pc[r] = "writeStock" \/ pc[r] = "removeVariant"
          /\ x = [View(r, v) EXCEPT !.stock = j.stock] => pc[r] = "writeStock"
                                                         \/ x = [View(r, v) EXCEPT !.live = FALSE]
          /\ WriteRow(r, v, x)
          /\ Goto(r, "commit") /\ UNCHANGED <<locals, history>>
    BY <1>5 DEF WriteStock, RemoveVariant
  <2>2. j \in SetStockJob \cup DeleteVariantJob /\ (pc[r] = "writeStock" => j \in SetStockJob)
    BY <2>1, <1>1 DEF RequestOK
  <2>3. v \in Variant /\ View(r, v) \in VariantRow
    BY <2>2, <1>1, SellerTypes, RowTypes, ViewType
  <2>4. x \in VariantRow
    BY <2>1, <2>2, <2>3, SellerTypes DEF VariantRow
  <2>5. RowsOK' /\ DOMAIN seen' = Request
    BY <2>1, <2>3, <2>4, <1>1, RowTypes, WriteRowType DEF LocalsOK, locals
  <2>6. pc'[r] = "commit" => RequestOK(r)'
    BY <2>1, <2>2, SellerTypes DEF RequestOK, locals
  <2> QED
    BY <2>1, <2>5, <2>6, GotoStep, LabelNames DEF locals
<1>6. CASE RemoveItem(r) /\ ~Fail(r)
  <2> DEFINE i == j.item
  <2>1. /\ pc[r] = "removeItem"
        /\ WriteRow(r, i, [View(r, i) EXCEPT !.live = FALSE])
        /\ Goto(r, "commit") /\ UNCHANGED <<locals, history>>
    BY <1>6 DEF RemoveItem
  <2>2. j \in DeleteItemJob
    BY <2>1, <1>1 DEF RequestOK
  <2>3. i \in Item /\ View(r, i) \in ItemRow
    BY <2>2, <1>1, SellerTypes, RowTypes, ViewType
  <2>4. [View(r, i) EXCEPT !.live = FALSE] \in ItemRow
    BY <2>3 DEF ItemRow
  <2>5. RowsOK' /\ DOMAIN seen' = Request
    BY <2>1, <2>3, <2>4, <1>1, RowTypes, WriteRowType DEF LocalsOK, locals
  <2>6. pc'[r] = "commit" => RequestOK(r)'
    BY <2>1, <2>2, SellerTypes DEF RequestOK, locals
  <2> QED
    BY <2>1, <2>5, <2>6, GotoStep, LabelNames DEF locals
<1> QED
  BY <1>2, <1>3, <1>4, <1>5, <1>6

LEMMA ListingType ==
    ASSUME TypeOK, NEW r \in Request,
           \/ CheckListing(r) \/ ReloadListing(r) \/ WriteListing(r)
           \/ SelectVariants(r) \/ CascadeLine(r) \/ RemoveListing(r)
    PROVE  TypeOK'
<1> DEFINE j == job[r]
           l == job[r].listing
<1>1. RowsOK /\ LocalsOK /\ RequestOK(r)
  BY DEF TypeOK
<1>2. CASE Fail(r)
  BY <1>2, FailType
<1>3. CASE CheckListing(r) /\ ~Fail(r)
  <2>1. PICK label \in {"reload", "select"} :
          /\ pc[r] = "check"
          /\ j.op \in {"setListing", "deleteListing"}
          /\ Goto(r, label)
          /\ label = "reload" <=> j.op = "setListing"
          /\ seen' = [seen EXCEPT ![r] = View(r, l).status]
          /\ UNCHANGED <<db, pend, job, todo, at, put, history>>
    BY <1>3 DEF CheckListing
  <2>2. RowsOK' /\ DOMAIN seen' = Request
    BY <2>1, <1>1, RowsUnchanged DEF LocalsOK
  <2>3. j \in SetStockJob \cup DeleteVariantJob \cup DeleteItemJob
                 \cup SetListingJob \cup DeleteListingJob
    BY <2>1, <1>1 DEF RequestOK
  <2>4. pc'[r] = label => RequestOK(r)'
    BY <2>1, <2>3, SellerTypes DEF RequestOK
  <2> QED
    BY <2>1, <2>2, <2>4, GotoStep, LabelNames
<1>4. CASE ReloadListing(r) /\ ~Fail(r)
  <2>1. PICK label \in {"commit", "writeListing"} :
          pc[r] = "reload" /\ Goto(r, label) /\ UNCHANGED <<db, pend, locals, history>>
    BY <1>4 DEF ReloadListing
  <2>2. RowsOK' /\ DOMAIN seen' = Request
    BY <2>1, <1>1, RowsUnchanged DEF LocalsOK, locals
  <2>3. pc'[r] = label => RequestOK(r)'
    BY <2>1, <1>1, SellerTypes DEF RequestOK, locals
  <2> QED
    BY <2>1, <2>2, <2>3, GotoStep, LabelNames DEF locals
<1>5. CASE (WriteListing(r) \/ RemoveListing(r)) /\ ~Fail(r)
  <2>1. PICK x \in {[View(r, l) EXCEPT !.status = j.target],
                    [status |-> "DELETED", live |-> FALSE]} :
          /\ pc[r] = "writeListing" \/ pc[r] = "removeListing"
          /\ pc[r] = "removeListing" => x = [status |-> "DELETED", live |-> FALSE]
          /\ WriteRow(r, l, x)
          /\ Goto(r, "commit") /\ UNCHANGED <<locals, history>>
    BY <1>5 DEF WriteListing, RemoveListing
  <2>2. j \in SetListingJob \cup DeleteListingJob /\ (pc[r] = "writeListing" => j \in SetListingJob)
    BY <2>1, <1>1 DEF RequestOK
  <2>3. l \in Listing /\ View(r, l) \in ListingRow
    BY <2>2, <1>1, SellerTypes, RowTypes, ViewType
  <2>4. x \in ListingRow
    <3>1. pc[r] = "writeListing" => j.target \in ListingStatus
      BY <2>2, SellerTypes
    <3>2. [status |-> "DELETED", live |-> FALSE] \in ListingRow
      BY DEF ListingRow, ListingStatus
    <3>3. pc[r] = "writeListing" => [View(r, l) EXCEPT !.status = j.target] \in ListingRow
      BY <2>3, <3>1 DEF ListingRow
    <3> QED
      BY <2>1, <3>2, <3>3
  <2>5. RowsOK' /\ DOMAIN seen' = Request
    BY <2>1, <2>3, <2>4, <1>1, RowTypes, WriteRowType DEF LocalsOK, locals
  <2>6. pc'[r] = "commit" => RequestOK(r)'
    BY <2>1, <2>2, SellerTypes DEF RequestOK, locals
  <2> QED
    BY <2>1, <2>5, <2>6, GotoStep, LabelNames DEF locals
<1>6. CASE SelectVariants(r) /\ ~Fail(r)
  <2> DEFINE S == ListingVariants(r)
  <2>1. /\ pc[r] = "select"
        /\ Loop(r, S, "cascade", "removeListing")
        /\ UNCHANGED <<db, pend, job, seen, put, history>>
    BY <1>6 DEF SelectVariants
  <2>2. RowsOK' /\ S \in SUBSET Variant /\ put' \in [Request -> SUBSET Item]
    BY <2>1, <1>1, RowsUnchanged DEF LocalsOK, ListingVariants
  <2>3. /\ todo'[r] = S /\ pc'[r] = "cascade" /\ at'[r] \in S => RequestOK(r)'
        /\ todo'[r] = S /\ pc'[r] = "removeListing" /\ S = {} => RequestOK(r)'
    BY <2>1, <1>1 DEF RequestOK
  <2> QED
    BY <2>1, <2>2, <2>3, LoopStep, LabelNames
<1>7. CASE CascadeLine(r) /\ ~Fail(r)
  <2> DEFINE v == at[r]
             S == todo[r] \ {v}
  <2>1. /\ pc[r] = "cascade"
        /\ WriteRow(r, v, [View(r, v) EXCEPT !.live = FALSE])
        /\ Loop(r, S, "cascade", "removeListing")
        /\ UNCHANGED <<job, seen, put, history>>
    BY <1>7 DEF CascadeLine
  <2>2. v \in Variant
    BY <2>1, <1>1 DEF RequestOK, LocalsOK
  <2>3. [View(r, v) EXCEPT !.live = FALSE] \in VariantRow
    <3>1. View(r, v) \in VariantRow
      BY <2>2, <1>1, RowTypes, ViewType
    <3> QED
      BY <3>1 DEF VariantRow
  <2>4. RowsOK' /\ S \in SUBSET Variant /\ put' \in [Request -> SUBSET Item]
    BY <2>1, <2>2, <2>3, <1>1, RowTypes, WriteRowType DEF LocalsOK
  <2>5. /\ todo'[r] = S /\ pc'[r] = "cascade" /\ at'[r] \in S => RequestOK(r)'
        /\ todo'[r] = S /\ pc'[r] = "removeListing" /\ S = {} => RequestOK(r)'
    BY <2>1, <1>1 DEF RequestOK
  <2> QED
    BY <2>1, <2>4, <2>5, LoopStep, LabelNames
<1> QED
  BY <1>2, <1>3, <1>4, <1>5, <1>6, <1>7

LEMMA JobFields ==
    ASSUME NEW j \in Job
    PROVE  /\ j.op = "setStock" => j \in SetStockJob
           /\ j.op \in {"cancel", "status"} => j.order \in Order
BY DEF Job, NoJob, CheckoutJob, CancelJob, StatusJob, SetStockJob, DeleteVariantJob,
       DeleteItemJob, SetListingJob, DeleteListingJob

LEMMA CommitStepType ==
    ASSUME TypeOK, NEW r \in Request, Commit(r)
    PROVE  TypeOK'
<1> DEFINE j == job[r]
           v == job[r].variant
<1>1. RowsOK /\ LocalsOK /\ HistoryOK
  BY DEF TypeOK
<1>2. RowsOK'
  BY <1>1, CommitType DEF Commit
<1>3. LocalsOK' /\ \A s \in Request : RequestOK(s)'
  BY EndFrame DEF Commit
<1>4. j \in Job
  BY <1>1 DEF LocalsOK
<1>5. returned' \in [Item -> Nat]
  BY <1>1 DEF Commit, HistoryOK
<1>6. supply' \in [Variant -> Int]
  <2>1. CASE j.op # "setStock"
    BY <2>1, <1>1 DEF Commit, HistoryOK
  <2>2. CASE j.op = "setStock"
    <3>1. v \in Variant
      BY <2>2, <1>4, JobFields, SellerTypes
    <3>2. View(r, v) \in VariantRow /\ db[v] \in VariantRow
      BY <3>1, <1>1, RowTypes, ViewType DEF RowsOK
    <3>3. View(r, v).stock \in Int /\ db[v].stock \in Int
      BY <3>2 DEF VariantRow
    <3>4. supply' = [supply EXCEPT ![v] = @ + View(r, v).stock - db[v].stock]
      BY <2>2 DEF Commit
    <3> QED
      BY <3>1, <3>3, <3>4, <1>1 DEF HistoryOK
  <2> QED
    BY <2>1, <2>2
<1>7. raced' \subseteq Order
  BY <1>1, <1>4, JobFields DEF Commit, HistoryOK
<1> QED
  BY <1>2, <1>3, <1>5, <1>6, <1>7 DEF TypeOK, HistoryOK

-----------------------------------------------------------------------------
(* Initial states and steps.                                               *)

LEMMA InitType == Init => TypeOK
<1> SUFFICES ASSUME Init PROVE TypeOK
  OBVIOUS
<1>1. \A k \in Key : InitialRow(k) \in RowType(k)
  <2> TAKE k \in Key
  <2>1. k \in Variant => [stock |-> InitialStock[k], live |-> TRUE] \in VariantRow
    BY CatalogAssumption DEF VariantRow
  <2>2. [status |-> "ACTIVE", live |-> TRUE] \in ListingRow
    BY DEF ListingRow, ListingStatus
  <2>3. [status |-> "ABSENT", fulfillment |-> "DELIVERY", units |-> [v \in Variant |-> 0]]
          \in OrderRow
    BY DEF OrderRow, OrderStatus, Fulfillment
  <2>4. [quantity |-> 0, live |-> FALSE] \in ItemRow
    BY DEF ItemRow
  <2> QED
    BY <2>1, <2>2, <2>3, <2>4 DEF InitialRow, RowType
<1>2. RowsOK
  BY <1>1, RowTypeIsVersion DEF Init, RowsOK, NoWrites, Row
<1>3. LocalsOK
  BY DEF Init, LocalsOK, Label, Job
<1>4. HistoryOK
  BY CatalogAssumption DEF Init, HistoryOK
<1>5. \A r \in Request : RequestOK(r)
  BY DEF Init, RequestOK
<1> QED
  BY <1>2, <1>3, <1>4, <1>5 DEF TypeOK

LEMMA NextType == TypeOK /\ [Next]_vars => TypeOK'
<1> SUFFICES ASSUME TypeOK, [Next]_vars PROVE TypeOK'
  OBVIOUS
<1>1. CASE UNCHANGED vars
  BY <1>1 DEF vars, locals, history, TypeOK, RowsOK, LocalsOK, HistoryOK, RequestOK
<1>2. ASSUME NEW r \in Request, BeginAny(r) PROVE TypeOK'
  BY <1>2, BeginType
<1>3. ASSUME NEW r \in Request, Statement(r) PROVE TypeOK'
  BY <1>3, CheckoutType, CancelType, VariantType, ListingType, CommitStepType DEF Statement
<1>4. ASSUME NEW r \in Request, RejectCheckout(r) \/ ConnectionLost(r) \/ DeadlockAbort(r)
      PROVE  TypeOK'
  BY <1>4, FailType DEF RejectCheckout, ConnectionLost, DeadlockAbort
<1> QED
  BY <1>1, <1>2, <1>3, <1>4 DEF Next

(* Every row is a row of its table, and every request is at a statement of *)
(* the handler of its own endpoint, its loop variables lines of its own    *)
(* cart: app/order, app/variant and app/business_book, for every number of *)
(* requests, orders and variants.                                          *)
THEOREM TypeCorrect == Spec => []TypeOK
BY InitType, NextType, PTL DEF Spec

-----------------------------------------------------------------------------
(* What one step does to the rows.                                         *)

RowStep(r) ==
    \/ UNCHANGED <<db, pend>>
    \/ DiscardWrites(r)
    \/ CommitWrites(r)
    \/ \E l \in Listing, x \in ListingRow : WriteRow(r, l, x)
    \/ \E o \in Order, x \in OrderRow : x.status # "ABSENT" /\ WriteRow(r, o, x)
    \/ \E i \in Item, x \in ItemRow : View(r, i).live /\ WriteRow(r, i, x)
    \/ \E v \in Variant, x \in VariantRow :
         (x.stock >= 0 \/ x.stock >= View(r, v).stock) /\ WriteRow(r, v, x)
    \/ \E v \in Variant, x \in VariantRow, y \in ItemRow :
         /\ pc[r] = "deduct" /\ x.stock >= 0
         /\ WriteRows2(r, v, x, <<job[r].order, v>>, y)

LEMMA CheckoutRows ==
    ASSUME TypeOK, NEW r \in Request, ResolveLine(r) \/ InsertOrder(r) \/ DeductLine(r)
    PROVE  RowStep(r)
<1> DEFINE j == job[r]
           cart == job[r].cart
           v == at[r]
<1>1. j \in CheckoutJob /\ (pc[r] = "deduct" => v \in DOMAIN cart)
  BY DEF TypeOK, RequestOK, ResolveLine, InsertOrder, DeductLine
<1>2. /\ j.order \in Order
      /\ DOMAIN cart \subseteq Variant
      /\ \A w \in DOMAIN cart : cart[w] \in Nat \ {0}
      /\ CartUnits(cart) \in [Variant -> Nat]
      /\ j.fulfillment \in Fulfillment
  BY <1>1, CheckoutTypes
<1>3. CASE Fail(r)
  BY <1>3 DEF Fail, RowStep
<1>4. CASE ResolveLine(r) /\ ~Fail(r)
  BY <1>4 DEF ResolveLine, RowStep
<1>5. CASE InsertOrder(r) /\ ~Fail(r)
  <2>1. WriteRow(r, j.order, PlacedOrder(r))
    BY <1>5 DEF InsertOrder
  <2>2. PlacedOrder(r) \in OrderRow /\ PlacedOrder(r).status # "ABSENT"
    BY <1>2 DEF PlacedOrder, OrderRow, OrderStatus
  <2> QED
    BY <2>1, <2>2, <1>2 DEF RowStep
<1>6. CASE DeductLine(r) /\ ~Fail(r)
  <2> DEFINE x == [View(r, v) EXCEPT !.stock = @ - cart[v]]
             y == [quantity |-> cart[v], live |-> TRUE]
  <2>1. /\ pc[r] = "deduct" /\ View(r, v).stock >= cart[v]
        /\ WriteRows2(r, v, x, <<j.order, v>>, y)
    BY <1>6 DEF DeductLine, Deductible
  <2>2. v \in Variant /\ cart[v] \in Nat
    BY <1>1, <1>2, <2>1
  <2>3. View(r, v) \in VariantRow
    BY <2>2, RowTypes, ViewType DEF TypeOK
  <2>4. x \in VariantRow /\ x.stock >= 0 /\ y \in ItemRow
    BY <2>1, <2>2, <2>3 DEF VariantRow, ItemRow
  <2> QED
    BY <2>1, <2>2, <2>4 DEF RowStep
<1> QED
  BY <1>3, <1>4, <1>5, <1>6

LEMMA CancelRows ==
    ASSUME TypeOK, NEW r \in Request,
           ReadOrder(r) \/ CheckSeller(r) \/ ListItems(r) \/ RestoreLine(r) \/ MarkStatus(r)
    PROVE  RowStep(r)
<1> DEFINE j == job[r]
           o == job[r].order
           v == at[r]
<1>1. /\ j \in CancelJob \cup StatusJob
      /\ pc[r] = "restore" => v \in Variant
  BY DEF TypeOK, LocalsOK, RequestOK, ReadOrder, CheckSeller, ListItems, RestoreLine, MarkStatus
<1>2. o \in Order /\ j.target \in OrderStatus
  BY <1>1, CancelTypes
<1>3. CASE Fail(r)
  BY <1>3 DEF Fail, RowStep
<1>4. CASE (ReadOrder(r) \/ CheckSeller(r) \/ ListItems(r)) /\ ~Fail(r)
  BY <1>4 DEF ReadOrder, CheckSeller, ListItems, RowStep
<1>5. CASE RestoreLine(r)
  <2> DEFINE item == <<o, v>>
             x == [View(r, v) EXCEPT !.stock = @ + View(r, item).quantity]
  <2>1. pc[r] = "restore" /\ (WriteRow(r, v, x) \/ UNCHANGED <<db, pend>>)
    BY <1>5 DEF RestoreLine
  <2>2. v \in Variant /\ item \in Item
    BY <2>1, <1>1, <1>2 DEF Item
  <2>3. View(r, v) \in VariantRow /\ View(r, item) \in ItemRow
    BY <2>2, RowTypes, ViewType DEF TypeOK
  <2>4. x \in VariantRow /\ x.stock >= View(r, v).stock
    BY <2>3 DEF VariantRow, ItemRow
  <2> QED
    BY <2>1, <2>2, <2>4 DEF RowStep
<1>6. CASE MarkStatus(r)
  <2> DEFINE x == [View(r, o) EXCEPT !.status = j.target]
  <2>1. WriteRow(r, o, x)
    BY <1>6 DEF MarkStatus
  <2>2. View(r, o) \in OrderRow
    BY <1>2, RowTypes, ViewType DEF TypeOK
  <2>3. x \in OrderRow /\ x.status # "ABSENT"
    BY <2>2, <1>2 DEF OrderRow, OrderStatus
  <2> QED
    BY <2>1, <2>3, <1>2 DEF RowStep
<1> QED
  BY <1>3, <1>4, <1>5, <1>6

LEMMA VariantRows ==
    ASSUME TypeOK, NEW r \in Request,
           \/ CheckVariant(r) \/ LoadVariant(r) \/ WriteStock(r) \/ RemoveVariant(r)
           \/ CheckItem(r) \/ RemoveItem(r)
    PROVE  RowStep(r)
<1> DEFINE j == job[r]
           v == job[r].variant
           i == job[r].item
<1>1. CASE Fail(r)
  BY <1>1 DEF Fail, RowStep
<1>2. CASE (CheckVariant(r) \/ LoadVariant(r) \/ CheckItem(r)) /\ ~Fail(r)
  BY <1>2 DEF CheckVariant, LoadVariant, CheckItem, RowStep
<1>3. CASE WriteStock(r) /\ ~Fail(r)
  <2> DEFINE x == [View(r, v) EXCEPT !.stock = j.stock]
  <2>1. j.stock >= 0 /\ WriteRow(r, v, x)
    BY <1>3 DEF WriteStock
  <2>2. j \in SetStockJob
    BY <1>3 DEF WriteStock, TypeOK, RequestOK
  <2>3. v \in Variant /\ j.stock \in Int /\ View(r, v) \in VariantRow
    BY <2>2, SellerTypes, RowTypes, ViewType DEF TypeOK
  <2>4. x \in VariantRow /\ x.stock >= 0
    BY <2>1, <2>3 DEF VariantRow
  <2> QED
    BY <2>1, <2>3, <2>4 DEF RowStep
<1>4. CASE RemoveVariant(r) /\ ~Fail(r)
  <2> DEFINE x == [View(r, v) EXCEPT !.live = FALSE]
  <2>1. WriteRow(r, v, x)
    BY <1>4 DEF RemoveVariant
  <2>2. j \in DeleteVariantJob
    BY <1>4 DEF RemoveVariant, TypeOK, RequestOK
  <2>3. v \in Variant /\ View(r, v) \in VariantRow
    BY <2>2, SellerTypes, RowTypes, ViewType DEF TypeOK
  <2>4. x \in VariantRow /\ x.stock >= View(r, v).stock
    <3>1. View(r, v).stock \in Int
      BY <2>3 DEF VariantRow
    <3>2. x \in VariantRow
      BY <2>3 DEF VariantRow
    <3>3. x.stock = View(r, v).stock
      BY <2>3 DEF VariantRow
    <3> QED
      BY <3>1, <3>2, <3>3
  <2> QED
    BY <2>1, <2>3, <2>4 DEF RowStep
<1>5. CASE RemoveItem(r) /\ ~Fail(r)
  <2>1. View(r, i).live /\ WriteRow(r, i, [View(r, i) EXCEPT !.live = FALSE])
    BY <1>5 DEF RemoveItem
  <2>2. j \in DeleteItemJob
    BY <1>5 DEF RemoveItem, TypeOK, RequestOK
  <2>3. i \in Item /\ View(r, i) \in ItemRow
    BY <2>2, SellerTypes, RowTypes, ViewType DEF TypeOK
  <2>4. [View(r, i) EXCEPT !.live = FALSE] \in ItemRow
    BY <2>3 DEF ItemRow
  <2> QED
    BY <2>1, <2>3, <2>4 DEF RowStep
<1> QED
  BY <1>1, <1>2, <1>3, <1>4, <1>5

LEMMA ListingRows ==
    ASSUME TypeOK, NEW r \in Request,
           \/ CheckListing(r) \/ ReloadListing(r) \/ WriteListing(r)
           \/ SelectVariants(r) \/ CascadeLine(r) \/ RemoveListing(r)
    PROVE  RowStep(r)
<1> DEFINE j == job[r]
           l == job[r].listing
           v == at[r]
<1>1. CASE Fail(r)
  BY <1>1 DEF Fail, RowStep
<1>2. CASE (CheckListing(r) \/ ReloadListing(r) \/ SelectVariants(r)) /\ ~Fail(r)
  BY <1>2 DEF CheckListing, ReloadListing, SelectVariants, RowStep
<1>3. CASE WriteListing(r)
  <2>1. WriteRow(r, l, [View(r, l) EXCEPT !.status = j.target])
    BY <1>3 DEF WriteListing
  <2>2. j \in SetListingJob
    BY <1>3 DEF WriteListing, TypeOK, RequestOK
  <2>3. l \in Listing /\ j.target \in ListingStatus /\ View(r, l) \in ListingRow
    BY <2>2, SellerTypes, RowTypes, ViewType DEF TypeOK
  <2>4. [View(r, l) EXCEPT !.status = j.target] \in ListingRow
    BY <2>3 DEF ListingRow
  <2> QED
    BY <2>1, <2>3, <2>4 DEF RowStep
<1>4. CASE CascadeLine(r)
  <2> DEFINE x == [View(r, v) EXCEPT !.live = FALSE]
  <2>1. WriteRow(r, v, x)
    BY <1>4 DEF CascadeLine
  <2>2. v \in Variant
    BY <1>4 DEF CascadeLine, TypeOK, LocalsOK, RequestOK
  <2>3. View(r, v) \in VariantRow
    BY <2>2, RowTypes, ViewType DEF TypeOK
  <2>4. x \in VariantRow /\ x.stock >= View(r, v).stock
    <3>1. View(r, v).stock \in Int
      BY <2>3 DEF VariantRow
    <3>2. x \in VariantRow
      BY <2>3 DEF VariantRow
    <3>3. x.stock = View(r, v).stock
      BY <2>3 DEF VariantRow
    <3> QED
      BY <3>1, <3>2, <3>3
  <2> QED
    BY <2>1, <2>2, <2>4 DEF RowStep
<1>5. CASE RemoveListing(r) /\ ~Fail(r)
  <2> DEFINE x == [status |-> "DELETED", live |-> FALSE]
  <2>1. WriteRow(r, l, x)
    BY <1>5 DEF RemoveListing
  <2>2. j \in DeleteListingJob
    BY <1>5 DEF RemoveListing, TypeOK, RequestOK
  <2>3. l \in Listing /\ x \in ListingRow
    BY <2>2, SellerTypes DEF ListingRow, ListingStatus
  <2> QED
    BY <2>1, <2>3 DEF RowStep
<1> QED
  BY <1>1, <1>2, <1>3, <1>4, <1>5

LEMMA NextRows ==
    ASSUME TypeOK, [Next]_vars
    PROVE  UNCHANGED <<db, pend>> \/ \E r \in Request : RowStep(r)
<1>1. CASE UNCHANGED vars
  BY <1>1 DEF vars
<1>2. ASSUME NEW r \in Request, BeginAny(r) PROVE UNCHANGED <<db, pend>>
  BY <1>2 DEF BeginAny, BeginCheckout, BeginCancel, BeginStatus, BeginSetStock,
       BeginDeleteVariant, BeginDeleteItem, BeginSetListing, BeginDeleteListing, Begin
<1>3. ASSUME NEW r \in Request, Statement(r) PROVE RowStep(r)
  BY <1>3, CheckoutRows, CancelRows, VariantRows, ListingRows DEF Statement, Commit, RowStep
<1>4. ASSUME NEW r \in Request, RejectCheckout(r) \/ ConnectionLost(r) \/ DeadlockAbort(r)
      PROVE  RowStep(r)
  BY <1>4 DEF RejectCheckout, ConnectionLost, DeadlockAbort, Fail, RowStep
<1> QED
  BY <1>1, <1>2, <1>3, <1>4 DEF Next

-----------------------------------------------------------------------------
(* Stock.                                                                  *)

LEMMA StockStep ==
    ASSUME TypeOK, StockNeverNegative, [Next]_vars
    PROVE  StockNeverNegative'
<1>1. CASE UNCHANGED <<db, pend>>
  BY <1>1 DEF StockNeverNegative, Holds
<1>2. ASSUME NEW r \in Request, RowStep(r) PROVE StockNeverNegative'
  <2>1. /\ Row = Key
        /\ db \in [Key -> Version]
        /\ pend \in [Request -> [Key -> Version \cup {None}]]
    BY DEF TypeOK, RowsOK, Row
  <2>2. ASSUME NEW v \in Variant
        PROVE  v \in Key /\ View(r, v) \in VariantRow /\ View(r, v).stock >= 0
    <3>1. v \in Key /\ View(r, v) \in VariantRow
      BY RowTypes, ViewType DEF TypeOK
    <3> QED
      BY <3>1 DEF StockNeverNegative, View, Holds
  <2>3. ASSUME NEW k \in Key, NEW x, WriteRow(r, k, x), k \in Variant => x.stock >= 0
        PROVE  StockNeverNegative'
    BY <2>1, <2>2, <2>3 DEF WriteRow, StockNeverNegative, Holds
  <2>4. CASE UNCHANGED <<db, pend>>
    BY <2>4 DEF StockNeverNegative, Holds
  <2>5. CASE DiscardWrites(r)
    BY <2>5, <2>1, <2>2 DEF DiscardWrites, NoWrites, StockNeverNegative, Holds
  <2>6. CASE CommitWrites(r)
    BY <2>6, <2>1, <2>2 DEF CommitWrites, NoWrites, StockNeverNegative, Holds
  <2>7. ASSUME NEW l \in Listing, NEW x, WriteRow(r, l, x) PROVE StockNeverNegative'
    BY <2>7, <2>3, RowTypes, KeysDisjoint
  <2>8. ASSUME NEW o \in Order, NEW x, WriteRow(r, o, x) PROVE StockNeverNegative'
    BY <2>8, <2>3, RowTypes, KeysDisjoint
  <2>9. ASSUME NEW i \in Item, NEW x, WriteRow(r, i, x) PROVE StockNeverNegative'
    BY <2>9, <2>3, RowTypes, KeysDisjoint
  <2>10. ASSUME NEW v \in Variant, NEW x \in VariantRow,
                x.stock >= 0 \/ x.stock >= View(r, v).stock, WriteRow(r, v, x)
         PROVE  StockNeverNegative'
    <3>1. x.stock \in Int /\ View(r, v).stock \in Int
      BY <2>2 DEF VariantRow
    <3>2. x.stock >= 0
      BY <3>1, <2>2, <2>10
    <3> QED
      BY <3>2, <2>10, <2>2, <2>3
  <2>11. ASSUME NEW v \in Variant, NEW x, NEW i \in Item, NEW y,
                x.stock >= 0, WriteRows2(r, v, x, i, y)
         PROVE  StockNeverNegative'
    <3>1. i \in Key /\ i \notin Variant
      BY RowTypes, KeysDisjoint
    <3> QED
      BY <2>1, <2>2, <2>11, <3>1 DEF WriteRows2, StockNeverNegative, Holds
  <2>12. \A v \in Variant : pc[r] = "deduct" => <<job[r].order, v>> \in Item
    BY CheckoutTypes DEF TypeOK, RequestOK, Item
  <2> QED
    BY <1>2, <2>4, <2>5, <2>6, <2>7, <2>8, <2>9, <2>10, <2>11, <2>12 DEF RowStep
<1> QED
  BY <1>1, <1>2, NextRows

(* No committed and no pending variant row ever has negative stock, however *)
(* many checkouts, cancellations, recounts and deletions interleave: the    *)
(* WHERE clause of deduct_stock suffices, and the CHECK constraint of the   *)
(* table is left to reject a seller's own negative recount.                 *)
THEOREM StockIsNeverNegative == Spec => []StockNeverNegative
<1>1. Init => StockNeverNegative
  BY CatalogAssumption, RowTypes
     DEF Init, InitialRow, StockNeverNegative, Holds, NoWrites, Row
<1>2. TypeOK /\ StockNeverNegative /\ [Next]_vars => StockNeverNegative'
  BY StockStep
<1> QED
  BY <1>1, <1>2, TypeCorrect, PTL DEF Spec

-----------------------------------------------------------------------------
(* Row locks.  The INSERT of an item takes no lock of its own, so that two  *)
(* transactions never write one item only because the items of an order     *)
(* that is not committed yet belong to the one checkout that holds it.      *)

(* A checkout that is taking stock holds the order it inserted.            *)
InserterHoldsOrder ==
    \A r \in Request : pc[r] = "deduct" =>
        Holds(r, job[r].order) /\ db[job[r].order].status = "ABSENT"

NoItemsWithoutOrder ==
    \A o \in Order, v \in Variant : db[o].status = "ABSENT" => ~db[<<o, v>>].live

(* An item is written by a deletion, when it is committed, or together     *)
(* with its order.                                                         *)
ItemWriters ==
    \A r \in Request, o \in Order, v \in Variant :
        Holds(r, <<o, v>>) => db[<<o, v>>].live \/ Holds(r, o)

NoOrderUnplaced ==
    \A r \in Request, o \in Order : Holds(r, o) => pend[r][o].status # "ABSENT"

LockInv ==
    /\ RowLocksExclusive
    /\ InserterHoldsOrder
    /\ NoItemsWithoutOrder
    /\ ItemWriters
    /\ NoOrderUnplaced

LEMMA OrderKeys ==
    ASSUME NEW o \in Order
    PROVE  /\ o \in Key /\ o \notin Variant /\ o \notin Listing /\ o \notin Item
           /\ \A v \in Variant : /\ <<o, v>> \in Key /\ <<o, v>> \in Item
                                 /\ <<o, v>> \notin Order /\ <<o, v>> \notin Variant
                                 /\ <<o, v>> \notin Listing
<1>1. \A v \in Variant : <<o, v>> \in Item
  BY DEF Item
<1> QED
  BY <1>1, KeysDisjoint DEF Key

(* Only the INSERT of the order and the lines before the last lead to the  *)
(* statement that takes stock.                                             *)
LEMMA DeductEntry ==
    ASSUME TypeOK, NEW r \in Request, Statement(r), pc'[r] = "deduct"
    PROVE  /\ job'[r] = job[r] /\ job[r].order \in Order
           /\ \/ /\ pc[r] = "place"
                 /\ db[job[r].order].status = "ABSENT"
                 /\ WriteRow(r, job[r].order, PlacedOrder(r)) /\ PlacedOrder(r) # None
              \/ /\ pc[r] = "deduct"
                 /\ \E v \in Variant, x \in VariantRow, y \in ItemRow :
                      WriteRows2(r, v, x, <<job[r].order, v>>, y)
<1>0. pc \in [Request -> Label] /\ DOMAIN pc = Request
  BY DEF TypeOK, LocalsOK
<1>1. ~End(r, "failed") /\ ~End(r, "done")
  BY <1>0 DEF End, Goto
<1>2. ~Fail(r)
  BY <1>1 DEF Fail
<1>3. ASSUME NEW label, Goto(r, label), label # "deduct" PROVE FALSE
  BY <1>3, <1>0 DEF Goto
<1>4. ASSUME NEW S, NEW label, NEW after, Loop(r, S, label, after),
             label # "deduct", after # "deduct"
      PROVE  FALSE
  BY <1>4, <1>0 DEF Loop, Goto
<1>5. ~(ReadOrder(r) \/ CheckSeller(r) \/ MarkStatus(r))
  BY <1>2, <1>3 DEF ReadOrder, CheckSeller, MarkStatus
<1>6. ~(CheckVariant(r) \/ LoadVariant(r) \/ WriteStock(r) \/ RemoveVariant(r)
        \/ CheckItem(r) \/ RemoveItem(r))
  BY <1>2, <1>3 DEF CheckVariant, LoadVariant, WriteStock, RemoveVariant, CheckItem, RemoveItem
<1>7. ~(CheckListing(r) \/ ReloadListing(r) \/ WriteListing(r) \/ RemoveListing(r))
  BY <1>2, <1>3 DEF CheckListing, ReloadListing, WriteListing, RemoveListing
<1>8. ~(ResolveLine(r) \/ ListItems(r) \/ RestoreLine(r) \/ SelectVariants(r) \/ CascadeLine(r))
  BY <1>2, <1>4 DEF ResolveLine, ListItems, RestoreLine, SelectVariants, CascadeLine
<1>9. ~Commit(r)
  BY <1>1 DEF Commit
<1>10. CASE InsertOrder(r)
  <2>1. job[r] \in CheckoutJob
    BY <1>10 DEF InsertOrder, TypeOK, RequestOK
  <2>2. job[r].order \in Order /\ PlacedOrder(r) \in OrderRow
    BY <2>1, CheckoutTypes DEF PlacedOrder, OrderRow, OrderStatus
  <2>3. PlacedOrder(r) # None
    BY <2>2, NoneIsNoRow DEF Version
  <2> QED
    BY <1>2, <1>10, <2>2, <2>3 DEF InsertOrder
<1>11. CASE DeductLine(r)
  <2>1. job[r] \in CheckoutJob /\ at[r] \in DOMAIN job[r].cart /\ pc[r] = "deduct"
    BY <1>11 DEF DeductLine, TypeOK, RequestOK
  <2>2. job[r].order \in Order /\ at[r] \in Variant /\ job[r].cart[at[r]] \in Nat
    BY <2>1, CheckoutTypes
  <2> DEFINE v == at[r]
             x == [View(r, v) EXCEPT !.stock = @ - job[r].cart[v]]
             y == [quantity |-> job[r].cart[v], live |-> TRUE]
  <2>3. View(r, v) \in VariantRow
    BY <2>2, RowTypes, ViewType DEF TypeOK
  <2>4. x \in VariantRow /\ y \in ItemRow
    BY <2>2, <2>3 DEF VariantRow, ItemRow
  <2>5. WriteRows2(r, v, x, <<job[r].order, v>>, y) /\ job' = job
    BY <1>2, <1>11 DEF DeductLine
  <2> QED
    BY <2>1, <2>2, <2>4, <2>5
<1> QED
  BY <1>5, <1>6, <1>7, <1>8, <1>9, <1>10, <1>11 DEF Statement

RowLockInv == RowLocksExclusive /\ NoItemsWithoutOrder /\ ItemWriters /\ NoOrderUnplaced

LEMMA RowsShape ==
    ASSUME TypeOK
    PROVE  /\ Row = Key
           /\ db \in [Key -> Version]
           /\ pend \in [Request -> [Key -> Version \cup {None}]]
BY DEF TypeOK, RowsOK, Row

LEMMA LockWriteRow ==
    ASSUME TypeOK, RowLockInv, NEW r \in Request, NEW k \in Key, NEW x, x # None,
           WriteRow(r, k, x),
           k \in Order => x.status # "ABSENT",
           k \in Item => View(r, k).live
    PROVE  RowLockInv'
<1>1. /\ db' = db
      /\ \A s \in Request, m \in Key :
           pend'[s][m] = IF s = r /\ m = k THEN x ELSE pend[s][m]
      /\ pend' \in [Request -> [Key -> Version \cup {None, x}]]
      /\ Row = Key /\ Row' = Key
  BY RowsShape DEF WriteRow, Row
<1>2. \A s \in Request \ {r} : ~Holds(s, k)
  BY DEF WriteRow, HeldByOther
<1>3. RowLocksExclusive'
  BY <1>1, <1>2 DEF RowLockInv, RowLocksExclusive, Holds
<1>4. NoItemsWithoutOrder'
  BY <1>1 DEF RowLockInv, NoItemsWithoutOrder
<1>5. NoOrderUnplaced'
  BY <1>1, OrderKeys DEF RowLockInv, NoOrderUnplaced, Holds
<1>6. ItemWriters'
  <2> SUFFICES ASSUME NEW s \in Request, NEW o \in Order, NEW v \in Variant,
                      Holds(s, <<o, v>>)'
               PROVE  db[<<o, v>>].live \/ Holds(s, o)'
    BY <1>1 DEF ItemWriters
  <2>1. /\ o \in Key /\ <<o, v>> \in Key /\ <<o, v>> \in Item /\ o # <<o, v>>
    BY OrderKeys
  <2>2. Holds(s, o) => Holds(s, o)'
    BY <1>1, <2>1 DEF Holds
  <2>3. CASE Holds(s, <<o, v>>)
    BY <2>2, <2>3 DEF RowLockInv, ItemWriters
  <2>4. CASE ~Holds(s, <<o, v>>)
    <3>1. s = r /\ k = <<o, v>>
      BY <1>1, <2>1, <2>4 DEF Holds
    <3>2. View(r, k) = db[k]
      BY <2>4, <3>1 DEF View, Holds
    <3> QED
      BY <2>1, <3>1, <3>2
  <2> QED
    BY <2>3, <2>4
<1> QED
  BY <1>3, <1>4, <1>5, <1>6 DEF RowLockInv

LEMMA LockWriteLine ==
    ASSUME TypeOK, LockInv, NEW r \in Request, pc[r] = "deduct",
           NEW v \in Variant, NEW x \in VariantRow, NEW y \in ItemRow,
           WriteRows2(r, v, x, <<job[r].order, v>>, y)
    PROVE  RowLockInv'
<1> DEFINE o == job[r].order
           i == <<o, v>>
<1>1. o \in Order
  BY CheckoutTypes DEF TypeOK, RequestOK
<1>2. v \in Key /\ i \in Key /\ i # v /\ o # v /\ i # o /\ o \in Key
  BY <1>1, OrderKeys, RowTypes
<1>3. x # None /\ y # None
  BY NoneIsNoRow DEF Version
<1>4. /\ db' = db
      /\ \A s \in Request, m \in Key :
           pend'[s][m] = IF s = r /\ m = v THEN x ELSE IF s = r /\ m = i THEN y ELSE pend[s][m]
      /\ Row = Key /\ Row' = Key
  BY <1>2, RowsShape DEF WriteRows2, Row
<1>5. Holds(r, o) /\ db[o].status = "ABSENT"
  BY DEF LockInv, InserterHoldsOrder
<1>6. \A s \in Request \ {r} : ~Holds(s, v)
  BY DEF WriteRows2, HeldByOther
<1>7. \A s \in Request \ {r} : ~Holds(s, i)
  <2> SUFFICES ASSUME NEW s \in Request \ {r}, Holds(s, i) PROVE FALSE
    OBVIOUS
  <2>1. ~db[i].live
    BY <1>1, <1>5 DEF LockInv, NoItemsWithoutOrder
  <2>2. Holds(s, o)
    BY <1>1, <2>1 DEF LockInv, ItemWriters
  <2> QED
    BY <1>2, <1>4, <1>5, <2>2 DEF LockInv, RowLocksExclusive
<1>8. RowLocksExclusive'
  BY <1>4, <1>6, <1>7 DEF LockInv, RowLocksExclusive, Holds
<1>9. NoItemsWithoutOrder'
  BY <1>4 DEF LockInv, NoItemsWithoutOrder
<1>10. NoOrderUnplaced'
  <2> SUFFICES ASSUME NEW s \in Request, NEW p \in Order, Holds(s, p)'
               PROVE  pend'[s][p].status # "ABSENT"
    BY DEF NoOrderUnplaced
  <2>1. p \in Key /\ p # v /\ p # i
    BY <1>1, OrderKeys
  <2> QED
    BY <1>4, <2>1 DEF LockInv, NoOrderUnplaced, Holds
<1>11. ItemWriters'
  <2> SUFFICES ASSUME NEW s \in Request, NEW p \in Order, NEW w \in Variant,
                      Holds(s, <<p, w>>)'
               PROVE  db[<<p, w>>].live \/ Holds(s, p)'
    BY <1>4 DEF ItemWriters
  <2>1. p \in Key /\ <<p, w>> \in Key /\ p # v /\ p # i /\ <<p, w>> # v
    BY <1>1, OrderKeys
  <2>2. Holds(s, p) => Holds(s, p)'
    BY <1>4, <2>1 DEF Holds
  <2>3. CASE s = r /\ <<p, w>> = i
    BY <1>5, <2>2, <2>3
  <2>4. CASE ~(s = r /\ <<p, w>> = i)
    <3>1. Holds(s, <<p, w>>)
      BY <1>4, <2>1, <2>4 DEF Holds
    <3> QED
      BY <2>2, <3>1 DEF LockInv, ItemWriters
  <2> QED
    BY <2>3, <2>4
<1> QED
  BY <1>8, <1>9, <1>10, <1>11 DEF RowLockInv

LEMMA LockEnd ==
    ASSUME TypeOK, RowLockInv, NEW r \in Request, CommitWrites(r) \/ DiscardWrites(r)
    PROVE  RowLockInv'
<1>1. /\ Row = Key /\ Row' = Key
      /\ \A s \in Request, m \in Key :
           pend'[s][m] = IF s = r THEN None ELSE pend[s][m]
  BY RowsShape DEF CommitWrites, DiscardWrites, NoWrites, Row
<1>2. RowLocksExclusive'
  BY <1>1 DEF RowLockInv, RowLocksExclusive, Holds
<1>3. NoOrderUnplaced'
  BY <1>1, OrderKeys DEF RowLockInv, NoOrderUnplaced, Holds
<1>4. CASE DiscardWrites(r)
  <2>1. db' = db
    BY <1>4 DEF DiscardWrites
  <2>2. NoItemsWithoutOrder'
    BY <2>1 DEF RowLockInv, NoItemsWithoutOrder
  <2>3. ItemWriters'
    BY <1>1, <2>1, OrderKeys DEF RowLockInv, ItemWriters, Holds
  <2> QED
    BY <1>2, <1>3, <2>2, <2>3 DEF RowLockInv
<1>5. CASE CommitWrites(r)
  <2>1. \A m \in Key : db'[m] = IF pend[r][m] # None THEN pend[r][m] ELSE db[m]
    BY <1>1, <1>5 DEF CommitWrites, View
  <2>2. NoItemsWithoutOrder'
    <3> SUFFICES ASSUME NEW o \in Order, NEW v \in Variant, db'[o].status = "ABSENT"
                 PROVE  ~db'[<<o, v>>].live
      BY DEF NoItemsWithoutOrder
    <3>1. o \in Key /\ <<o, v>> \in Key
      BY OrderKeys
    <3>2. ~Holds(r, o) /\ db[o].status = "ABSENT"
      BY <2>1, <3>1 DEF RowLockInv, NoOrderUnplaced, Holds
    <3>3. ~db[<<o, v>>].live
      BY <3>2 DEF RowLockInv, NoItemsWithoutOrder
    <3>4. ~Holds(r, <<o, v>>)
      BY <3>2, <3>3 DEF RowLockInv, ItemWriters
    <3> QED
      BY <2>1, <3>1, <3>3, <3>4 DEF Holds
  <2>3. ItemWriters'
    <3> SUFFICES ASSUME NEW s \in Request, NEW o \in Order, NEW v \in Variant,
                        Holds(s, <<o, v>>)'
                 PROVE  db'[<<o, v>>].live \/ Holds(s, o)'
      BY DEF ItemWriters
    <3>1. o \in Key /\ <<o, v>> \in Key
      BY OrderKeys
    <3>2. s # r /\ Holds(s, <<o, v>>) /\ (Holds(s, o) => Holds(s, o)')
      BY <1>1, <3>1 DEF Holds
    <3>3. ~Holds(r, <<o, v>>)
      BY <1>1, <3>1, <3>2 DEF RowLockInv, RowLocksExclusive
    <3>4. db'[<<o, v>>] = db[<<o, v>>]
      BY <2>1, <3>1, <3>3 DEF Holds
    <3> QED
      BY <3>2, <3>4 DEF RowLockInv, ItemWriters
  <2> QED
    BY <1>2, <1>3, <2>2, <2>3 DEF RowLockInv
<1> QED
  BY <1>4, <1>5

LEMMA LockRowStep ==
    ASSUME TypeOK, LockInv, NEW r \in Request, RowStep(r)
    PROVE  RowLockInv'
<1>1. RowLockInv
  BY DEF LockInv, RowLockInv
<1>2. CASE UNCHANGED <<db, pend>>
  BY <1>1, <1>2 DEF RowLockInv, RowLocksExclusive, NoItemsWithoutOrder, ItemWriters,
                    NoOrderUnplaced, Holds, Row
<1>3. CASE CommitWrites(r) \/ DiscardWrites(r)
  BY <1>1, <1>3, LockEnd
<1>4. ASSUME NEW l \in Listing, NEW x \in ListingRow, WriteRow(r, l, x) PROVE RowLockInv'
  <2>1. l \in Key /\ l \notin Order /\ l \notin Item /\ x # None
    BY RowTypes, KeysDisjoint, NoneIsNoRow DEF Version
  <2> QED
    BY <1>1, <1>4, <2>1, LockWriteRow
<1>5. ASSUME NEW o \in Order, NEW x \in OrderRow, x.status # "ABSENT", WriteRow(r, o, x)
      PROVE  RowLockInv'
  <2>1. o \in Key /\ o \notin Item /\ x # None
    BY OrderKeys, NoneIsNoRow DEF Version
  <2> QED
    BY <1>1, <1>5, <2>1, LockWriteRow
<1>6. ASSUME NEW i \in Item, NEW x \in ItemRow, View(r, i).live, WriteRow(r, i, x)
      PROVE  RowLockInv'
  <2>1. i \in Key /\ i \notin Order /\ x # None
    BY RowTypes, KeysDisjoint, NoneIsNoRow DEF Version
  <2> QED
    BY <1>1, <1>6, <2>1, LockWriteRow
<1>7. ASSUME NEW v \in Variant, NEW x \in VariantRow, WriteRow(r, v, x) PROVE RowLockInv'
  <2>1. v \in Key /\ v \notin Order /\ v \notin Item /\ x # None
    BY RowTypes, KeysDisjoint, NoneIsNoRow DEF Version
  <2> QED
    BY <1>1, <1>7, <2>1, LockWriteRow
<1>8. ASSUME NEW v \in Variant, NEW x \in VariantRow, NEW y \in ItemRow, pc[r] = "deduct",
             WriteRows2(r, v, x, <<job[r].order, v>>, y)
      PROVE  RowLockInv'
  BY <1>8, LockWriteLine
<1> QED
  BY <1>2, <1>3, <1>4, <1>5, <1>6, <1>7, <1>8 DEF RowStep

LEMMA OthersUntouched ==
    ASSUME TypeOK, NEW r \in Request,
           \/ BeginAny(r) \/ Statement(r)
           \/ RejectCheckout(r) \/ ConnectionLost(r) \/ DeadlockAbort(r)
    PROVE  \A s \in Request \ {r} : pc'[s] = pc[s] /\ job'[s] = job[s]
<1> DEFINE Only == \A s \in Request \ {r} : pc'[s] = pc[s] /\ job'[s] = job[s]
<1>0. pc \in [Request -> Label] /\ job \in [Request -> Job]
  BY DEF TypeOK, LocalsOK
<1>1. ASSUME NEW outcome, End(r, outcome) PROVE Only
  BY <1>0, <1>1 DEF End, Goto
<1>2. ASSUME NEW label, Goto(r, label), job' = job PROVE Only
  BY <1>0, <1>2 DEF Goto
<1>3. ASSUME NEW S, NEW label, NEW after, Loop(r, S, label, after), job' = job PROVE Only
  BY <1>0, <1>3 DEF Loop, Goto
<1>4. Fail(r) => Only
  BY <1>1 DEF Fail
<1>5. CASE BeginAny(r)
  <2>1. CASE BeginCheckout(r)
    BY <1>0, <2>1 DEF BeginCheckout, Loop, Goto
  <2>2. ASSUME NEW Jobs, NEW label, Begin(r, Jobs, label) PROVE Only
    BY <1>0, <2>2 DEF Begin, Goto
  <2> QED
    BY <1>5, <2>1, <2>2 DEF BeginAny, BeginCancel, BeginStatus, BeginSetStock,
       BeginDeleteVariant, BeginDeleteItem, BeginSetListing, BeginDeleteListing
<1>6. CASE \/ ResolveLine(r) \/ InsertOrder(r) \/ DeductLine(r)
           \/ ListItems(r) \/ RestoreLine(r) \/ SelectVariants(r) \/ CascadeLine(r)
  BY <1>3, <1>4, <1>6
     DEF ResolveLine, InsertOrder, DeductLine, ListItems, RestoreLine, SelectVariants, CascadeLine
<1>7. CASE ReadOrder(r) \/ CheckSeller(r) \/ MarkStatus(r)
  BY <1>2, <1>4, <1>7 DEF ReadOrder, CheckSeller, MarkStatus, locals
<1>8. CASE \/ CheckVariant(r) \/ LoadVariant(r) \/ WriteStock(r) \/ RemoveVariant(r)
           \/ CheckItem(r) \/ RemoveItem(r)
  BY <1>2, <1>4, <1>8
     DEF CheckVariant, LoadVariant, WriteStock, RemoveVariant, CheckItem, RemoveItem, locals
<1>9. CASE CheckListing(r) \/ ReloadListing(r) \/ WriteListing(r) \/ RemoveListing(r)
  BY <1>2, <1>4, <1>9 DEF CheckListing, ReloadListing, WriteListing, RemoveListing, locals
<1>10. CASE Commit(r)
  BY <1>1, <1>10 DEF Commit
<1>11. CASE RejectCheckout(r) \/ ConnectionLost(r) \/ DeadlockAbort(r)
  BY <1>4, <1>11 DEF RejectCheckout, ConnectionLost, DeadlockAbort
<1> QED
  BY <1>5, <1>6, <1>7, <1>8, <1>9, <1>10, <1>11 DEF Statement

(* The rows another request's transaction has written stay as they are, and *)
(* so does the committed version of a row that it holds.                    *)
LEMMA HeldRowsStay ==
    ASSUME TypeOK, RowLocksExclusive, NEW r \in Request, RowStep(r),
           NEW s \in Request \ {r}, NEW k \in Key, Holds(s, k)
    PROVE  db'[k] = db[k] /\ pend'[s][k] # None
<1>1. Row = Key /\ pend \in [Request -> [Key -> Version \cup {None}]]
  BY RowsShape
<1>2. ~Holds(r, k)
  BY <1>1 DEF RowLocksExclusive
<1>3. (CommitWrites(r) \/ DiscardWrites(r) \/ UNCHANGED <<db, pend>>)
        => db'[k] = db[k] /\ pend'[s] = pend[s]
  BY <1>1, <1>2 DEF CommitWrites, DiscardWrites, View, Holds
<1>4. ASSUME NEW m, NEW x, WriteRow(r, m, x) PROVE db'[k] = db[k] /\ pend'[s] = pend[s]
  BY <1>1, <1>4 DEF WriteRow
<1>5. ASSUME NEW m, NEW x, NEW n, NEW y, WriteRows2(r, m, x, n, y)
      PROVE  db'[k] = db[k] /\ pend'[s] = pend[s]
  BY <1>1, <1>5 DEF WriteRows2
<1> QED
  BY <1>3, <1>4, <1>5 DEF RowStep, Holds

LEMMA InserterStep ==
    ASSUME TypeOK, LockInv, NEW r \in Request,
           \/ BeginAny(r) \/ Statement(r)
           \/ RejectCheckout(r) \/ ConnectionLost(r) \/ DeadlockAbort(r),
           UNCHANGED <<db, pend>> \/ RowStep(r)
    PROVE  InserterHoldsOrder'
<1> SUFFICES ASSUME NEW s \in Request, pc'[s] = "deduct"
             PROVE  /\ pend'[s][job'[s].order] # None
                    /\ db'[job'[s].order].status = "ABSENT"
  BY DEF InserterHoldsOrder, Holds
<1>1. pend \in [Request -> [Key -> Version \cup {None}]]
  BY RowsShape
<1>2. CASE s # r
  <2>1. pc[s] = "deduct" /\ job'[s] = job[s]
    BY <1>2, OthersUntouched
  <2>2. job[s].order \in Key
    BY <2>1, CheckoutTypes, OrderKeys DEF TypeOK, RequestOK
  <2>3. Holds(s, job[s].order) /\ db[job[s].order].status = "ABSENT"
    BY <2>1 DEF LockInv, InserterHoldsOrder
  <2>4. CASE UNCHANGED <<db, pend>>
    BY <2>1, <2>3, <2>4 DEF Holds
  <2>5. CASE RowStep(r)
    <3>1. db'[job[s].order] = db[job[s].order] /\ pend'[s][job[s].order] # None
      BY <1>2, <2>2, <2>3, <2>5, HeldRowsStay DEF LockInv
    <3> QED
      BY <2>1, <2>3, <3>1
  <2> QED
    BY <2>4, <2>5
<1>3. CASE s = r
  <2>1. pc \in [Request -> Label]
    BY DEF TypeOK, LocalsOK
  <2>2. ~BeginAny(r)
    BY <1>3, <2>1 DEF BeginAny, BeginCheckout, BeginCancel, BeginStatus, BeginSetStock,
       BeginDeleteVariant, BeginDeleteItem, BeginSetListing, BeginDeleteListing, Begin, Loop, Goto
  <2>3. ~(RejectCheckout(r) \/ ConnectionLost(r) \/ DeadlockAbort(r))
    BY <1>3, <2>1 DEF RejectCheckout, ConnectionLost, DeadlockAbort, Fail, End, Goto
  <2>4. /\ job'[r] = job[r] /\ job[r].order \in Order
        /\ \/ /\ pc[r] = "place"
              /\ db[job[r].order].status = "ABSENT"
              /\ WriteRow(r, job[r].order, PlacedOrder(r)) /\ PlacedOrder(r) # None
           \/ /\ pc[r] = "deduct"
              /\ \E v \in Variant, x \in VariantRow, y \in ItemRow :
                   WriteRows2(r, v, x, <<job[r].order, v>>, y)
    BY <1>3, <2>2, <2>3, DeductEntry
  <2> DEFINE o == job[r].order
  <2>5. o \in Key
    BY <2>4, OrderKeys
  <2>6. ASSUME NEW x, x # None, WriteRow(r, o, x), db[o].status = "ABSENT"
        PROVE  pend'[r][o] # None /\ db'[o].status = "ABSENT"
    BY <1>1, <2>5, <2>6 DEF WriteRow, Holds
  <2>7. ASSUME NEW v \in Variant, NEW x \in VariantRow, NEW y \in ItemRow, pc[r] = "deduct",
               WriteRows2(r, v, x, <<o, v>>, y)
        PROVE  pend'[r][o] # None /\ db'[o].status = "ABSENT"
    <3>1. o # v /\ o # <<o, v>>
      BY <2>4, OrderKeys
    <3>2. Holds(r, o) /\ db[o].status = "ABSENT"
      BY <2>7 DEF LockInv, InserterHoldsOrder
    <3> QED
      BY <1>1, <2>5, <2>7, <3>1, <3>2 DEF WriteRows2, Holds
  <2>8. pend'[r][o] # None /\ db'[o].status = "ABSENT"
    BY <2>4, <2>6, <2>7
  <2> QED
    BY <1>3, <2>4, <2>8
<1> QED
  BY <1>2, <1>3

LEMMA LockStep == TypeOK /\ LockInv /\ [Next]_vars => LockInv'
<1> SUFFICES ASSUME TypeOK, LockInv, [Next]_vars PROVE LockInv'
  OBVIOUS
<1>1. CASE UNCHANGED vars
  <2>1. UNCHANGED <<db, pend, pc, job>>
    BY <1>1 DEF vars, locals
  <2>2. InserterHoldsOrder'
    BY <2>1 DEF LockInv, InserterHoldsOrder, Holds
  <2>3. RowLocksExclusive' /\ NoItemsWithoutOrder' /\ ItemWriters' /\ NoOrderUnplaced'
    BY <2>1 DEF LockInv, RowLocksExclusive, NoItemsWithoutOrder, ItemWriters,
                NoOrderUnplaced, Holds, Row
  <2> QED
    BY <2>2, <2>3 DEF LockInv
<1>2. ASSUME NEW r \in Request,
             \/ BeginAny(r) \/ Statement(r)
             \/ RejectCheckout(r) \/ ConnectionLost(r) \/ DeadlockAbort(r)
      PROVE  LockInv'
  <2>1. UNCHANGED <<db, pend>> \/ RowStep(r)
    <3>1. BeginAny(r) => UNCHANGED <<db, pend>>
      BY DEF BeginAny, BeginCheckout, BeginCancel, BeginStatus, BeginSetStock,
         BeginDeleteVariant, BeginDeleteItem, BeginSetListing, BeginDeleteListing, Begin
    <3>2. Statement(r) => RowStep(r)
      BY CheckoutRows, CancelRows, VariantRows, ListingRows DEF Statement, Commit, RowStep
    <3>3. RejectCheckout(r) \/ ConnectionLost(r) \/ DeadlockAbort(r) => RowStep(r)
      BY DEF RejectCheckout, ConnectionLost, DeadlockAbort, Fail, RowStep
    <3> QED
      BY <1>2, <3>1, <3>2, <3>3
  <2>2. InserterHoldsOrder'
    BY <1>2, <2>1, InserterStep
  <2>3. RowLockInv'
    BY <2>1, LockRowStep DEF RowStep
  <2> QED
    BY <2>2, <2>3 DEF LockInv, RowLockInv
<1> QED
  BY <1>1, <1>2 DEF Next

(* No row is ever being written by two transactions, although the INSERT   *)
(* of an order item neither waits nor checks: a checkout's items can only   *)
(* be touched by somebody else once its order has been committed.           *)
THEOREM LocksAreExclusive == Spec => []RowLocksExclusive
<1>1. Init => LockInv
  <2> SUFFICES ASSUME Init PROVE LockInv
    OBVIOUS
  <2>1. \A s \in Request, k \in Key : ~Holds(s, k)
    BY DEF Init, NoWrites, Row, Holds
  <2>2. RowLocksExclusive
    BY <2>1 DEF Init, RowLocksExclusive, Row
  <2>3. ItemWriters /\ NoOrderUnplaced
    BY <2>1, OrderKeys DEF ItemWriters, NoOrderUnplaced
  <2>4. InserterHoldsOrder
    BY DEF Init, InserterHoldsOrder
  <2>5. NoItemsWithoutOrder
    BY OrderKeys DEF Init, InitialRow, NoItemsWithoutOrder
  <2> QED
    BY <2>2, <2>3, <2>4, <2>5 DEF LockInv
<1>2. TypeOK /\ LockInv /\ [Next]_vars => LockInv'
  BY LockStep
<1>3. LockInv => RowLocksExclusive
  BY DEF LockInv
<1> QED
  BY <1>1, <1>2, <1>3, TypeCorrect, PTL DEF Spec

-----------------------------------------------------------------------------
(* The inductive invariant.                                                *)

Untouched(r) == \A k \in Key : pend[r][k] = None

IdleWritesNothing(r) ==
    pc[r] \notin {"deduct", "restore", "mark", "cascade", "removeListing", "commit"}
      => Untouched(r)

OnlyReturnsPutBack(r) ==
    pc[r] \notin {"restore", "mark", "commit"} \/ job[r].op \notin {"cancel", "status"}
      => put[r] = {}

(* The lines whose stock a checkout has taken.                             *)
Taken(r) == IF pc[r] = "deduct" THEN DOMAIN job[r].cart \ todo[r] ELSE DOMAIN job[r].cart

(* A checkout has written its order, and for each line taken the variant,  *)
(* which was live and had enough stock, and the item.                      *)
CheckoutWrites(r) ==
    pc[r] \in {"deduct", "commit"} /\ job[r].op = "checkout" =>
      LET o == job[r].order
          cart == job[r].cart
      IN  /\ db[o].status = "ABSENT"
          /\ pend[r][o] = PlacedOrder(r)
          /\ \A v \in Taken(r) :
               /\ db[v].live /\ db[v].stock >= cart[v]
               /\ pend[r][v] = [db[v] EXCEPT !.stock = @ - cart[v]]
               /\ pend[r][<<o, v>>] = [quantity |-> cart[v], live |-> TRUE]
          /\ \A k \in Key : pend[r][k] # None =>
               k = o \/ k \in Taken(r) \/ \E v \in Taken(r) : k = <<o, v>>

(* A cancellation or status change works on a status that the state        *)
(* machine lets it leave.                                                  *)
Decided(r) ==
    pc[r] \in {"belongs", "list", "restore", "mark", "commit"}
        /\ job[r].op \in {"cancel", "status"} =>
      LET order == db[job[r].order] IN
          /\ order.status # "ABSENT"
          /\ seen[r] \in OrderStatus
          /\ pc[r] \in {"list", "restore"} => job[r].target = "CANCELLED"
          /\ pc[r] # "belongs" => SellerMayMove(seen[r], job[r].target, order.fulfillment)

(* It has put back lines that exist, each whole, to live variants; when it *)
(* cancels, all of them but those its loop has still to visit.             *)
ReturnWrites(r) ==
    pc[r] \in {"restore", "mark", "commit"} /\ job[r].op \in {"cancel", "status"} =>
      LET o == job[r].order IN
          /\ \A v \in Variant : <<o, v>> \in put[r] =>
               /\ db[v].live /\ db[<<o, v>>].quantity > 0
               /\ pend[r][v] = [db[v] EXCEPT !.stock = @ + db[<<o, v>>].quantity]
          /\ \A i \in put[r] : i[1] = o
          /\ \A k \in Key : pend[r][k] # None =>
               \/ k \in Variant /\ <<o, k>> \in put[r]
               \/ k = o /\ pc[r] = "commit"
          /\ pc[r] = "commit" => pend[r][o] = [db[o] EXCEPT !.status = job[r].target]
          /\ pc[r] = "restore" =>
               \A v \in todo[r] : <<o, v>> \notin put[r] /\ db[<<o, v>>].quantity > 0
          /\ job[r].target # "CANCELLED" => put[r] = {}
          /\ job[r].target = "CANCELLED" =>
               \A v \in Variant : db[<<o, v>>].live /\ db[v].live =>
                 <<o, v>> \in put[r] \/ (pc[r] = "restore" /\ v \in todo[r])

(* The deletion of a listing has deleted variants of it, and all that are  *)
(* live but those its loop has still to visit.                             *)
RetireWrites(r) ==
    pc[r] \in {"cascade", "removeListing", "commit"} /\ job[r].op = "deleteListing" =>
      LET l == job[r].listing IN
          /\ \A k \in Key : pend[r][k] # None =>
               \/ /\ k \in Variant /\ ListingOf[k] = l
                  /\ pend[r][k] = [db[k] EXCEPT !.live = FALSE]
               \/ k = l /\ pc[r] = "commit"
          /\ pc[r] = "commit" => pend[r][l] = [status |-> "DELETED", live |-> FALSE]
          /\ pc[r] = "cascade" => \A v \in todo[r] : ListingOf[v] = l
          /\ \A v \in Variant : ListingOf[v] = l /\ db[v].live =>
               pend[r][v] # None \/ (pc[r] = "cascade" /\ v \in todo[r])

(* The other requests write at most one row.                               *)
SingleWrites(r) ==
    pc[r] = "commit" =>
      /\ job[r].op = "setStock" =>
           /\ pend[r][job[r].variant] # None => job[r].stock >= 0
           /\ \A k \in Key : pend[r][k] # None =>
                k = job[r].variant /\ pend[r][k] = [db[k] EXCEPT !.stock = job[r].stock]
      /\ job[r].op = "deleteVariant" => \A k \in Key : pend[r][k] # None =>
           k = job[r].variant /\ pend[r][k] = [db[k] EXCEPT !.live = FALSE]
      /\ job[r].op = "deleteItem" => \A k \in Key : pend[r][k] # None =>
           k = job[r].item /\ pend[r][k] = [db[k] EXCEPT !.live = FALSE]
      /\ job[r].op = "setListing" => \A k \in Key : pend[r][k] # None =>
           k = job[r].listing /\ pend[r][k] = [db[k] EXCEPT !.status = job[r].target]

TransactionOK(r) ==
    /\ IdleWritesNothing(r)
    /\ OnlyReturnsPutBack(r)
    /\ CheckoutWrites(r)
    /\ Decided(r)
    /\ ReturnWrites(r)
    /\ RetireWrites(r)
    /\ SingleWrites(r)

(* An order that does not exist has no lines.                              *)
AbsentOrdersAreEmpty ==
    \A o \in Order : \A v \in Variant : db[o].status = "ABSENT" =>
        db[o].units[v] = 0 /\ db[<<o, v>>] = [quantity |-> 0, live |-> FALSE]

(* A line that is live was sold.                                           *)
LiveLinesAreSold == \A i \in Item : db[i].live => db[i].quantity > 0

(* A variant outlives no listing.                                          *)
LiveVariantsAreListed == \A v \in Variant : db[v].live => db[ListingOf[v]].live

CommitInv ==
    /\ \A r \in Request : TransactionOK(r)
    /\ AbsentOrdersAreEmpty
    /\ OrdersAreWhole
    /\ LiveLinesAreSold
    /\ LiveVariantsAreListed

-----------------------------------------------------------------------------
(* The endpoint of a job is that of its set, and conversely.               *)

LEMMA JobOps ==
    ASSUME NEW j
    PROVE  /\ j \in CheckoutJob => j.op = "checkout"
           /\ j \in CancelJob => j.op = "cancel" /\ j.target = "CANCELLED"
           /\ j \in StatusJob => j.op = "status"
           /\ j \in SetStockJob => j.op = "setStock"
           /\ j \in DeleteVariantJob => j.op = "deleteVariant"
           /\ j \in DeleteItemJob => j.op = "deleteItem"
           /\ j \in SetListingJob => j.op = "setListing"
           /\ j \in DeleteListingJob => j.op = "deleteListing"
           /\ j = NoJob => j.op = "none"
           /\ j \in Job =>
                /\ j.op = "checkout" => j \in CheckoutJob
                /\ j.op = "cancel" => j \in CancelJob
                /\ j.op = "status" => j \in StatusJob
                /\ j.op = "setStock" => j \in SetStockJob
                /\ j.op = "deleteVariant" => j \in DeleteVariantJob
                /\ j.op = "deleteItem" => j \in DeleteItemJob
                /\ j.op = "setListing" => j \in SetListingJob
                /\ j.op = "deleteListing" => j \in DeleteListingJob
BY DEF Job, NoJob, CheckoutJob, CancelJob, StatusJob, SetStockJob, DeleteVariantJob,
       DeleteItemJob, SetListingJob, DeleteListingJob

-----------------------------------------------------------------------------
(* What a step of r leaves alone.                                          *)

Act(r) ==
    \/ BeginAny(r) \/ Statement(r)
    \/ RejectCheckout(r) \/ ConnectionLost(r) \/ DeadlockAbort(r)

LEMMA ActRows ==
    ASSUME TypeOK, NEW r \in Request, Act(r)
    PROVE  UNCHANGED <<db, pend>> \/ RowStep(r)
<1>1. BeginAny(r) => UNCHANGED <<db, pend>>
  BY DEF BeginAny, BeginCheckout, BeginCancel, BeginStatus, BeginSetStock,
     BeginDeleteVariant, BeginDeleteItem, BeginSetListing, BeginDeleteListing, Begin
<1>2. Statement(r) => RowStep(r)
  BY CheckoutRows, CancelRows, VariantRows, ListingRows DEF Statement, Commit, RowStep
<1>3. RejectCheckout(r) \/ ConnectionLost(r) \/ DeadlockAbort(r) => RowStep(r)
  BY DEF RejectCheckout, ConnectionLost, DeadlockAbort, Fail, RowStep
<1> QED
  BY <1>1, <1>2, <1>3 DEF Act

LEMMA OtherWrites ==
    ASSUME TypeOK, NEW r \in Request, Act(r), NEW s \in Request \ {r}
    PROVE  pend'[s] = pend[s]
<1>1. pend \in [Request -> [Key -> Version \cup {None}]]
  BY RowsShape
<1>2. ASSUME NEW k, NEW x, WriteRow(r, k, x) PROVE pend'[s] = pend[s]
  BY <1>1, <1>2 DEF WriteRow
<1>3. ASSUME NEW k, NEW x, NEW m, NEW y, WriteRows2(r, k, x, m, y) PROVE pend'[s] = pend[s]
  BY <1>1, <1>3 DEF WriteRows2
<1>4. CommitWrites(r) \/ DiscardWrites(r) => pend'[s] = pend[s]
  BY <1>1 DEF CommitWrites, DiscardWrites
<1> QED
  BY <1>2, <1>3, <1>4, ActRows DEF RowStep

LEMMA OtherLocals ==
    ASSUME TypeOK, NEW r \in Request, Act(r), NEW s \in Request \ {r}
    PROVE  /\ pc'[s] = pc[s] /\ job'[s] = job[s]
           /\ todo'[s] = todo[s] /\ seen'[s] = seen[s] /\ put'[s] = put[s]
<1> DEFINE Same == todo'[s] = todo[s] /\ seen'[s] = seen[s] /\ put'[s] = put[s]
<1>0. /\ todo \in [Request -> SUBSET Variant] /\ DOMAIN seen = Request
      /\ put \in [Request -> SUBSET Item]
  BY DEF TypeOK, LocalsOK
<1>1. ASSUME NEW outcome, End(r, outcome) PROVE Same
  BY <1>0, <1>1 DEF End
<1>2. ASSUME NEW S, NEW label, NEW after, Loop(r, S, label, after), put' = put, seen' = seen
      PROVE  Same
  BY <1>0, <1>2 DEF Loop
<1>3. ASSUME NEW x, seen' = [seen EXCEPT ![r] = x], todo' = todo, put' = put PROVE Same
  BY <1>0, <1>3
<1>4. Fail(r) => Same
  BY <1>1 DEF Fail
<1>5. BeginAny(r) => Same
  BY <1>2 DEF BeginAny, BeginCheckout, BeginCancel, BeginStatus, BeginSetStock,
     BeginDeleteVariant, BeginDeleteItem, BeginSetListing, BeginDeleteListing, Begin
<1>6. ResolveLine(r) \/ InsertOrder(r) \/ DeductLine(r) \/ ListItems(r)
        \/ SelectVariants(r) \/ CascadeLine(r) => Same
  BY <1>2, <1>4 DEF ResolveLine, InsertOrder, DeductLine, ListItems, SelectVariants, CascadeLine
<1>7. RestoreLine(r) => Same
  BY <1>0 DEF RestoreLine, Loop
<1>8. ReadOrder(r) \/ CheckSeller(r) \/ MarkStatus(r) => Same
  BY <1>3, <1>4 DEF ReadOrder, CheckSeller, MarkStatus, locals
<1>9. CheckVariant(r) \/ LoadVariant(r) \/ WriteStock(r) \/ RemoveVariant(r)
        \/ CheckItem(r) \/ RemoveItem(r) => Same
  BY <1>3, <1>4
     DEF CheckVariant, LoadVariant, WriteStock, RemoveVariant, CheckItem, RemoveItem, locals
<1>10. CheckListing(r) \/ ReloadListing(r) \/ WriteListing(r) \/ RemoveListing(r) => Same
  BY <1>3, <1>4 DEF CheckListing, ReloadListing, WriteListing, RemoveListing, locals
<1>11. Commit(r) => Same
  BY <1>1 DEF Commit
<1>12. RejectCheckout(r) \/ ConnectionLost(r) \/ DeadlockAbort(r) => Same
  BY <1>4 DEF RejectCheckout, ConnectionLost, DeadlockAbort
<1>13. Same
  BY <1>5, <1>6, <1>7, <1>8, <1>9, <1>10, <1>11, <1>12 DEF Act, Statement
<1> QED
  BY <1>13, OthersUntouched DEF Act

-----------------------------------------------------------------------------
(* New versions of a row are versions.                                     *)

LEMMA VariantVersions ==
    ASSUME TypeOK, NEW v \in Variant
    PROVE  /\ db[v].stock \in Int /\ db[v].live \in BOOLEAN
           /\ \A n \in Int : [db[v] EXCEPT !.stock = n] # None
           /\ [db[v] EXCEPT !.live = FALSE] # None
<1>1. db[v] \in VariantRow
  BY RowTypes DEF TypeOK, RowsOK
<1>2. \A n \in Int : [db[v] EXCEPT !.stock = n] \in VariantRow
  BY <1>1 DEF VariantRow
<1>3. [db[v] EXCEPT !.live = FALSE] \in VariantRow
  BY <1>1 DEF VariantRow
<1> QED
  BY <1>1, <1>2, <1>3, NoneIsNoRow DEF VariantRow, Version

LEMMA OrderVersions ==
    ASSUME TypeOK, NEW o \in Order
    PROVE  /\ db[o] \in OrderRow
           /\ \A status \in OrderStatus : [db[o] EXCEPT !.status = status] \in OrderRow
           /\ \A status \in OrderStatus : [db[o] EXCEPT !.status = status] # None
           /\ \A v \in Variant : db[<<o, v>>] \in ItemRow
<1>1. db[o] \in OrderRow
  BY RowTypes DEF TypeOK, RowsOK
<1>2. \A status \in OrderStatus : [db[o] EXCEPT !.status = status] \in OrderRow
  BY <1>1 DEF OrderRow
<1>3. \A v \in Variant : db[<<o, v>>] \in ItemRow
  BY RowTypes DEF TypeOK, RowsOK, Item
<1> QED
  BY <1>1, <1>2, <1>3, NoneIsNoRow DEF Version

LEMMA PlacedVersion ==
    ASSUME NEW r \in Request, job[r] \in CheckoutJob
    PROVE  PlacedOrder(r) \in OrderRow /\ PlacedOrder(r) # None
<1>1. PlacedOrder(r) \in OrderRow
  BY CheckoutTypes DEF PlacedOrder, OrderRow, OrderStatus
<1> QED
  BY <1>1, NoneIsNoRow DEF Version

LEMMA ItemVersion ==
    ASSUME NEW n \in Nat, NEW live \in BOOLEAN
    PROVE  [quantity |-> n, live |-> live] # None
<1>1. [quantity |-> n, live |-> live] \in ItemRow
  BY DEF ItemRow
<1> QED
  BY <1>1, NoneIsNoRow DEF Version

-----------------------------------------------------------------------------
(* A transaction while others run and commit.                              *)

(* What a commit may change of rows other requests rely on without holding *)
(* them: variants are deleted and never revived, an order keeps its        *)
(* fulfilment type and the quantities of its lines, whose items are        *)
(* deleted and never revived.                                              *)
Evolves ==
    /\ \A v \in Variant : db'[v].live => db[v].live
    /\ \A o \in Order : db[o].status # "ABSENT" =>
         /\ db'[o].status # "ABSENT" /\ db'[o].fulfillment = db[o].fulfillment
         /\ \A v \in Variant : /\ db'[<<o, v>>].quantity = db[<<o, v>>].quantity
                               /\ db'[<<o, v>>].live => db[<<o, v>>].live

LEMMA OtherTransactions ==
    ASSUME TypeOK, NEW s \in Request, TransactionOK(s), Evolves,
           pend'[s] = pend[s], pc'[s] = pc[s], job'[s] = job[s],
           todo'[s] = todo[s], seen'[s] = seen[s], put'[s] = put[s],
           \A k \in Key : Holds(s, k) => db'[k] = db[k]
    PROVE  TransactionOK(s)'
<1>0. job[s] \in Job /\ put[s] \subseteq Item
  BY DEF TypeOK, LocalsOK
<1>1. IdleWritesNothing(s)' /\ OnlyReturnsPutBack(s)'
  BY DEF TransactionOK, IdleWritesNothing, OnlyReturnsPutBack, Untouched
<1>2. CheckoutWrites(s)'
  <2> SUFFICES ASSUME pc[s] \in {"deduct", "commit"}, job[s].op = "checkout"
               PROVE  CheckoutWrites(s)'
    BY DEF CheckoutWrites
  <2> DEFINE o == job[s].order
             cart == job[s].cart
  <2>1. job[s] \in CheckoutJob
    BY <1>0, JobOps
  <2>2. /\ o \in Order /\ o \in Key /\ PlacedOrder(s) # None
        /\ DOMAIN cart \subseteq Variant /\ \A v \in DOMAIN cart : cart[v] \in Nat
    BY <2>1, CheckoutTypes, OrderKeys, PlacedVersion
  <2>3. /\ db[o].status = "ABSENT"
        /\ pend[s][o] = PlacedOrder(s)
        /\ \A v \in Taken(s) :
             /\ db[v].live /\ db[v].stock >= cart[v]
             /\ pend[s][v] = [db[v] EXCEPT !.stock = @ - cart[v]]
             /\ pend[s][<<o, v>>] = [quantity |-> cart[v], live |-> TRUE]
        /\ \A k \in Key : pend[s][k] # None =>
             k = o \/ k \in Taken(s) \/ \E v \in Taken(s) : k = <<o, v>>
    BY DEF TransactionOK, CheckoutWrites
  <2>4. Taken(s)' = Taken(s) /\ PlacedOrder(s)' = PlacedOrder(s) /\ Taken(s) \subseteq Variant
    BY <2>2 DEF Taken, PlacedOrder
  <2>5. db'[o] = db[o]
    BY <2>2, <2>3 DEF Holds
  <2>6. \A v \in Taken(s) : db'[v] = db[v]
    <3> TAKE v \in Taken(s)
    <3>1. v \in Variant /\ v \in Key /\ cart[v] \in Nat
      BY <2>2, <2>4, RowTypes DEF Taken
    <3>2. db[v].stock - cart[v] \in Int
      BY <3>1, VariantVersions
    <3>3. [db[v] EXCEPT !.stock = db[v].stock - cart[v]] # None
      BY <3>1, <3>2, VariantVersions
    <3>4. pend[s][v] # None
      BY <2>3, <3>3
    <3> QED
      BY <3>1, <3>4 DEF Holds
  <2> QED
    BY <2>3, <2>4, <2>5, <2>6 DEF CheckoutWrites
<1>3. Decided(s)'
  <2> SUFFICES ASSUME pc[s] \in {"belongs", "list", "restore", "mark", "commit"},
                      job[s].op \in {"cancel", "status"}
               PROVE  Decided(s)'
    BY DEF Decided
  <2>1. job[s].order \in Order
    BY <1>0, JobFields
  <2> QED
    BY <2>1 DEF TransactionOK, Decided, Evolves
<1>4. ReturnWrites(s)'
  <2> SUFFICES ASSUME pc[s] \in {"restore", "mark", "commit"}, job[s].op \in {"cancel", "status"}
               PROVE  ReturnWrites(s)'
    BY DEF ReturnWrites
  <2> DEFINE o == job[s].order
  <2>1. /\ o \in Order /\ o \in Key /\ job[s].target \in OrderStatus
        /\ todo[s] \subseteq Variant
    BY <1>0, JobFields, JobOps, CancelTypes, OrderKeys DEF TypeOK, LocalsOK
  <2>2. /\ \A v \in Variant : <<o, v>> \in put[s] =>
             /\ db[v].live /\ db[<<o, v>>].quantity > 0
             /\ pend[s][v] = [db[v] EXCEPT !.stock = @ + db[<<o, v>>].quantity]
        /\ pc[s] = "commit" => pend[s][o] = [db[o] EXCEPT !.status = job[s].target]
    BY DEF TransactionOK, ReturnWrites
  <2>3. \A v \in Variant : <<o, v>> \in put[s] => db'[v] = db[v]
    <3> SUFFICES ASSUME NEW v \in Variant, <<o, v>> \in put[s] PROVE db'[v] = db[v]
      OBVIOUS
    <3>1. db[<<o, v>>].quantity \in Nat /\ v \in Key
      BY <2>1, OrderVersions, RowTypes DEF ItemRow
    <3>2. db[v].stock + db[<<o, v>>].quantity \in Int
      BY <3>1, VariantVersions
    <3>3. [db[v] EXCEPT !.stock = db[v].stock + db[<<o, v>>].quantity] # None
      BY <3>2, VariantVersions
    <3>4. pend[s][v] # None
      BY <2>2, <3>3
    <3> QED
      BY <3>1, <3>4 DEF Holds
  <2>4. pc[s] = "commit" => db'[o] = db[o]
    BY <2>1, <2>2, OrderVersions DEF Holds
  <2>5. db[o].status # "ABSENT"
    BY DEF TransactionOK, Decided
  <2>6. \A v \in Variant : /\ db'[<<o, v>>].quantity = db[<<o, v>>].quantity
                           /\ db'[<<o, v>>].live => db[<<o, v>>].live
                           /\ db'[v].live => db[v].live
    BY <2>1, <2>5 DEF Evolves
  <2> QED
    BY <2>1, <2>2, <2>3, <2>4, <2>6 DEF TransactionOK, ReturnWrites
<1>5. RetireWrites(s)'
  <2> SUFFICES ASSUME pc[s] \in {"cascade", "removeListing", "commit"},
                      job[s].op = "deleteListing"
               PROVE  RetireWrites(s)'
    BY DEF RetireWrites
  <2> QED
    BY DEF TransactionOK, RetireWrites, Evolves, Holds
<1>6. SingleWrites(s)'
  BY DEF TransactionOK, SingleWrites, Holds
<1> QED
  BY <1>1, <1>2, <1>3, <1>4, <1>5, <1>6 DEF TransactionOK

-----------------------------------------------------------------------------
(* A transaction's own steps.                                              *)

LEMMA QuietStep ==
    ASSUME NEW r \in Request, \A k \in Key : pend'[r][k] = None, put'[r] = {}, Decided(r)',
           pc'[r] \notin {"deduct", "restore", "mark", "cascade", "removeListing", "commit"}
    PROVE  TransactionOK(r)'
BY DEF TransactionOK, IdleWritesNothing, Untouched, OnlyReturnsPutBack, CheckoutWrites,
       ReturnWrites, RetireWrites, SingleWrites

LEMMA EndStep ==
    ASSUME TypeOK, NEW r \in Request, NEW outcome \in {"done", "failed"}, End(r, outcome),
           pend' = [pend EXCEPT ![r] = NoWrites]
    PROVE  TransactionOK(r)'
<1>1. /\ pc \in [Request -> Label] /\ put \in [Request -> SUBSET Item]
      /\ pend \in [Request -> [Key -> Version \cup {None}]] /\ Row = Key
  BY RowsShape DEF TypeOK, LocalsOK
<1>2. pc'[r] = outcome /\ put'[r] = {} /\ \A k \in Key : pend'[r][k] = None
  BY <1>1 DEF End, Goto, NoWrites
<1>3. Decided(r)'
  BY <1>2 DEF Decided
<1> QED
  BY <1>2, <1>3, QuietStep

LEMMA FailStep ==
    ASSUME TypeOK, NEW r \in Request, Fail(r)
    PROVE  db' = db /\ TransactionOK(r)'
BY EndStep DEF Fail, DiscardWrites

LEMMA BeginStep ==
    ASSUME TypeOK, NEW r \in Request, TransactionOK(r), BeginAny(r)
    PROVE  db' = db /\ TransactionOK(r)'
<1>1. /\ pc[r] = "new" /\ UNCHANGED <<db, pend, put>>
      /\ pc'[r] \in {"resolve", "place", "read", "check"}
  <2>1. pc \in [Request -> Label]
    BY DEF TypeOK, LocalsOK
  <2> QED
    BY <2>1 DEF BeginAny, BeginCheckout, BeginCancel, BeginStatus, BeginSetStock,
       BeginDeleteVariant, BeginDeleteItem, BeginSetListing, BeginDeleteListing, Begin, Loop, Goto
<1>2. put'[r] = {} /\ \A k \in Key : pend'[r][k] = None
  BY <1>1 DEF TransactionOK, OnlyReturnsPutBack, IdleWritesNothing, Untouched
<1>3. Decided(r)'
  BY <1>1 DEF Decided
<1> QED
  BY <1>1, <1>2, <1>3, QuietStep

LEMMA WriteEffect ==
    ASSUME TypeOK, NEW r \in Request, NEW k \in Key, NEW x, WriteRow(r, k, x)
    PROVE  /\ db' = db
           /\ \A m \in Key : pend'[r][m] = IF m = k THEN x ELSE pend[r][m]
BY RowsShape DEF WriteRow

LEMMA WriteEffect2 ==
    ASSUME TypeOK, NEW r \in Request, NEW k \in Key, NEW x, NEW n \in Key, NEW y, k # n,
           WriteRows2(r, k, x, n, y)
    PROVE  /\ db' = db
           /\ \A m \in Key :
                pend'[r][m] = IF m = k THEN x ELSE IF m = n THEN y ELSE pend[r][m]
BY RowsShape DEF WriteRows2

(* A statement that only reads and goes on to another one that has nothing *)
(* written before it.                                                      *)
LEMMA ReadStep ==
    ASSUME TypeOK, NEW r \in Request, TransactionOK(r), UNCHANGED <<pend, put>>, Decided(r)',
           pc[r] \notin {"deduct", "restore", "mark", "cascade", "removeListing", "commit"},
           pc'[r] \notin {"deduct", "restore", "mark", "cascade", "removeListing", "commit"}
    PROVE  TransactionOK(r)'
<1>1. put'[r] = {} /\ \A k \in Key : pend'[r][k] = None
  BY DEF TransactionOK, OnlyReturnsPutBack, IdleWritesNothing, Untouched
<1> QED
  BY <1>1, QuietStep

LEMMA InsertOrderStep ==
    ASSUME TypeOK, NEW r \in Request, TransactionOK(r), InsertOrder(r), ~Fail(r)
    PROVE  db' = db /\ TransactionOK(r)'
<1> DEFINE o == job[r].order
           cart == job[r].cart
<1>1. /\ pc[r] = "place" /\ db[o].status = "ABSENT"
      /\ WriteRow(r, o, PlacedOrder(r))
      /\ Loop(r, DOMAIN cart, "deduct", "commit")
      /\ UNCHANGED <<job, seen, put>>
  BY DEF InsertOrder
<1>2. /\ job[r] \in CheckoutJob /\ job[r].op = "checkout"
      /\ o \in Order /\ o \in Key /\ DOMAIN cart \subseteq Variant
  BY <1>1, JobOps, CheckoutTypes, OrderKeys DEF TypeOK, RequestOK
<1>3. /\ pc \in [Request -> Label] /\ todo \in [Request -> SUBSET Variant]
      /\ pend \in [Request -> [Key -> Version \cup {None}]]
  BY RowsShape DEF TypeOK, LocalsOK
<1>4. /\ todo'[r] = DOMAIN cart
      /\ pc'[r] = "deduct" \/ (pc'[r] = "commit" /\ DOMAIN cart = {})
  BY <1>1, <1>3 DEF Loop, Goto
<1>5. Taken(r)' = {}
  BY <1>1, <1>4 DEF Taken
<1>6. \A k \in Key : pend'[r][k] = IF k = o THEN PlacedOrder(r) ELSE None
  BY <1>1, <1>2, <1>3 DEF WriteRow, TransactionOK, IdleWritesNothing, Untouched
<1>7. db' = db
  BY <1>1 DEF WriteRow
<1>8. CheckoutWrites(r)'
  BY <1>1, <1>2, <1>5, <1>6, <1>7 DEF CheckoutWrites, PlacedOrder
<1>9. put'[r] = {}
  BY <1>1 DEF TransactionOK, OnlyReturnsPutBack
<1> QED
  BY <1>1, <1>2, <1>4, <1>7, <1>8, <1>9
     DEF TransactionOK, IdleWritesNothing, OnlyReturnsPutBack, Decided, ReturnWrites,
         RetireWrites, SingleWrites

LEMMA DeductLineStep ==
    ASSUME TypeOK, NEW r \in Request, TransactionOK(r), DeductLine(r), ~Fail(r)
    PROVE  db' = db /\ TransactionOK(r)'
<1> DEFINE o == job[r].order
           cart == job[r].cart
           v == at[r]
           x == [View(r, v) EXCEPT !.stock = @ - cart[v]]
           y == [quantity |-> cart[v], live |-> TRUE]
<1>1. /\ pc[r] = "deduct" /\ View(r, v).live /\ View(r, v).stock >= cart[v]
      /\ WriteRows2(r, v, x, <<o, v>>, y)
      /\ Loop(r, todo[r] \ {v}, "deduct", "commit")
      /\ UNCHANGED <<job, seen, put>>
  BY DEF DeductLine, Deductible
<1>2. /\ job[r] \in CheckoutJob /\ v \in todo[r] /\ todo[r] \subseteq DOMAIN cart
  BY <1>1 DEF TypeOK, RequestOK
<1>3. /\ job[r].op = "checkout" /\ o \in Order /\ v \in Variant /\ DOMAIN cart \subseteq Variant
  BY <1>2, JobOps, CheckoutTypes
<1>4. /\ o \in Key /\ v \in Key /\ <<o, v>> \in Key
      /\ \A w \in Variant : w # o /\ <<o, w>> # o /\ <<o, w>> # v /\ <<o, v>> # w
  BY <1>3, OrderKeys, RowTypes
<1>5. /\ pc \in [Request -> Label] /\ todo \in [Request -> SUBSET Variant]
      /\ pend \in [Request -> [Key -> Version \cup {None}]]
  BY RowsShape DEF TypeOK, LocalsOK
<1>6. /\ todo'[r] = todo[r] \ {v}
      /\ pc'[r] = "deduct" \/ (pc'[r] = "commit" /\ todo'[r] = {})
  BY <1>1, <1>5 DEF Loop, Goto
<1>7. Taken(r) = DOMAIN cart \ todo[r] /\ Taken(r)' = Taken(r) \cup {v}
  BY <1>1, <1>2, <1>6 DEF Taken
<1>8. \A k \in Key : pend'[r][k] = IF k = v THEN x ELSE IF k = <<o, v>> THEN y ELSE pend[r][k]
  <2> HIDE DEF x, y
  <2>1. v # <<o, v>>
    BY <1>3, <1>4
  <2> QED
    BY <1>1, <1>4, <2>1, WriteEffect2
<1>9. db' = db
  BY <1>1 DEF WriteRows2
<1>10. /\ db[o].status = "ABSENT"
       /\ pend[r][o] = PlacedOrder(r)
       /\ \A w \in Taken(r) :
            /\ db[w].live /\ db[w].stock >= cart[w]
            /\ pend[r][w] = [db[w] EXCEPT !.stock = @ - cart[w]]
            /\ pend[r][<<o, w>>] = [quantity |-> cart[w], live |-> TRUE]
       /\ \A k \in Key : pend[r][k] # None =>
            k = o \/ k \in Taken(r) \/ \E w \in Taken(r) : k = <<o, w>>
  BY <1>1, <1>3 DEF TransactionOK, CheckoutWrites
<1>11. View(r, v) = db[v]
  <2>1. v # o /\ v \notin Taken(r) /\ \A w \in Variant : v # <<o, w>>
    BY <1>2, <1>3, <1>4, <1>7
  <2>2. Taken(r) \subseteq Variant
    BY <1>3, <1>7
  <2> QED
    BY <1>4, <1>10, <2>1, <2>2 DEF View
<1>12. PlacedOrder(r)' = PlacedOrder(r)
  BY <1>1 DEF PlacedOrder
<1>13. CheckoutWrites(r)'
  <2>1. \A w \in Taken(r)' :
          /\ db[w].live /\ db[w].stock >= cart[w]
          /\ pend'[r][w] = [db[w] EXCEPT !.stock = @ - cart[w]]
          /\ pend'[r][<<o, w>>] = [quantity |-> cart[w], live |-> TRUE]
    <3> TAKE w \in Taken(r)'
    <3>1. w \in Variant /\ w \in Key /\ <<o, w>> \in Key
      BY <1>2, <1>3, <1>7, OrderKeys, RowTypes
    <3>2. CASE w = v
      <4>1. pend'[r][v] = x /\ pend'[r][<<o, v>>] = y
        <5> HIDE DEF x, y
        <5>1. v # <<o, v>>
          BY <1>3, <1>4
        <5> QED
          BY <1>4, <1>8, <5>1
      <4>2. x = [db[v] EXCEPT !.stock = @ - cart[v]]
        BY <1>11
      <4> QED
        BY <1>1, <1>11, <3>2, <4>1, <4>2
    <3>3. CASE w # v
      <4>1. w \in Taken(r) /\ <<o, w>> # <<o, v>> /\ w # <<o, v>> /\ <<o, w>> # v
        BY <1>4, <1>7, <3>1, <3>3
      <4> QED
        BY <1>8, <1>10, <3>1, <3>3, <4>1
    <3> QED
      BY <3>2, <3>3
  <2>2. \A k \in Key : pend'[r][k] # None =>
          k = o \/ k \in Taken(r)' \/ \E w \in Taken(r)' : k = <<o, w>>
    BY <1>7, <1>8, <1>10
  <2>3. pend'[r][o] = PlacedOrder(r)
    BY <1>3, <1>4, <1>8, <1>10
  <2> QED
    BY <1>1, <1>9, <1>10, <1>12, <2>1, <2>2, <2>3 DEF CheckoutWrites
<1>14. put'[r] = {}
  BY <1>1 DEF TransactionOK, OnlyReturnsPutBack
<1> QED
  BY <1>1, <1>3, <1>6, <1>9, <1>13, <1>14
     DEF TransactionOK, IdleWritesNothing, OnlyReturnsPutBack, Decided, ReturnWrites,
         RetireWrites, SingleWrites

LEMMA CheckoutStep ==
    ASSUME TypeOK, NEW r \in Request, TransactionOK(r),
           ResolveLine(r) \/ InsertOrder(r) \/ DeductLine(r)
    PROVE  db' = db /\ TransactionOK(r)'
<1>1. CASE Fail(r)
  BY <1>1, FailStep
<1>2. CASE ResolveLine(r) /\ ~Fail(r)
  <2>1. /\ pc[r] = "resolve" /\ pc'[r] \in {"resolve", "place"}
        /\ UNCHANGED <<db, pend, put>>
    BY <1>2 DEF ResolveLine, Loop, Goto, TypeOK, LocalsOK
  <2>2. Decided(r)'
    BY <2>1 DEF Decided
  <2> QED
    BY <2>1, <2>2, ReadStep
<1> QED
  BY <1>1, <1>2, InsertOrderStep, DeductLineStep

LEMMA IdleView ==
    ASSUME NEW r \in Request, TransactionOK(r),
           pc[r] \notin {"deduct", "restore", "mark", "cascade", "removeListing", "commit"}
    PROVE  \A k \in Key : View(r, k) = db[k]
BY DEF TransactionOK, IdleWritesNothing, Untouched, View

LEMMA ReadOrderStep ==
    ASSUME TypeOK, NEW r \in Request, TransactionOK(r), ReadOrder(r), ~Fail(r)
    PROVE  db' = db /\ TransactionOK(r)'
<1> DEFINE o == job[r].order
<1>1. /\ pc[r] = "read" /\ View(r, o).status # "ABSENT"
      /\ job[r].op = "cancel" => CustomerMayCancel(View(r, o).status)
      /\ seen' = [seen EXCEPT ![r] = View(r, o).status]
      /\ Goto(r, IF job[r].op = "cancel" THEN "list" ELSE "belongs")
      /\ UNCHANGED <<db, pend, job, put>>
  BY DEF ReadOrder
<1>2. job[r] \in CancelJob \cup StatusJob
  BY <1>1 DEF TypeOK, RequestOK
<1>3. /\ o \in Order /\ o \in Key /\ job[r].op \in {"cancel", "status"}
      /\ job[r].op = "cancel" => job[r].target = "CANCELLED"
  BY <1>2, JobOps, CancelTypes, OrderKeys
<1>4. View(r, o) = db[o] /\ db[o] \in OrderRow
  BY <1>1, <1>3, IdleView, OrderVersions
<1>5. /\ pc'[r] = IF job[r].op = "cancel" THEN "list" ELSE "belongs"
      /\ seen'[r] = db[o].status
  BY <1>1, <1>4 DEF Goto, TypeOK, LocalsOK
<1>6. db[o].status \in OrderStatus
  BY <1>1, <1>4 DEF OrderRow
<1>7. job[r].op = "cancel" => SellerMayMove(db[o].status, "CANCELLED", db[o].fulfillment)
  BY <1>1, <1>4 DEF CustomerMayCancel, SellerMayMove, SellerTransitions
<1>8. Decided(r)'
  BY <1>1, <1>3, <1>4, <1>5, <1>6, <1>7 DEF Decided
<1> QED
  BY <1>1, <1>5, <1>8, ReadStep

LEMMA CheckSellerStep ==
    ASSUME TypeOK, NEW r \in Request, TransactionOK(r), CheckSeller(r), ~Fail(r)
    PROVE  db' = db /\ TransactionOK(r)'
<1> DEFINE o == job[r].order
<1>1. /\ pc[r] = "belongs" /\ SellerMayMove(seen[r], job[r].target, View(r, o).fulfillment)
      /\ Goto(r, IF job[r].target = "CANCELLED" THEN "list" ELSE "mark")
      /\ UNCHANGED <<db, pend, locals>>
  BY DEF CheckSeller
<1>2. job[r] \in StatusJob
  BY <1>1 DEF TypeOK, RequestOK
<1>3. o \in Order /\ o \in Key /\ job[r].op = "status"
  BY <1>2, JobOps, CancelTypes, OrderKeys
<1>4. View(r, o) = db[o]
  BY <1>1, <1>3, IdleView
<1>5. pc'[r] = IF job[r].target = "CANCELLED" THEN "list" ELSE "mark"
  BY <1>1 DEF Goto, TypeOK, LocalsOK
<1>6. Decided(r)'
  BY <1>1, <1>3, <1>4, <1>5 DEF Decided, TransactionOK, locals
<1>7. CASE job[r].target = "CANCELLED"
  BY <1>1, <1>5, <1>6, <1>7, ReadStep DEF locals
<1>8. CASE job[r].target # "CANCELLED"
  <2>1. put'[r] = {} /\ \A k \in Key : pend'[r][k] = None
    BY <1>1 DEF TransactionOK, OnlyReturnsPutBack, IdleWritesNothing, Untouched, locals
  <2>2. pc'[r] = "mark" /\ job' = job
    BY <1>1, <1>5, <1>8 DEF locals
  <2>3. ReturnWrites(r)'
    BY <1>8, <2>1, <2>2 DEF ReturnWrites
  <2> QED
    BY <1>1, <1>6, <2>1, <2>2, <2>3
       DEF TransactionOK, IdleWritesNothing, OnlyReturnsPutBack, CheckoutWrites, RetireWrites,
           SingleWrites
<1> QED
  BY <1>1, <1>7, <1>8

LEMMA ListItemsStep ==
    ASSUME TypeOK, LiveLinesAreSold, NEW r \in Request, TransactionOK(r), ListItems(r)
    PROVE  db' = db /\ TransactionOK(r)'
<1> DEFINE o == job[r].order
<1>1. /\ pc[r] = "list"
      /\ Loop(r, LiveItems(r, o), "restore", "mark")
      /\ UNCHANGED <<db, pend, job, seen, put>>
  BY DEF ListItems
<1>2. job[r] \in CancelJob \cup StatusJob
  BY <1>1 DEF TypeOK, RequestOK
<1>3. o \in Order /\ job[r].op \in {"cancel", "status"}
  BY <1>2, JobOps, CancelTypes
<1>4. \A v \in Variant : <<o, v>> \in Item /\ View(r, <<o, v>>) = db[<<o, v>>]
  BY <1>1, <1>3, OrderKeys, IdleView
<1>5. LiveItems(r, o) = {v \in Variant : db[<<o, v>>].live}
  BY <1>4 DEF LiveItems
<1>6. /\ todo'[r] = LiveItems(r, o)
      /\ pc'[r] = "restore" \/ (pc'[r] = "mark" /\ todo'[r] = {})
  BY <1>1 DEF Loop, Goto, TypeOK, LocalsOK
<1>7. put'[r] = {} /\ \A k \in Key : pend'[r][k] = None
  BY <1>1 DEF TransactionOK, OnlyReturnsPutBack, IdleWritesNothing, Untouched
<1>8. Decided(r)'
  BY <1>1, <1>3, <1>6 DEF Decided, TransactionOK
<1>9. \A v \in todo'[r] : db[<<o, v>>].quantity > 0
  BY <1>4, <1>5, <1>6 DEF LiveLinesAreSold
<1>10. \A v \in Variant : db[<<o, v>>].live => v \in todo'[r]
  BY <1>5, <1>6
<1>11. job[r].target = "CANCELLED"
  BY <1>1, <1>3 DEF TransactionOK, Decided
<1>12. ReturnWrites(r)'
  BY <1>1, <1>6, <1>7, <1>9, <1>10, <1>11 DEF ReturnWrites
<1> QED
  BY <1>1, <1>3, <1>6, <1>7, <1>8, <1>12
     DEF TransactionOK, IdleWritesNothing, OnlyReturnsPutBack, CheckoutWrites, RetireWrites,
         SingleWrites

LEMMA RestoreLineStep ==
    ASSUME TypeOK, NEW r \in Request, TransactionOK(r), RestoreLine(r)
    PROVE  db' = db /\ TransactionOK(r)'
<1> DEFINE o == job[r].order
           v == at[r]
           x == [View(r, v) EXCEPT !.stock = @ + View(r, <<o, v>>).quantity]
<1>1. /\ pc[r] = "restore"
      /\ \/ /\ View(r, v).live /\ WriteRow(r, v, x)
            /\ put' = [put EXCEPT ![r] = @ \cup {<<o, v>>}]
         \/ ~View(r, v).live /\ UNCHANGED <<db, pend, put>>
      /\ Loop(r, todo[r] \ {v}, "restore", "mark")
      /\ UNCHANGED <<job, seen>>
  BY DEF RestoreLine, Restorable
<1>2. job[r] \in CancelJob \cup StatusJob /\ v \in todo[r] /\ todo[r] \subseteq Variant
  BY <1>1 DEF TypeOK, RequestOK, LocalsOK
<1>3. o \in Order /\ v \in Variant /\ job[r].op \in {"cancel", "status"}
  BY <1>2, JobOps, CancelTypes
<1>4. /\ o \in Key /\ v \in Key /\ <<o, v>> \in Key /\ o # v
      /\ <<o, v>> \notin Variant /\ <<o, v>> # o
  BY <1>3, OrderKeys, RowTypes
<1>5. /\ todo'[r] = todo[r] \ {v}
      /\ pc'[r] = "restore" \/ (pc'[r] = "mark" /\ todo'[r] = {})
  BY <1>1 DEF Loop, Goto, TypeOK, LocalsOK
<1>6. /\ \A w \in Variant : <<o, w>> \in put[r] =>
           /\ db[w].live /\ db[<<o, w>>].quantity > 0
           /\ pend[r][w] = [db[w] EXCEPT !.stock = @ + db[<<o, w>>].quantity]
      /\ \A i \in put[r] : i[1] = o
      /\ \A k \in Key : pend[r][k] # None => k \in Variant /\ <<o, k>> \in put[r]
      /\ \A w \in todo[r] : <<o, w>> \notin put[r] /\ db[<<o, w>>].quantity > 0
      /\ \A w \in Variant : db[<<o, w>>].live /\ db[w].live =>
           <<o, w>> \in put[r] \/ w \in todo[r]
      /\ job[r].target = "CANCELLED"
  BY <1>1, <1>3 DEF TransactionOK, ReturnWrites, Decided
<1>7. View(r, v) = db[v] /\ View(r, <<o, v>>) = db[<<o, v>>]
  BY <1>2, <1>4, <1>6 DEF View
<1>8. db' = db
  BY <1>1 DEF WriteRow
<1>9. Decided(r)'
  BY <1>1, <1>3, <1>5, <1>8 DEF Decided, TransactionOK
<1>10. CASE ~View(r, v).live /\ UNCHANGED <<db, pend, put>>
  <2>1. ~db[v].live
    BY <1>7, <1>10
  <2>2. \A w \in Variant : db[<<o, w>>].live /\ db[w].live =>
          <<o, w>> \in put[r] \/ (pc'[r] = "restore" /\ w \in todo'[r])
    BY <1>5, <1>6, <2>1
  <2>3. ReturnWrites(r)'
    BY <1>1, <1>5, <1>6, <1>10, <2>2 DEF ReturnWrites
  <2> QED
    BY <1>1, <1>3, <1>5, <1>8, <1>9, <2>3
       DEF TransactionOK, IdleWritesNothing, OnlyReturnsPutBack, CheckoutWrites, RetireWrites,
           SingleWrites
<1>11. CASE /\ View(r, v).live /\ WriteRow(r, v, x)
            /\ put' = [put EXCEPT ![r] = @ \cup {<<o, v>>}]
  <2>1. put'[r] = put[r] \cup {<<o, v>>}
    BY <1>11 DEF TypeOK, LocalsOK
  <2>2. \A k \in Key : pend'[r][k] = IF k = v THEN x ELSE pend[r][k]
    <3> HIDE DEF x
    <3> QED
      BY <1>4, <1>11, WriteEffect
  <2>3. pend'[r][v] = [db[v] EXCEPT !.stock = @ + db[<<o, v>>].quantity]
    <3>1. pend'[r][v] = x
      <4> HIDE DEF x
      <4> QED
        BY <1>4, <2>2
    <3> QED
      BY <1>7, <3>1
  <2> HIDE DEF x
  <2>4. \A w \in Variant : <<o, w>> \in put'[r] =>
          /\ db[w].live /\ db[<<o, w>>].quantity > 0
          /\ pend'[r][w] = [db[w] EXCEPT !.stock = @ + db[<<o, w>>].quantity]
    <3> SUFFICES ASSUME NEW w \in Variant, <<o, w>> \in put'[r]
                 PROVE  /\ db[w].live /\ db[<<o, w>>].quantity > 0
                        /\ pend'[r][w] = [db[w] EXCEPT !.stock = @ + db[<<o, w>>].quantity]
      OBVIOUS
    <3>1. CASE w = v
      BY <1>2, <1>6, <1>7, <1>11, <2>3, <3>1
    <3>2. CASE w # v
      <4>1. <<o, w>> \in put[r] /\ w \in Key
        BY <2>1, <3>2, RowTypes
      <4> QED
        BY <1>6, <2>2, <3>2, <4>1
    <3> QED
      BY <3>1, <3>2
  <2>5. \A k \in Key : pend'[r][k] # None => k \in Variant /\ <<o, k>> \in put'[r]
    BY <1>3, <1>6, <2>1, <2>2
  <2>6. \A w \in todo'[r] : <<o, w>> \notin put'[r] /\ db[<<o, w>>].quantity > 0
    BY <1>5, <1>6, <2>1
  <2>7. \A w \in Variant : db[<<o, w>>].live /\ db[w].live =>
          <<o, w>> \in put'[r] \/ (pc'[r] = "restore" /\ w \in todo'[r])
    BY <1>5, <1>6, <2>1
  <2>8. \A i \in put'[r] : i[1] = o
    BY <1>6, <2>1
  <2>9. ReturnWrites(r)'
    BY <1>1, <1>5, <1>6, <1>8, <2>4, <2>5, <2>6, <2>7, <2>8 DEF ReturnWrites
  <2> QED
    BY <1>1, <1>3, <1>5, <1>8, <1>9, <2>9
       DEF TransactionOK, IdleWritesNothing, OnlyReturnsPutBack, CheckoutWrites, RetireWrites,
           SingleWrites
<1> QED
  BY <1>1, <1>10, <1>11

LEMMA MarkStatusStep ==
    ASSUME TypeOK, NEW r \in Request, TransactionOK(r), MarkStatus(r)
    PROVE  db' = db /\ TransactionOK(r)'
<1> DEFINE o == job[r].order
           x == [View(r, o) EXCEPT !.status = job[r].target]
<1>1. /\ pc[r] = "mark" /\ WriteRow(r, o, x) /\ Goto(r, "commit")
      /\ UNCHANGED locals
  BY DEF MarkStatus
<1>2. job[r] \in CancelJob \cup StatusJob
  BY <1>1 DEF TypeOK, RequestOK
<1>3. /\ o \in Order /\ o \in Key /\ o \notin Variant
      /\ job[r].op \in {"cancel", "status"}
  BY <1>2, JobOps, CancelTypes, OrderKeys
<1>4. pc'[r] = "commit" /\ job' = job /\ put' = put /\ seen' = seen /\ db' = db
  BY <1>1 DEF Goto, TypeOK, LocalsOK, locals, WriteRow
<1>5. ReturnWrites(r) /\ \A k \in Key : pend[r][k] # None => k \in Variant /\ <<o, k>> \in put[r]
  BY <1>1, <1>3 DEF TransactionOK, ReturnWrites
<1>6. View(r, o) = db[o]
  BY <1>3, <1>5 DEF View
<1>7. \A k \in Key : pend'[r][k] = IF k = o THEN x ELSE pend[r][k]
  <2> HIDE DEF x
  <2> QED
    BY <1>1, <1>3, WriteEffect
<1>8. pend'[r][o] = [db[o] EXCEPT !.status = job[r].target]
  <2>1. pend'[r][o] = x
    <3> HIDE DEF x
    <3> QED
      BY <1>3, <1>7
  <2> QED
    BY <1>6, <2>1
<1> HIDE DEF x
<1>9. \A w \in Variant : w \in Key /\ w # o
  BY <1>3, RowTypes
<1>10. ReturnWrites(r)'
  BY <1>1, <1>3, <1>4, <1>5, <1>7, <1>8, <1>9 DEF ReturnWrites
<1>11. Decided(r)'
  BY <1>1, <1>3, <1>4 DEF Decided, TransactionOK
<1> QED
  BY <1>1, <1>3, <1>4, <1>10, <1>11
     DEF TransactionOK, IdleWritesNothing, OnlyReturnsPutBack, CheckoutWrites, RetireWrites,
         SingleWrites

LEMMA CancelStep ==
    ASSUME TypeOK, LiveLinesAreSold, NEW r \in Request, TransactionOK(r),
           ReadOrder(r) \/ CheckSeller(r) \/ ListItems(r) \/ RestoreLine(r) \/ MarkStatus(r)
    PROVE  db' = db /\ TransactionOK(r)'
BY FailStep, ReadOrderStep, CheckSellerStep, ListItemsStep, RestoreLineStep, MarkStatusStep

(* A request of the seller that has written at most one row.               *)
LEMMA SingleStep ==
    ASSUME NEW r \in Request, pc'[r] = "commit", put'[r] = {}, SingleWrites(r)',
           job'[r].op \in {"setStock", "deleteVariant", "deleteItem", "setListing"}
    PROVE  TransactionOK(r)'
BY DEF TransactionOK, IdleWritesNothing, OnlyReturnsPutBack, CheckoutWrites, Decided,
       ReturnWrites, RetireWrites

LEMMA VariantStep ==
    ASSUME TypeOK, NEW r \in Request, TransactionOK(r),
           CheckVariant(r) \/ LoadVariant(r) \/ WriteStock(r) \/ RemoveVariant(r)
    PROVE  db' = db /\ TransactionOK(r)'
<1> DEFINE v == job[r].variant
<1>0. pc \in [Request -> Label]
  BY DEF TypeOK, LocalsOK
<1>1. CASE Fail(r)
  BY <1>1, FailStep
<1>2. CASE CheckVariant(r) /\ ~Fail(r)
  <2>1. /\ pc[r] = "check" /\ pc'[r] \in {"load", "removeVariant"}
        /\ UNCHANGED <<db, pend, put>>
    BY <1>0, <1>2 DEF CheckVariant, Goto, locals
  <2>2. Decided(r)'
    BY <2>1 DEF Decided
  <2> QED
    BY <2>1, <2>2, ReadStep
<1>3. CASE LoadVariant(r) /\ ~Fail(r)
  <2>1. /\ pc[r] = "load" /\ pc'[r] \in {"commit", "writeStock"}
        /\ UNCHANGED <<db, pend, put, job>>
    BY <1>0, <1>3 DEF LoadVariant, Goto
  <2>2. job[r].op = "setStock"
    BY <2>1, JobOps DEF TypeOK, RequestOK
  <2>3. Decided(r)'
    BY <2>1, <2>2 DEF Decided
  <2>4. CASE pc'[r] = "writeStock"
    BY <2>1, <2>3, <2>4, ReadStep
  <2>5. CASE pc'[r] = "commit"
    <3>1. put'[r] = {} /\ \A k \in Key : pend'[r][k] = None
      BY <2>1 DEF TransactionOK, OnlyReturnsPutBack, IdleWritesNothing, Untouched
    <3>2. v \in Key
      BY <2>1, SellerTypes, RowTypes DEF TypeOK, RequestOK
    <3>3. SingleWrites(r)'
      BY <2>1, <2>2, <3>1, <3>2 DEF SingleWrites
    <3> QED
      BY <2>1, <2>2, <2>5, <3>1, <3>3, SingleStep
  <2> QED
    BY <2>1, <2>4, <2>5
<1>4. CASE WriteStock(r) /\ ~Fail(r)
  <2> DEFINE x == [View(r, v) EXCEPT !.stock = job[r].stock]
  <2>1. /\ pc[r] = "writeStock" /\ job[r].stock >= 0 /\ WriteRow(r, v, x)
        /\ pc'[r] = "commit" /\ job' = job /\ put' = put
    BY <1>0, <1>4 DEF WriteStock, Goto, locals
  <2>2. v \in Key /\ job[r].op = "setStock"
    BY <2>1, JobOps, SellerTypes, RowTypes DEF TypeOK, RequestOK
  <2>3. put'[r] = {} /\ View(r, v) = db[v] /\ \A k \in Key : pend[r][k] = None
    BY <2>1, <2>2, IdleView DEF TransactionOK, OnlyReturnsPutBack, IdleWritesNothing, Untouched
  <2>4. db' = db /\ \A k \in Key : pend'[r][k] = IF k = v THEN x ELSE None
    <3> HIDE DEF x
    <3> QED
      BY <2>1, <2>2, <2>3, WriteEffect
  <2>5. SingleWrites(r)'
    BY <2>1, <2>2, <2>3, <2>4 DEF SingleWrites
  <2> QED
    BY <2>1, <2>2, <2>3, <2>4, <2>5, SingleStep
<1>5. CASE RemoveVariant(r) /\ ~Fail(r)
  <2> DEFINE x == [View(r, v) EXCEPT !.live = FALSE]
  <2>1. /\ pc[r] = "removeVariant" /\ WriteRow(r, v, x)
        /\ pc'[r] = "commit" /\ job' = job /\ put' = put
    BY <1>0, <1>5 DEF RemoveVariant, Goto, locals
  <2>2. v \in Key /\ job[r].op = "deleteVariant"
    BY <2>1, JobOps, SellerTypes, RowTypes DEF TypeOK, RequestOK
  <2>3. put'[r] = {} /\ View(r, v) = db[v] /\ \A k \in Key : pend[r][k] = None
    BY <2>1, <2>2, IdleView DEF TransactionOK, OnlyReturnsPutBack, IdleWritesNothing, Untouched
  <2>4. db' = db /\ \A k \in Key : pend'[r][k] = IF k = v THEN x ELSE None
    <3> HIDE DEF x
    <3> QED
      BY <2>1, <2>2, <2>3, WriteEffect
  <2>5. SingleWrites(r)'
    BY <2>1, <2>2, <2>3, <2>4 DEF SingleWrites
  <2> QED
    BY <2>1, <2>2, <2>3, <2>4, <2>5, SingleStep
<1> QED
  BY <1>1, <1>2, <1>3, <1>4, <1>5

LEMMA ItemStep ==
    ASSUME TypeOK, NEW r \in Request, TransactionOK(r), CheckItem(r) \/ RemoveItem(r)
    PROVE  db' = db /\ TransactionOK(r)'
<1> DEFINE i == job[r].item
<1>0. pc \in [Request -> Label]
  BY DEF TypeOK, LocalsOK
<1>1. CASE Fail(r)
  BY <1>1, FailStep
<1>2. CASE CheckItem(r) /\ ~Fail(r)
  <2>1. pc[r] = "check" /\ pc'[r] = "removeItem" /\ UNCHANGED <<db, pend, put>>
    BY <1>0, <1>2 DEF CheckItem, Goto, locals
  <2>2. Decided(r)'
    BY <2>1 DEF Decided
  <2> QED
    BY <2>1, <2>2, ReadStep
<1>3. CASE RemoveItem(r) /\ ~Fail(r)
  <2> DEFINE x == [View(r, i) EXCEPT !.live = FALSE]
  <2>1. /\ pc[r] = "removeItem" /\ WriteRow(r, i, x)
        /\ pc'[r] = "commit" /\ job' = job /\ put' = put
    BY <1>0, <1>3 DEF RemoveItem, Goto, locals
  <2>2. i \in Key /\ job[r].op = "deleteItem"
    BY <2>1, JobOps, SellerTypes, RowTypes DEF TypeOK, RequestOK
  <2>3. put'[r] = {} /\ View(r, i) = db[i] /\ \A k \in Key : pend[r][k] = None
    BY <2>1, <2>2, IdleView DEF TransactionOK, OnlyReturnsPutBack, IdleWritesNothing, Untouched
  <2>4. db' = db /\ \A k \in Key : pend'[r][k] = IF k = i THEN x ELSE None
    <3> HIDE DEF x
    <3> QED
      BY <2>1, <2>2, <2>3, WriteEffect
  <2>5. SingleWrites(r)'
    BY <2>1, <2>2, <2>3, <2>4 DEF SingleWrites
  <2> QED
    BY <2>1, <2>2, <2>3, <2>4, <2>5, SingleStep
<1> QED
  BY <1>1, <1>2, <1>3

LEMMA SetListingStep ==
    ASSUME TypeOK, NEW r \in Request, TransactionOK(r),
           CheckListing(r) \/ ReloadListing(r) \/ WriteListing(r)
    PROVE  db' = db /\ TransactionOK(r)'
<1> DEFINE l == job[r].listing
<1>0. pc \in [Request -> Label]
  BY DEF TypeOK, LocalsOK
<1>1. CASE Fail(r)
  BY <1>1, FailStep
<1>2. CASE CheckListing(r) /\ ~Fail(r)
  <2>1. pc[r] = "check" /\ pc'[r] \in {"reload", "select"} /\ UNCHANGED <<db, pend, put>>
    BY <1>0, <1>2 DEF CheckListing, Goto
  <2>2. Decided(r)'
    BY <2>1 DEF Decided
  <2> QED
    BY <2>1, <2>2, ReadStep
<1>3. CASE ReloadListing(r) /\ ~Fail(r)
  <2>1. /\ pc[r] = "reload" /\ pc'[r] \in {"commit", "writeListing"}
        /\ UNCHANGED <<db, pend, put, job>>
    BY <1>0, <1>3 DEF ReloadListing, Goto, locals
  <2>2. job[r].op = "setListing"
    BY <2>1, JobOps DEF TypeOK, RequestOK
  <2>3. Decided(r)'
    BY <2>1, <2>2 DEF Decided
  <2>4. CASE pc'[r] = "writeListing"
    BY <2>1, <2>3, <2>4, ReadStep
  <2>5. CASE pc'[r] = "commit"
    <3>1. put'[r] = {} /\ \A k \in Key : pend'[r][k] = None
      BY <2>1 DEF TransactionOK, OnlyReturnsPutBack, IdleWritesNothing, Untouched
    <3>2. SingleWrites(r)'
      BY <2>1, <2>2, <3>1 DEF SingleWrites
    <3> QED
      BY <2>1, <2>2, <2>5, <3>1, <3>2, SingleStep
  <2> QED
    BY <2>1, <2>4, <2>5
<1>4. CASE WriteListing(r)
  <2> DEFINE x == [View(r, l) EXCEPT !.status = job[r].target]
  <2>1. /\ pc[r] = "writeListing" /\ WriteRow(r, l, x)
        /\ pc'[r] = "commit" /\ job' = job /\ put' = put
    BY <1>0, <1>4 DEF WriteListing, Goto, locals
  <2>2. l \in Key /\ job[r].op = "setListing"
    BY <2>1, JobOps, SellerTypes, RowTypes DEF TypeOK, RequestOK
  <2>3. put'[r] = {} /\ View(r, l) = db[l] /\ \A k \in Key : pend[r][k] = None
    BY <2>1, <2>2, IdleView DEF TransactionOK, OnlyReturnsPutBack, IdleWritesNothing, Untouched
  <2>4. db' = db /\ \A k \in Key : pend'[r][k] = IF k = l THEN x ELSE None
    <3> HIDE DEF x
    <3> QED
      BY <2>1, <2>2, <2>3, WriteEffect
  <2>5. SingleWrites(r)'
    BY <2>1, <2>2, <2>3, <2>4 DEF SingleWrites
  <2> QED
    BY <2>1, <2>2, <2>3, <2>4, <2>5, SingleStep
<1> QED
  BY <1>1, <1>2, <1>3, <1>4

LEMMA DeleteListingStep ==
    ASSUME TypeOK, NEW r \in Request, TransactionOK(r),
           SelectVariants(r) \/ CascadeLine(r) \/ RemoveListing(r)
    PROVE  db' = db /\ TransactionOK(r)'
<1> DEFINE l == job[r].listing
<1>0. /\ pc \in [Request -> Label] /\ todo \in [Request -> SUBSET Variant]
      /\ job[r] \in DeleteListingJob \/ Fail(r)
  BY DEF TypeOK, LocalsOK, RequestOK, SelectVariants, CascadeLine, RemoveListing
<1>1. CASE Fail(r)
  BY <1>1, FailStep
<1>2. ASSUME ~Fail(r)
      PROVE  job[r].op = "deleteListing" /\ l \in Listing /\ l \in Key /\ l \notin Variant
  BY <1>0, <1>2, JobOps, SellerTypes, RowTypes, KeysDisjoint
<1>3. ASSUME job[r].op = "deleteListing", job' = job, put' = put, RetireWrites(r)',
             pc[r] \in {"select", "cascade", "removeListing"},
             pc'[r] \in {"cascade", "removeListing", "commit"}
      PROVE  TransactionOK(r)'
  BY <1>3 DEF TransactionOK, IdleWritesNothing, OnlyReturnsPutBack, CheckoutWrites, Decided,
              ReturnWrites, SingleWrites
<1>4. CASE SelectVariants(r) /\ ~Fail(r)
  <2>1. /\ pc[r] = "select" /\ UNCHANGED <<db, pend, job, put>>
        /\ Loop(r, ListingVariants(r), "cascade", "removeListing")
    BY <1>4 DEF SelectVariants
  <2>2. /\ todo'[r] = ListingVariants(r)
        /\ pc'[r] = "cascade" \/ (pc'[r] = "removeListing" /\ todo'[r] = {})
    BY <1>0, <2>1 DEF Loop, Goto
  <2>3. \A k \in Key : pend'[r][k] = None /\ View(r, k) = db[k]
    BY <2>1, IdleView DEF TransactionOK, IdleWritesNothing, Untouched
  <2>4. todo'[r] = {v \in Variant : ListingOf[v] = l /\ db[v].live}
    BY <2>2, <2>3, RowTypes DEF ListingVariants
  <2>5. RetireWrites(r)'
    BY <2>1, <2>2, <2>3, <2>4 DEF RetireWrites
  <2> QED
    BY <1>2, <1>3, <1>4, <2>1, <2>2, <2>5
<1>5. CASE CascadeLine(r) /\ ~Fail(r)
  <2> DEFINE v == at[r]
             x == [View(r, v) EXCEPT !.live = FALSE]
  <2>1. /\ pc[r] = "cascade" /\ WriteRow(r, v, x) /\ UNCHANGED <<job, put>>
        /\ Loop(r, todo[r] \ {v}, "cascade", "removeListing")
    BY <1>5 DEF CascadeLine
  <2>2. v \in todo[r] /\ v \in Variant /\ v \in Key
    BY <1>0, <2>1, RowTypes DEF TypeOK, RequestOK
  <2>3. /\ todo'[r] = todo[r] \ {v}
        /\ pc'[r] = "cascade" \/ (pc'[r] = "removeListing" /\ todo'[r] = {})
    BY <1>0, <2>1 DEF Loop, Goto
  <2>4. /\ \A k \in Key : pend[r][k] # None =>
             /\ k \in Variant /\ ListingOf[k] = l
             /\ pend[r][k] = [db[k] EXCEPT !.live = FALSE]
        /\ \A w \in todo[r] : ListingOf[w] = l
        /\ \A w \in Variant : ListingOf[w] = l /\ db[w].live => pend[r][w] # None \/ w \in todo[r]
    BY <1>2, <1>5, <2>1 DEF TransactionOK, RetireWrites
  <2>5. x = [db[v] EXCEPT !.live = FALSE]
    <3>1. CASE pend[r][v] = None
      BY <3>1 DEF View
    <3>2. CASE pend[r][v] # None
      <4>1. View(r, v) = [db[v] EXCEPT !.live = FALSE]
        BY <2>2, <2>4, <3>2 DEF View
      <4>2. db[v] \in VariantRow
        BY <2>2, RowTypes DEF TypeOK, RowsOK
      <4> QED
        BY <4>1, <4>2 DEF VariantRow
    <3> QED
      BY <3>1, <3>2
  <2>6. x # None
    BY <2>2, <2>5, VariantVersions
  <2> HIDE DEF x
  <2>7. db' = db /\ \A k \in Key : pend'[r][k] = IF k = v THEN x ELSE pend[r][k]
    BY <2>1, <2>2, WriteEffect
  <2>8. \A k \in Key : pend'[r][k] # None =>
          /\ k \in Variant /\ ListingOf[k] = l
          /\ pend'[r][k] = [db[k] EXCEPT !.live = FALSE]
    BY <2>2, <2>4, <2>5, <2>7
  <2>9. \A w \in Variant : ListingOf[w] = l /\ db[w].live => pend'[r][w] # None \/ w \in todo'[r]
    BY <2>3, <2>4, <2>6, <2>7, RowTypes
  <2>10. RetireWrites(r)'
    BY <2>1, <2>3, <2>4, <2>7, <2>8, <2>9 DEF RetireWrites
  <2> QED
    BY <1>2, <1>3, <1>5, <2>1, <2>3, <2>7, <2>10
<1>6. CASE RemoveListing(r) /\ ~Fail(r)
  <2> DEFINE x == [status |-> "DELETED", live |-> FALSE]
  <2>1. /\ pc[r] = "removeListing" /\ WriteRow(r, l, x)
        /\ pc'[r] = "commit" /\ job' = job /\ put' = put
    BY <1>0, <1>6 DEF RemoveListing, Goto, locals
  <2>2. /\ \A k \in Key : pend[r][k] # None =>
             /\ k \in Variant /\ ListingOf[k] = l
             /\ pend[r][k] = [db[k] EXCEPT !.live = FALSE]
        /\ \A w \in Variant : ListingOf[w] = l /\ db[w].live => pend[r][w] # None
    BY <1>2, <1>6, <2>1 DEF TransactionOK, RetireWrites
  <2>3. db' = db /\ \A k \in Key : pend'[r][k] = IF k = l THEN x ELSE pend[r][k]
    <3> HIDE DEF x
    <3> QED
      BY <1>2, <1>6, <2>1, WriteEffect
  <2>4. RetireWrites(r)'
    BY <1>2, <1>6, <2>1, <2>2, <2>3, RowTypes DEF RetireWrites
  <2> QED
    BY <1>2, <1>3, <1>6, <2>1, <2>3, <2>4
<1> QED
  BY <1>1, <1>4, <1>5, <1>6

LEMMA OwnStep ==
    ASSUME TypeOK, LiveLinesAreSold, NEW r \in Request, TransactionOK(r), Act(r), ~Commit(r)
    PROVE  db' = db /\ TransactionOK(r)'
<1>1. BeginAny(r) => db' = db /\ TransactionOK(r)'
  BY BeginStep
<1>2. Statement(r) => db' = db /\ TransactionOK(r)'
  BY CheckoutStep, CancelStep, VariantStep, ItemStep, SetListingStep, DeleteListingStep
     DEF Statement
<1>3. RejectCheckout(r) \/ ConnectionLost(r) \/ DeadlockAbort(r) => db' = db /\ TransactionOK(r)'
  BY FailStep DEF RejectCheckout, ConnectionLost, DeadlockAbort
<1> QED
  BY <1>1, <1>2, <1>3 DEF Act

-----------------------------------------------------------------------------
(* What a commit does to the committed rows, by endpoint.                  *)

OthersKept(K) == \A k \in Key \ K : db'[k] = db[k]

(* POST /orders: one order appears with all of its lines, their stock gone.*)
SaleCommits(r) ==
    LET o == job[r].order
        cart == job[r].cart
    IN  /\ job[r] \in CheckoutJob /\ put[r] = {}
        /\ db[o].status = "ABSENT" /\ db'[o] = PlacedOrder(r)
        /\ \A v \in DOMAIN cart :
             /\ db[v].live /\ db[v].stock >= cart[v]
             /\ db'[v] = [db[v] EXCEPT !.stock = @ - cart[v]]
             /\ db'[<<o, v>>] = [quantity |-> cart[v], live |-> TRUE]
        /\ OthersKept({o} \cup DOMAIN cart \cup {<<o, v>> : v \in DOMAIN cart})

(* A cancellation or status change: the status becomes the target, and the *)
(* lines put back are back in stock.                                       *)
StatusCommits(r) ==
    LET o == job[r].order
        back == {v \in Variant : <<o, v>> \in put[r]}
    IN  /\ job[r] \in CancelJob \cup StatusJob
        /\ db[o].status # "ABSENT"
        /\ put[r] = {<<o, v>> : v \in back}
        /\ SellerMayMove(seen[r], job[r].target, db[o].fulfillment)
        /\ db'[o] = [db[o] EXCEPT !.status = job[r].target]
        /\ \A v \in back :
             /\ db[v].live /\ db[<<o, v>>].quantity > 0
             /\ db'[v] = [db[v] EXCEPT !.stock = @ + db[<<o, v>>].quantity]
        /\ job[r].target # "CANCELLED" => back = {}
        /\ job[r].target = "CANCELLED" =>
             \A v \in Variant : db[<<o, v>>].live /\ db[v].live => v \in back
        /\ OthersKept({o} \cup back)

RecountCommits(r) ==
    LET v == job[r].variant
    IN  /\ job[r] \in SetStockJob /\ put[r] = {}
        /\ \/ db'[v] = db[v]
           \/ job[r].stock >= 0 /\ db'[v] = [db[v] EXCEPT !.stock = job[r].stock]
        /\ OthersKept({v})

ItemRemovalCommits(r) ==
    LET i == job[r].item
    IN  /\ job[r] \in DeleteItemJob /\ put[r] = {}
        /\ db'[i] = db[i] \/ db'[i] = [db[i] EXCEPT !.live = FALSE]
        /\ OthersKept({i})

ListingChangeCommits(r) ==
    LET l == job[r].listing
    IN  /\ job[r] \in SetListingJob /\ put[r] = {}
        /\ db'[l] = db[l] \/ db'[l] = [db[l] EXCEPT !.status = job[r].target]
        /\ OthersKept({l})

(* The deletion of one variant, or of a listing and all variants it still  *)
(* has.                                                                    *)
RetirementCommits(r) ==
    \E S \in SUBSET Variant :
        /\ put[r] = {}
        /\ \A v \in S : db'[v] = [db[v] EXCEPT !.live = FALSE]
        /\ \/ job[r] \in DeleteVariantJob /\ OthersKept(S)
           \/ /\ job[r] \in DeleteListingJob
              /\ \A v \in S : ListingOf[v] = job[r].listing
              /\ \A v \in Variant : ListingOf[v] = job[r].listing /\ db[v].live => v \in S
              /\ OthersKept({job[r].listing} \cup S)

LEMMA CommittedRows ==
    ASSUME TypeOK, NEW r \in Request, Commit(r)
    PROVE  \A k \in Key : db'[k] = IF pend[r][k] # None THEN pend[r][k] ELSE db[k]
BY RowsShape DEF Commit, CommitWrites, View

LEMMA SaleCommit ==
    ASSUME TypeOK, NEW r \in Request, TransactionOK(r), Commit(r), job[r].op = "checkout"
    PROVE  SaleCommits(r)
<1> DEFINE o == job[r].order
           cart == job[r].cart
<1>1. pc[r] = "commit" /\ job[r] \in CheckoutJob
  BY JobOps DEF Commit, TypeOK, LocalsOK
<1>2. /\ o \in Order /\ o \in Key /\ DOMAIN cart \subseteq Variant /\ PlacedOrder(r) # None
      /\ \A v \in DOMAIN cart : cart[v] \in Nat
  BY <1>1, CheckoutTypes, OrderKeys, PlacedVersion
<1>3. /\ db[o].status = "ABSENT"
      /\ pend[r][o] = PlacedOrder(r)
      /\ \A v \in DOMAIN cart :
           /\ db[v].live /\ db[v].stock >= cart[v]
           /\ pend[r][v] = [db[v] EXCEPT !.stock = @ - cart[v]]
           /\ pend[r][<<o, v>>] = [quantity |-> cart[v], live |-> TRUE]
      /\ \A k \in Key : pend[r][k] # None =>
           k = o \/ k \in DOMAIN cart \/ \E v \in DOMAIN cart : k = <<o, v>>
      /\ put[r] = {}
  BY <1>1 DEF TransactionOK, CheckoutWrites, Taken, OnlyReturnsPutBack
<1>4. db'[o] = PlacedOrder(r)
  BY <1>2, <1>3, CommittedRows
<1>5. ASSUME NEW v \in DOMAIN cart
      PROVE  /\ db'[v] = [db[v] EXCEPT !.stock = @ - cart[v]]
             /\ db'[<<o, v>>] = [quantity |-> cart[v], live |-> TRUE]
  <2>1. v \in Variant /\ v \in Key /\ <<o, v>> \in Key /\ cart[v] \in Nat
    BY <1>2, <1>5, OrderKeys, RowTypes
  <2>2. db[v].stock - cart[v] \in Int
    BY <2>1, VariantVersions
  <2>3. [db[v] EXCEPT !.stock = db[v].stock - cart[v]] # None
    BY <2>1, <2>2, VariantVersions
  <2>4. [quantity |-> cart[v], live |-> TRUE] # None
    BY <2>1, ItemVersion
  <2>5. pend[r][v] # None /\ pend[r][<<o, v>>] # None
    BY <1>3, <2>3, <2>4
  <2> QED
    BY <1>3, <2>1, <2>5, CommittedRows
<1>6. OthersKept({o} \cup DOMAIN cart \cup {<<o, v>> : v \in DOMAIN cart})
  BY <1>3, CommittedRows DEF OthersKept
<1> QED
  BY <1>1, <1>3, <1>4, <1>5, <1>6 DEF SaleCommits

LEMMA StatusCommit ==
    ASSUME TypeOK, NEW r \in Request, TransactionOK(r), Commit(r),
           job[r].op \in {"cancel", "status"}
    PROVE  StatusCommits(r)
<1> DEFINE o == job[r].order
           back == {v \in Variant : <<o, v>> \in put[r]}
<1>1. pc[r] = "commit" /\ job[r] \in CancelJob \cup StatusJob /\ put[r] \subseteq Item
  BY JobOps DEF Commit, TypeOK, LocalsOK
<1>2. o \in Order /\ o \in Key /\ job[r].target \in OrderStatus
  BY <1>1, CancelTypes, OrderKeys
<1>3. /\ \A v \in Variant : <<o, v>> \in put[r] =>
           /\ db[v].live /\ db[<<o, v>>].quantity > 0
           /\ pend[r][v] = [db[v] EXCEPT !.stock = @ + db[<<o, v>>].quantity]
      /\ \A i \in put[r] : i[1] = o
      /\ \A k \in Key : pend[r][k] # None => (k \in Variant /\ <<o, k>> \in put[r]) \/ k = o
      /\ pend[r][o] = [db[o] EXCEPT !.status = job[r].target]
      /\ job[r].target # "CANCELLED" => put[r] = {}
      /\ job[r].target = "CANCELLED" =>
           \A v \in Variant : db[<<o, v>>].live /\ db[v].live => <<o, v>> \in put[r]
  BY <1>1 DEF TransactionOK, ReturnWrites
<1>4. db[o].status # "ABSENT" /\ SellerMayMove(seen[r], job[r].target, db[o].fulfillment)
  BY <1>1 DEF TransactionOK, Decided
<1>5. put[r] = {<<o, v>> : v \in back}
  <2>1. \A i \in put[r] : i = <<o, i[2]>> /\ i[2] \in back
    BY <1>1, <1>3 DEF Item
  <2> QED
    BY <2>1
<1>6. db'[o] = [db[o] EXCEPT !.status = job[r].target]
  BY <1>2, <1>3, CommittedRows, OrderVersions
<1>7. ASSUME NEW v \in back
      PROVE  db'[v] = [db[v] EXCEPT !.stock = @ + db[<<o, v>>].quantity]
  <2>1. v \in Variant /\ v \in Key /\ db[<<o, v>>].quantity \in Nat
    BY <1>2, <1>7, RowTypes, OrderVersions DEF ItemRow
  <2>2. db[v].stock + db[<<o, v>>].quantity \in Int
    BY <2>1, VariantVersions
  <2>3. [db[v] EXCEPT !.stock = db[v].stock + db[<<o, v>>].quantity] # None
    BY <2>1, <2>2, VariantVersions
  <2>4. pend[r][v] # None
    BY <1>3, <1>7, <2>3
  <2> QED
    BY <1>3, <1>7, <2>1, <2>4, CommittedRows
<1>8. OthersKept({o} \cup back)
  BY <1>3, CommittedRows DEF OthersKept
<1>9. job[r].target # "CANCELLED" => back = {}
  BY <1>3
<1>10. job[r].target = "CANCELLED" =>
         \A v \in Variant : db[<<o, v>>].live /\ db[v].live => v \in back
  BY <1>3
<1> HIDE DEF back
<1>11. \A v \in back : db[v].live /\ db[<<o, v>>].quantity > 0
  BY <1>3 DEF back
<1>12. \A v \in back : db'[v] = [db[v] EXCEPT !.stock = @ + db[<<o, v>>].quantity]
  BY <1>7
<1> QED
  BY <1>1, <1>4, <1>5, <1>6, <1>8, <1>9, <1>10, <1>11, <1>12 DEF StatusCommits, back

LEMMA SellerCommit ==
    ASSUME TypeOK, NEW r \in Request, TransactionOK(r), Commit(r),
           job[r].op \in {"setStock", "deleteItem", "setListing"}
    PROVE  RecountCommits(r) \/ ItemRemovalCommits(r) \/ ListingChangeCommits(r)
<1>1. /\ pc[r] = "commit" /\ put[r] = {}
      /\ job[r] \in SetStockJob \cup DeleteItemJob \cup SetListingJob
  BY JobOps DEF Commit, TypeOK, LocalsOK, TransactionOK, OnlyReturnsPutBack
<1>2. SingleWrites(r)
  BY DEF TransactionOK
<1>3. CASE job[r] \in SetStockJob
  <2>1. job[r].op = "setStock" /\ job[r].variant \in Key
    BY <1>3, JobOps, SellerTypes, RowTypes
  <2> QED
    BY <1>1, <1>2, <1>3, <2>1, CommittedRows DEF SingleWrites, RecountCommits, OthersKept
<1>4. CASE job[r] \in DeleteItemJob
  <2>1. job[r].op = "deleteItem" /\ job[r].item \in Key
    BY <1>4, JobOps, SellerTypes, RowTypes
  <2> QED
    BY <1>1, <1>2, <1>4, <2>1, CommittedRows DEF SingleWrites, ItemRemovalCommits, OthersKept
<1>5. CASE job[r] \in SetListingJob
  <2>1. job[r].op = "setListing" /\ job[r].listing \in Key
    BY <1>5, JobOps, SellerTypes, RowTypes
  <2> QED
    BY <1>1, <1>2, <1>5, <2>1, CommittedRows DEF SingleWrites, ListingChangeCommits, OthersKept
<1> QED
  BY <1>1, <1>3, <1>4, <1>5

LEMMA RetirementCommit ==
    ASSUME TypeOK, NEW r \in Request, TransactionOK(r), Commit(r),
           job[r].op \in {"deleteVariant", "deleteListing"}
    PROVE  RetirementCommits(r)
<1> DEFINE S == {v \in Variant : pend[r][v] # None}
<1>1. /\ pc[r] = "commit" /\ put[r] = {}
      /\ job[r] \in DeleteVariantJob \cup DeleteListingJob
  BY JobOps DEF Commit, TypeOK, LocalsOK, TransactionOK, OnlyReturnsPutBack
<1>2. CASE job[r].op = "deleteVariant"
  <2>1. job[r] \in DeleteVariantJob /\ job[r].variant \in Variant
    BY <1>1, <1>2, JobOps, SellerTypes
  <2>2. \A k \in Key : pend[r][k] # None =>
          k = job[r].variant /\ pend[r][k] = [db[k] EXCEPT !.live = FALSE]
    BY <1>1, <1>2 DEF TransactionOK, SingleWrites
  <2>3. \A v \in S : db'[v] = [db[v] EXCEPT !.live = FALSE]
    BY <2>2, CommittedRows, RowTypes
  <2>4. OthersKept(S)
    BY <2>1, <2>2, CommittedRows DEF OthersKept
  <2> QED
    BY <1>1, <2>1, <2>3, <2>4 DEF RetirementCommits
<1>3. CASE job[r].op = "deleteListing"
  <2> DEFINE l == job[r].listing
  <2>1. job[r] \in DeleteListingJob
    BY <1>1, <1>3, JobOps
  <2>2. /\ \A k \in Key : pend[r][k] # None =>
             \/ /\ k \in Variant /\ ListingOf[k] = l
                /\ pend[r][k] = [db[k] EXCEPT !.live = FALSE]
             \/ k = l
        /\ \A v \in Variant : ListingOf[v] = l /\ db[v].live => pend[r][v] # None
    BY <1>1, <1>3 DEF TransactionOK, RetireWrites
  <2>3. \A v \in S : v # l /\ v \in Key
    BY <2>1, SellerTypes, RowTypes, KeysDisjoint
  <2>4. \A v \in S : ListingOf[v] = l /\ db'[v] = [db[v] EXCEPT !.live = FALSE]
    BY <2>2, <2>3, CommittedRows
  <2>5. OthersKept({l} \cup S)
    BY <2>2, CommittedRows DEF OthersKept
  <2>6. \A v \in Variant : ListingOf[v] = l /\ db[v].live => v \in S
    BY <2>2
  <2> QED
    BY <1>1, <2>1, <2>4, <2>5, <2>6 DEF RetirementCommits
<1> QED
  BY <1>1, <1>2, <1>3, JobOps

LEMMA CommitCases ==
    ASSUME TypeOK, NEW r \in Request, TransactionOK(r), Commit(r)
    PROVE  \/ SaleCommits(r) \/ StatusCommits(r) \/ RecountCommits(r)
           \/ ItemRemovalCommits(r) \/ ListingChangeCommits(r) \/ RetirementCommits(r)
<1>1. job[r].op \in {"checkout", "cancel", "status", "setStock", "deleteVariant", "deleteItem",
                     "setListing", "deleteListing"}
  BY JobOps DEF Commit, TypeOK, LocalsOK, RequestOK, Job
<1> QED
  BY <1>1, SaleCommit, StatusCommit, SellerCommit, RetirementCommit

-----------------------------------------------------------------------------
(* The invariant is kept.                                                  *)

CommittedInv ==
    AbsentOrdersAreEmpty /\ OrdersAreWhole /\ LiveLinesAreSold /\ LiveVariantsAreListed

(* How the rows of the tables relate: keys that differ, and the types of   *)
(* committed rows.                                                         *)
LEMMA KeyFacts ==
    /\ \A v \in Variant : v \in Key /\ v \notin Order /\ v \notin Listing /\ v \notin Item
    /\ \A l \in Listing : l \in Key /\ l \notin Order /\ l \notin Variant /\ l \notin Item
    /\ \A o \in Order : o \in Key /\ o \notin Variant /\ o \notin Listing /\ o \notin Item
    /\ \A i \in Item : i \in Key /\ i \notin Variant /\ i \notin Listing /\ i \notin Order
    /\ \A o \in Order, v \in Variant : <<o, v>> \in Item
    /\ \A v \in Variant : ListingOf[v] \in Listing
BY KeysDisjoint, CatalogAssumption DEF Key, Item

LEMMA DbTypes ==
    ASSUME TypeOK
    PROVE  /\ \A v \in Variant : db[v] \in VariantRow
           /\ \A l \in Listing : db[l] \in ListingRow
           /\ \A o \in Order : db[o] \in OrderRow
           /\ \A i \in Item : db[i] \in ItemRow
BY RowTypes DEF TypeOK, RowsOK

LEMMA SaleKeeps ==
    ASSUME TypeOK, CommittedInv, NEW r \in Request, SaleCommits(r)
    PROVE  Evolves /\ CommittedInv'
<1> DEFINE o == job[r].order
           cart == job[r].cart
           touched == {o} \cup DOMAIN cart \cup {<<o, v>> : v \in DOMAIN cart}
<1>1. /\ o \in Order /\ DOMAIN cart \subseteq Variant
      /\ \A v \in DOMAIN cart : cart[v] \in Nat \ {0}
  BY CheckoutTypes DEF SaleCommits
<1>2. /\ db[o].status = "ABSENT"
      /\ db'[o].status = "PLACED" /\ db'[o].units = CartUnits(cart)
  BY DEF SaleCommits, PlacedOrder
<1>3. /\ \A v \in DOMAIN cart :
           /\ db[v].live
           /\ db'[v] = [db[v] EXCEPT !.stock = @ - cart[v]]
           /\ db'[<<o, v>>] = [quantity |-> cart[v], live |-> TRUE]
      /\ OthersKept(touched)
  BY DEF SaleCommits
<1>4. \A v \in Variant : db'[v].live = db[v].live
  <2> TAKE v \in Variant
  <2>1. CASE v \in DOMAIN cart
    <3>1. db[v] \in VariantRow
      BY DbTypes
    <3> QED
      BY <1>3, <2>1, <3>1 DEF VariantRow
  <2>2. CASE v \notin DOMAIN cart
    <3>1. v \notin touched /\ v \in Key
      BY <1>1, <2>2, KeyFacts
    <3> QED
      BY <1>3, <3>1 DEF OthersKept
  <2> QED
    BY <2>1, <2>2
<1>5. \A p \in Order \ {o} : db'[p] = db[p] /\ \A v \in Variant : db'[<<p, v>>] = db[<<p, v>>]
  <2> TAKE p \in Order \ {o}
  <2>1. p \notin touched /\ p \in Key
    BY <1>1, KeyFacts
  <2>2. \A v \in Variant : <<p, v>> \notin touched /\ <<p, v>> \in Key
    BY <1>1, KeyFacts
  <2> QED
    BY <1>3, <2>1, <2>2 DEF OthersKept
<1>6. \A v \in Variant \ DOMAIN cart : db'[<<o, v>>] = db[<<o, v>>]
  <2> TAKE v \in Variant \ DOMAIN cart
  <2>1. <<o, v>> \notin touched /\ <<o, v>> \in Key
    BY <1>1, KeyFacts
  <2> QED
    BY <1>3, <2>1 DEF OthersKept
<1>7. \A l \in Listing : db'[l] = db[l]
  <2> TAKE l \in Listing
  <2>1. l \notin touched /\ l \in Key
    BY <1>1, KeyFacts
  <2> QED
    BY <1>3, <2>1 DEF OthersKept
<1>8. Evolves
  BY <1>2, <1>4, <1>5 DEF Evolves
<1>9. AbsentOrdersAreEmpty'
  BY <1>2, <1>5 DEF CommittedInv, AbsentOrdersAreEmpty
<1>10. OrdersAreWhole'
  <2> SUFFICES ASSUME NEW p \in Order, NEW v \in Variant
               PROVE  db'[p].units[v] = db'[<<p, v>>].quantity
    BY DEF OrdersAreWhole
  <2>1. CASE p # o
    BY <1>5, <2>1 DEF CommittedInv, OrdersAreWhole
  <2>2. CASE p = o /\ v \in DOMAIN cart
    <3>1. db'[<<o, v>>] = [quantity |-> cart[v], live |-> TRUE]
      BY <1>3, <2>2
    <3> QED
      BY <1>2, <2>2, <3>1 DEF CartUnits
  <2>3. CASE p = o /\ v \notin DOMAIN cart
    <3>1. db[<<o, v>>].quantity = 0
      BY <1>1, <1>2 DEF CommittedInv, AbsentOrdersAreEmpty
    <3> QED
      BY <1>2, <1>6, <2>3, <3>1 DEF CartUnits
  <2> QED
    BY <2>1, <2>2, <2>3
<1>11. LiveLinesAreSold'
  <2> SUFFICES ASSUME NEW p \in Order, NEW v \in Variant, db'[<<p, v>>].live
               PROVE  db'[<<p, v>>].quantity > 0
    BY DEF LiveLinesAreSold, Item
  <2>1. db[<<p, v>>].live => db[<<p, v>>].quantity > 0
    BY KeyFacts DEF CommittedInv, LiveLinesAreSold
  <2>2. CASE p = o /\ v \in DOMAIN cart
    <3>1. db'[<<o, v>>] = [quantity |-> cart[v], live |-> TRUE]
      BY <1>3, <2>2
    <3> QED
      BY <1>1, <2>2, <3>1
  <2>3. CASE ~(p = o /\ v \in DOMAIN cart)
    BY <1>5, <1>6, <2>1, <2>3
  <2> QED
    BY <2>2, <2>3
<1>12. LiveVariantsAreListed'
  BY <1>4, <1>7, KeyFacts DEF CommittedInv, LiveVariantsAreListed
<1> QED
  BY <1>8, <1>9, <1>10, <1>11, <1>12 DEF CommittedInv

LEMMA StatusKeeps ==
    ASSUME TypeOK, CommittedInv, NEW r \in Request, StatusCommits(r)
    PROVE  Evolves /\ CommittedInv'
<1> DEFINE o == job[r].order
           back == {v \in Variant : <<o, v>> \in put[r]}
<1>1. o \in Order /\ job[r].target \in OrderStatus /\ db[o].status # "ABSENT"
  BY CancelTypes DEF StatusCommits
<1>2. /\ db'[o] = [db[o] EXCEPT !.status = job[r].target]
      /\ \A v \in back : db'[v] = [db[v] EXCEPT !.stock = @ + db[<<o, v>>].quantity]
      /\ OthersKept({o} \cup back)
  BY DEF StatusCommits
<1>3. /\ db'[o].status # "ABSENT" /\ db'[o].fulfillment = db[o].fulfillment
      /\ db'[o].units = db[o].units
  <2>1. db[o] \in OrderRow
    BY <1>1, DbTypes
  <2> QED
    BY <1>1, <1>2, <2>1 DEF OrderRow, OrderStatus
<1>4. \A v \in Variant : db'[v].live = db[v].live
  <2> TAKE v \in Variant
  <2>1. CASE v \in back
    <3>1. db[v] \in VariantRow
      BY DbTypes
    <3> QED
      BY <1>2, <2>1, <3>1 DEF VariantRow
  <2>2. CASE v \notin back
    BY <1>1, <1>2, <2>2, KeyFacts DEF OthersKept
  <2> QED
    BY <2>1, <2>2
<1>5. /\ \A p \in Order \ {o} : db'[p] = db[p]
      /\ \A i \in Item : db'[i] = db[i]
      /\ \A l \in Listing : db'[l] = db[l]
  BY <1>1, <1>2, KeyFacts DEF OthersKept
<1>6. \A p \in Order : /\ db'[p].status = "ABSENT" <=> db[p].status = "ABSENT"
                       /\ db'[p].fulfillment = db[p].fulfillment
                       /\ db'[p].units = db[p].units
                       /\ \A v \in Variant : db'[<<p, v>>] = db[<<p, v>>]
  BY <1>1, <1>3, <1>5, KeyFacts
<1>7. Evolves
  BY <1>4, <1>6 DEF Evolves
<1>8. AbsentOrdersAreEmpty' /\ OrdersAreWhole'
  BY <1>6 DEF CommittedInv, AbsentOrdersAreEmpty, OrdersAreWhole
<1>9. LiveLinesAreSold' /\ LiveVariantsAreListed'
  BY <1>4, <1>5, KeyFacts DEF CommittedInv, LiveLinesAreSold, LiveVariantsAreListed
<1> QED
  BY <1>7, <1>8, <1>9 DEF CommittedInv

LEMMA SellerKeeps ==
    ASSUME TypeOK, CommittedInv, NEW r \in Request,
           RecountCommits(r) \/ ItemRemovalCommits(r) \/ ListingChangeCommits(r)
    PROVE  Evolves /\ CommittedInv'
<1>1. /\ \A v \in Variant : db'[v].live = db[v].live
      /\ \A o \in Order : db'[o] = db[o]
      /\ \A i \in Item : db'[i].quantity = db[i].quantity /\ (db'[i].live => db[i].live)
      /\ \A i \in Item : db[i].quantity = 0 /\ ~db[i].live => db'[i] = db[i]
      /\ \A l \in Listing : db'[l].live = db[l].live
  <2>1. CASE RecountCommits(r)
    <3> DEFINE v == job[r].variant
    <3>1. v \in Variant /\ db[v] \in VariantRow
      BY <2>1, SellerTypes, DbTypes DEF RecountCommits
    <3>2. db'[v].live = db[v].live
      BY <2>1, <3>1 DEF RecountCommits, VariantRow
    <3>3. \A k \in Key \ {v} : db'[k] = db[k]
      BY <2>1 DEF RecountCommits, OthersKept
    <3> HIDE DEF v
    <3> QED
      BY <3>1, <3>2, <3>3, KeyFacts
  <2>2. CASE ItemRemovalCommits(r)
    <3> DEFINE i == job[r].item
    <3>1. i \in Item /\ db[i] \in ItemRow
      BY <2>2, SellerTypes, DbTypes DEF ItemRemovalCommits
    <3>2. /\ db'[i].quantity = db[i].quantity /\ (db'[i].live => db[i].live)
          /\ ~db[i].live => db'[i] = db[i]
      BY <2>2, <3>1 DEF ItemRemovalCommits, ItemRow
    <3>3. \A k \in Key \ {i} : db'[k] = db[k]
      BY <2>2 DEF ItemRemovalCommits, OthersKept
    <3> HIDE DEF i
    <3> QED
      BY <3>1, <3>2, <3>3, KeyFacts
  <2>3. CASE ListingChangeCommits(r)
    <3> DEFINE l == job[r].listing
    <3>1. l \in Listing /\ db[l] \in ListingRow
      BY <2>3, SellerTypes, DbTypes DEF ListingChangeCommits
    <3>2. db'[l].live = db[l].live
      BY <2>3, <3>1 DEF ListingChangeCommits, ListingRow
    <3>3. \A k \in Key \ {l} : db'[k] = db[k]
      BY <2>3 DEF ListingChangeCommits, OthersKept
    <3> HIDE DEF l
    <3> QED
      BY <3>1, <3>2, <3>3, KeyFacts
  <2> QED
    BY <2>1, <2>2, <2>3
<1>2. Evolves
  BY <1>1, KeyFacts DEF Evolves
<1>3. AbsentOrdersAreEmpty'
  <2> SUFFICES ASSUME NEW o \in Order, NEW v \in Variant, db'[o].status = "ABSENT"
               PROVE  db'[o].units[v] = 0 /\ db'[<<o, v>>] = [quantity |-> 0, live |-> FALSE]
    BY DEF AbsentOrdersAreEmpty
  <2>1. db[o].units[v] = 0 /\ db[<<o, v>>] = [quantity |-> 0, live |-> FALSE]
    BY <1>1 DEF CommittedInv, AbsentOrdersAreEmpty
  <2>2. db'[<<o, v>>] = db[<<o, v>>]
    BY <1>1, <2>1, KeyFacts
  <2> QED
    BY <1>1, <2>1, <2>2
<1>4. OrdersAreWhole'
  <2> SUFFICES ASSUME NEW o \in Order, NEW v \in Variant
               PROVE  db'[o].units[v] = db'[<<o, v>>].quantity
    BY DEF OrdersAreWhole
  <2>1. db[o].units[v] = db[<<o, v>>].quantity
    BY DEF CommittedInv, OrdersAreWhole
  <2> QED
    BY <1>1, <2>1, KeyFacts
<1>5. LiveLinesAreSold' /\ LiveVariantsAreListed'
  BY <1>1, KeyFacts DEF CommittedInv, LiveLinesAreSold, LiveVariantsAreListed
<1> QED
  BY <1>2, <1>3, <1>4, <1>5 DEF CommittedInv

LEMMA RetirementKeeps ==
    ASSUME TypeOK, CommittedInv, NEW r \in Request, RetirementCommits(r)
    PROVE  Evolves /\ CommittedInv'
<1>1. PICK S \in SUBSET Variant :
        /\ \A v \in S : db'[v] = [db[v] EXCEPT !.live = FALSE]
        /\ \/ job[r] \in DeleteVariantJob /\ OthersKept(S)
           \/ /\ job[r] \in DeleteListingJob
              /\ \A v \in S : ListingOf[v] = job[r].listing
              /\ \A v \in Variant : ListingOf[v] = job[r].listing /\ db[v].live => v \in S
              /\ OthersKept({job[r].listing} \cup S)
  BY DEF RetirementCommits
<1>2. \A v \in S : ~db'[v].live
  <2> TAKE v \in S
  <2>1. db[v] \in VariantRow
    BY DbTypes
  <2> QED
    BY <1>1, <2>1 DEF VariantRow
<1>3. /\ \A o \in Order : db'[o] = db[o]
      /\ \A i \in Item : db'[i] = db[i]
      /\ \A v \in Variant \ S : db'[v] = db[v]
  <2>1. job[r] \in DeleteListingJob => job[r].listing \in Listing
    BY SellerTypes
  <2> QED
    BY <1>1, <2>1, KeyFacts DEF OthersKept
<1>4. Evolves
  BY <1>2, <1>3, KeyFacts DEF Evolves
<1>5. AbsentOrdersAreEmpty' /\ OrdersAreWhole' /\ LiveLinesAreSold'
  BY <1>3, KeyFacts DEF CommittedInv, AbsentOrdersAreEmpty, OrdersAreWhole, LiveLinesAreSold
<1>6. LiveVariantsAreListed'
  <2> SUFFICES ASSUME NEW v \in Variant, db'[v].live PROVE db'[ListingOf[v]].live
    BY DEF LiveVariantsAreListed
  <2>1. v \notin S /\ db[v].live /\ db[ListingOf[v]].live
    BY <1>2, <1>3 DEF CommittedInv, LiveVariantsAreListed
  <2>2. ListingOf[v] \in Listing /\ ListingOf[v] \in Key /\ ListingOf[v] \notin S
    BY KeyFacts
  <2>3. db'[ListingOf[v]] = db[ListingOf[v]]
    BY <1>1, <2>1, <2>2 DEF OthersKept
  <2> QED
    BY <2>1, <2>3
<1> QED
  BY <1>4, <1>5, <1>6 DEF CommittedInv

LEMMA CommitKeeps ==
    ASSUME TypeOK, CommittedInv, NEW r \in Request, TransactionOK(r), Commit(r)
    PROVE  Evolves /\ CommittedInv'
BY CommitCases, SaleKeeps, StatusKeeps, SellerKeeps, RetirementKeeps

LEMMA CommitInvStep ==
    ASSUME TypeOK, LockInv, CommitInv, NEW r \in Request, Act(r)
    PROVE  CommitInv'
<1>1. CommittedInv /\ \A s \in Request : TransactionOK(s)
  BY DEF CommitInv, CommittedInv
<1>2. Evolves /\ CommittedInv' /\ TransactionOK(r)'
  <2>1. CASE Commit(r)
    BY <1>1, <2>1, CommitKeeps, EndStep DEF Commit, CommitWrites
  <2>2. CASE ~Commit(r)
    <3>1. db' = db /\ TransactionOK(r)'
      BY <1>1, <2>2, OwnStep DEF CommittedInv
    <3> QED
      BY <1>1, <3>1 DEF Evolves, CommittedInv, AbsentOrdersAreEmpty, OrdersAreWhole,
                        LiveLinesAreSold, LiveVariantsAreListed
  <2> QED
    BY <2>1, <2>2
<1>3. ASSUME NEW s \in Request \ {r} PROVE TransactionOK(s)'
  <2>1. \A k \in Key : Holds(s, k) => db'[k] = db[k]
    <3> SUFFICES ASSUME NEW k \in Key, Holds(s, k) PROVE db'[k] = db[k]
      OBVIOUS
    <3>1. CASE UNCHANGED <<db, pend>>
      BY <3>1
    <3>2. CASE RowStep(r)
      BY <3>2, HeldRowsStay DEF LockInv
    <3> QED
      BY <3>1, <3>2, ActRows
  <2> QED
    BY <1>1, <1>2, <2>1, OtherWrites, OtherLocals, OtherTransactions
<1> QED
  BY <1>2, <1>3 DEF CommitInv, CommittedInv

LEMMA CommitInvInit == Init => CommitInv
<1> SUFFICES ASSUME Init PROVE CommitInv
  OBVIOUS
<1>1. \A r \in Request : /\ pc[r] = "new" /\ put[r] = {}
                         /\ \A k \in Key : pend[r][k] = None
  BY DEF Init, NoWrites, Row
<1>2. \A r \in Request : TransactionOK(r)
  BY <1>1 DEF TransactionOK, IdleWritesNothing, Untouched, OnlyReturnsPutBack, CheckoutWrites,
              Decided, ReturnWrites, RetireWrites, SingleWrites
<1>3. /\ \A v \in Variant : db[v] = [stock |-> InitialStock[v], live |-> TRUE]
      /\ \A l \in Listing : db[l] = [status |-> "ACTIVE", live |-> TRUE]
      /\ \A o \in Order : db[o] = [status |-> "ABSENT", fulfillment |-> "DELIVERY",
                                   units |-> [v \in Variant |-> 0]]
      /\ \A i \in Item : db[i] = [quantity |-> 0, live |-> FALSE]
  BY KeyFacts DEF Init, InitialRow
<1>4. AbsentOrdersAreEmpty /\ OrdersAreWhole
  BY <1>3, KeyFacts DEF AbsentOrdersAreEmpty, OrdersAreWhole
<1>5. LiveLinesAreSold /\ LiveVariantsAreListed
  BY <1>3, KeyFacts DEF LiveLinesAreSold, LiveVariantsAreListed
<1> QED
  BY <1>2, <1>4, <1>5 DEF CommitInv

LEMMA LockInvInit == Init => LockInv
<1> SUFFICES ASSUME Init PROVE LockInv
  OBVIOUS
<1>1. \A s \in Request, k \in Key : ~Holds(s, k)
  BY DEF Init, NoWrites, Row, Holds
<1>2. RowLocksExclusive
  BY <1>1 DEF Init, RowLocksExclusive, Row
<1>3. ItemWriters /\ NoOrderUnplaced
  BY <1>1, OrderKeys DEF ItemWriters, NoOrderUnplaced
<1>4. InserterHoldsOrder
  BY DEF Init, InserterHoldsOrder
<1>5. NoItemsWithoutOrder
  BY OrderKeys DEF Init, InitialRow, NoItemsWithoutOrder
<1> QED
  BY <1>2, <1>3, <1>4, <1>5 DEF LockInv

(* What every step of the system may rely on.                              *)
SystemInv == TypeOK /\ LockInv /\ CommitInv

LEMMA SystemInvStep == SystemInv /\ [Next]_vars => SystemInv'
<1> SUFFICES ASSUME SystemInv, [Next]_vars PROVE SystemInv'
  OBVIOUS
<1>1. TypeOK' /\ LockInv'
  BY NextType, LockStep DEF SystemInv
<1>2. ASSUME NEW r \in Request, Act(r) PROVE CommitInv'
  BY <1>2, CommitInvStep DEF SystemInv
<1>3. ASSUME UNCHANGED vars PROVE CommitInv'
  <2>1. UNCHANGED <<db, pend, pc, job, todo, seen, put>>
    BY <1>3 DEF vars, locals
  <2>2. Evolves
    BY <2>1 DEF Evolves
  <2>3. \A s \in Request : TransactionOK(s)'
    <3> TAKE s \in Request
    <3>1. TypeOK /\ TransactionOK(s)
      BY DEF SystemInv, CommitInv
    <3> QED
      BY <2>1, <2>2, <3>1, OtherTransactions
  <2>4. /\ AbsentOrdersAreEmpty' /\ OrdersAreWhole'
        /\ LiveLinesAreSold' /\ LiveVariantsAreListed'
    BY <2>1 DEF SystemInv, CommitInv, AbsentOrdersAreEmpty, OrdersAreWhole, LiveLinesAreSold,
                LiveVariantsAreListed
  <2> QED
    BY <2>3, <2>4 DEF CommitInv
<1>4. CommitInv'
  BY <1>2, <1>3 DEF Next, Act
<1> QED
  BY <1>1, <1>4 DEF SystemInv

(* The rows of every transaction, from its first statement to its commit,  *)
(* are those its endpoint calls for, computed from committed rows that no  *)
(* other transaction has changed since: for every number of requests.      *)
THEOREM TransactionsWriteWhatTheyRead == Spec => []SystemInv
<1>1. Init => SystemInv
  BY InitType, LockInvInit, CommitInvInit DEF SystemInv
<1> QED
  BY <1>1, SystemInvStep, PTL DEF Spec

(* A committed order has all the lines its total was computed from, and no *)
(* other, for every number of concurrent checkouts, cancellations and      *)
(* deletions.                                                              *)
THEOREM OrdersStayWhole == Spec => []OrdersAreWhole
<1>1. SystemInv => OrdersAreWhole
  BY DEF SystemInv, CommitInv
<1> QED
  BY <1>1, TransactionsWriteWhatTheyRead, PTL
-----------------------------------------------------------------------------
(* Sums over finite sets.                                                  *)

(* A set of numbers that has 0, and the successor of each of its members,  *)
(* has them all.                                                           *)
LEMMA SetInduction ==
    ASSUME NEW T, 0 \in T, \A n \in Nat : n \in T => n + 1 \in T
    PROVE  \A n \in Nat : n \in T
<1> SUFFICES ASSUME NEW m \in Nat, m \notin T PROVE FALSE
  OBVIOUS
<1> DEFINE Outside == {n \in Nat : n \notin T}
<1>1. Outside \subseteq Nat /\ Outside # {}
  OBVIOUS
<1>2. PICK n \in Outside : \A k \in Outside : <<k, n>> \notin OpToRel(<, Nat)
  <2> HIDE DEF Outside
  <2> QED
    BY <1>1, NatLessThanWellFounded, WFMin
<1>3. \A k \in Outside : ~(k < n)
  BY <1>2 DEF OpToRel
<1>4. n # 0 /\ n - 1 \in Nat /\ n - 1 < n
  OBVIOUS
<1>5. n - 1 \in T
  BY <1>3, <1>4
<1> QED
  BY <1>4, <1>5

-----------------------------------------------------------------------------
(* The sums of the parts of f, as SumFunctionOnSet defines them.           *)
First(s) == CHOOSE x \in s : TRUE

IsSums(iter, f, S) ==
    iter = [s \in SUBSET S |-> IF s = {} THEN 0 ELSE f[First(s)] + iter[s \ {First(s)}]]

Sums(f, S) == CHOOSE iter : IsSums(iter, f, S)

LEMMA SumIsSums ==
    ASSUME NEW f, NEW S
    PROVE  SumFunctionOnSet(f, S) = Sums(f, S)[S]
BY DEF SumFunctionOnSet, FoldFunctionOnSet, MapThenFoldSet, Sums, IsSums, First

LEMMA FirstMember ==
    ASSUME NEW s, s # {}
    PROVE  First(s) \in s
BY DEF First

(* They exist.                                                             *)
LEMMA SumsExist ==
    ASSUME NEW S, IsFiniteSet(S), NEW f \in [S -> Int]
    PROVE  IsSums(Sums(f, S), f, S)
<1> DEFINE Sum(iter, s) == IF s = {} THEN 0 ELSE f[First(s)] + iter[s \ {First(s)}]
           UpTo(n) == {s \in SUBSET S : Cardinality(s) <= n}
           Reached == {n \in Nat : \E g \in [SUBSET S -> Int] : \A s \in UpTo(n) : g[s] = Sum(g, s)}
<1>1. \A s \in SUBSET S : IsFiniteSet(s) /\ Cardinality(s) \in Nat /\ Cardinality(s) <= Cardinality(S)
  BY FS_Subset, FS_CardinalityType
<1>2. 0 \in Reached
  <2> DEFINE g == [s \in SUBSET S |-> 0]
  <2>1. g \in [SUBSET S -> Int]
    OBVIOUS
  <2>2. \A s \in UpTo(0) : s = {}
    BY <1>1, FS_EmptySet
  <2>3. \A s \in UpTo(0) : g[s] = Sum(g, s)
    BY <2>2
  <2> HIDE DEF g
  <2> QED
    BY <2>1, <2>3
<1>3. ASSUME NEW n \in Nat, n \in Reached PROVE n + 1 \in Reached
  <2>1. PICK g \in [SUBSET S -> Int] : \A s \in UpTo(n) : g[s] = Sum(g, s)
    BY <1>3
  <2> DEFINE h == [s \in SUBSET S |-> IF s \in UpTo(n) THEN g[s] ELSE Sum(g, s)]
  <2>2. ASSUME NEW s \in SUBSET S, s # {}
        PROVE  /\ First(s) \in S /\ f[First(s)] \in Int
               /\ s \ {First(s)} \in SUBSET S
               /\ Cardinality(s \ {First(s)}) = Cardinality(s) - 1
    BY <1>1, <2>2, FirstMember, FS_RemoveElement
  <2>3. h \in [SUBSET S -> Int]
    <3>1. ASSUME NEW s \in SUBSET S PROVE Sum(g, s) \in Int
      <4>1. CASE s = {}
        BY <4>1
      <4>2. CASE s # {}
        <5> DEFINE t == s \ {First(s)}
        <5>1. f[First(s)] \in Int /\ t \in SUBSET S
          BY <2>2, <4>2
        <5> HIDE DEF t
        <5>2. g[t] \in Int
          BY <5>1
        <5>3. f[First(s)] + g[t] \in Int
          BY <5>1, <5>2
        <5> QED
          BY <4>2, <5>3 DEF t
      <4> QED
        BY <4>1, <4>2
    <3> HIDE DEF Sum, UpTo
    <3> QED
      BY <3>1
  <2>4. ASSUME NEW s \in UpTo(n + 1) PROVE h[s] = Sum(h, s)
    <3>1. CASE s = {}
      <4>1. s \in UpTo(n) /\ s \in SUBSET S
        BY <3>1, FS_EmptySet
      <4>2. h[s] = g[s] /\ g[s] = Sum(g, s)
        BY <2>1, <4>1
      <4>3. Sum(g, s) = 0 /\ Sum(h, s) = 0
        BY <3>1
      <4> QED
        BY <4>2, <4>3
    <3>2. CASE s # {}
      <4> DEFINE t == s \ {First(s)}
      <4>1. /\ t \in UpTo(n)
            /\ h[t] = g[t]
        BY <1>1, <2>2, <3>2
      <4>2. h[s] = Sum(g, s)
        BY <2>1
      <4>3. Sum(g, s) = f[First(s)] + g[t] /\ Sum(h, s) = f[First(s)] + h[t]
        BY <3>2
      <4> QED
        BY <4>1, <4>2, <4>3
    <3> QED
      BY <3>1, <3>2
  <2> HIDE DEF h, Sum, UpTo
  <2> QED
    BY <2>3, <2>4
<1>4. Cardinality(S) \in Reached
  <2> HIDE DEF Reached
  <2> QED
    BY <1>2, <1>3, SetInduction, FS_CardinalityType
<1>5. PICK g \in [SUBSET S -> Int] : \A s \in UpTo(Cardinality(S)) : g[s] = Sum(g, s)
  BY <1>4
<1>6. UpTo(Cardinality(S)) = SUBSET S
  BY <1>1
<1>7. IsSums(g, f, S)
  BY <1>5, <1>6 DEF IsSums
<1> QED
  BY <1>7 DEF Sums

(* The sum of a part that is not empty: that of its first member and of    *)
(* the rest.                                                               *)
LEMMA SumOfPart ==
    ASSUME NEW S, IsFiniteSet(S), NEW f \in [S -> Int], NEW s \in SUBSET S, s # {}
    PROVE  /\ First(s) \in s
           /\ s \ {First(s)} \in SUBSET S
           /\ Cardinality(s) \in Nat \ {0}
           /\ Cardinality(s \ {First(s)}) = Cardinality(s) - 1
           /\ Sums(f, S)[s] = f[First(s)] + Sums(f, S)[s \ {First(s)}]
<1>1. IsFiniteSet(s) /\ Cardinality(s) \in Nat /\ Cardinality(s) # 0
  BY FS_Subset, FS_CardinalityType, FS_EmptySet
<1>2. First(s) \in s
  BY FirstMember
<1>3. Cardinality(s \ {First(s)}) = Cardinality(s) - 1
  BY <1>1, <1>2, FS_RemoveElement
<1>4. Sums(f, S)[s] = f[First(s)] + Sums(f, S)[s \ {First(s)}]
  <2> DEFINE iter == Sums(f, S)
  <2>1. IsSums(iter, f, S)
    BY SumsExist
  <2> HIDE DEF iter
  <2>2. iter[s] = f[First(s)] + iter[s \ {First(s)}]
    BY <2>1 DEF IsSums
  <2> QED
    BY <2>2 DEF iter
<1> QED
  BY <1>1, <1>2, <1>3, <1>4

LEMMA SumOfNothing ==
    ASSUME NEW S, IsFiniteSet(S), NEW f \in [S -> Int]
    PROVE  Sums(f, S)[{}] = 0
BY SumsExist DEF IsSums

(* What holds of the empty part, and of a part when it holds of a smaller  *)
(* one, holds of all.                                                      *)
LEMMA PartInduction ==
    ASSUME NEW S, IsFiniteSet(S), NEW T, {} \in T,
           \A s \in SUBSET S : s # {} /\ s \ {First(s)} \in T => s \in T
    PROVE  S \in T
<1> DEFINE Reached == {n \in Nat : \A s \in SUBSET S : Cardinality(s) = n => s \in T}
<1>1. \A s \in SUBSET S : IsFiniteSet(s)
  BY FS_Subset
<1>2. 0 \in Reached
  BY <1>1, FS_EmptySet
<1>3. ASSUME NEW n \in Nat, n \in Reached PROVE n + 1 \in Reached
  <2> SUFFICES ASSUME NEW s \in SUBSET S, Cardinality(s) = n + 1 PROVE s \in T
    OBVIOUS
  <2>1. s # {}
    BY FS_EmptySet
  <2>2. First(s) \in s
    BY <2>1, FirstMember
  <2>3. s \ {First(s)} \in SUBSET S /\ Cardinality(s \ {First(s)}) = n
    <3>1. Cardinality(s \ {First(s)})
            = IF First(s) \in s THEN Cardinality(s) - 1 ELSE Cardinality(s)
      BY <1>1, FS_RemoveElement
    <3> QED
      BY <2>2, <3>1
  <2>4. s \ {First(s)} \in T
    BY <1>3, <2>3
  <2> QED
    BY <2>1, <2>4
<1>4. Cardinality(S) \in Reached
  <2> HIDE DEF Reached
  <2> QED
    BY <1>2, <1>3, SetInduction, FS_CardinalityType
<1> QED
  BY <1>4

LEMMA SumType ==
    ASSUME NEW S, IsFiniteSet(S), NEW f \in [S -> Int]
    PROVE  SumFunctionOnSet(f, S) \in Int
<1> DEFINE T == {s \in SUBSET S : Sums(f, S)[s] \in Int}
<1>1. {} \in T
  BY SumOfNothing
<1>2. ASSUME NEW s \in SUBSET S, s # {}, s \ {First(s)} \in T PROVE s \in T
  <2>1. /\ First(s) \in s
        /\ s \ {First(s)} \in SUBSET S
        /\ Sums(f, S)[s] = f[First(s)] + Sums(f, S)[s \ {First(s)}]
    BY <1>2, SumOfPart
  <2>2. Sums(f, S)[s \ {First(s)}] \in Int
    BY <1>2
  <2> QED
    BY <2>1, <2>2
<1>3. S \in T
  <2> HIDE DEF T
  <2> QED
    BY <1>1, <1>2, PartInduction
<1> QED
  BY <1>3, SumIsSums

(* The same, for several functions at once.                                *)
LEMMA NextSum ==
    ASSUME NEW S, IsFiniteSet(S)
    PROVE  \A f \in [S -> Int], s \in SUBSET S :
             s # {} => Sums(f, S)[s] = f[First(s)] + Sums(f, S)[s \ {First(s)}]
BY SumOfPart

(* A sum changes by what one of its terms changes by.                      *)
LEMMA SumChanges ==
    ASSUME NEW S, IsFiniteSet(S), NEW f \in [S -> Int], NEW g \in [S -> Int], NEW a \in S,
           \A x \in S \ {a} : g[x] = f[x]
    PROVE  SumFunctionOnSet(g, S) = SumFunctionOnSet(f, S) + g[a] - f[a]
<1> DEFINE T == {s \in SUBSET S :
                  /\ Sums(f, S)[s] \in Int /\ Sums(g, S)[s] \in Int
                  /\ Sums(g, S)[s] = Sums(f, S)[s] + IF a \in s THEN g[a] - f[a] ELSE 0}
<1>1. {} \in T
  BY SumOfNothing
<1>2. ASSUME NEW s \in SUBSET S, s # {}, s \ {First(s)} \in T PROVE s \in T
  <2> DEFINE x == First(s)
             t == s \ {x}
  <2>1. /\ x \in s /\ t \in SUBSET S
        /\ Sums(f, S)[s] = f[x] + Sums(f, S)[t]
        /\ Sums(g, S)[s] = g[x] + Sums(g, S)[t]
    <3>1. s # {}
      BY <1>2
    <3> HIDE DEF T
    <3>2. Sums(f, S)[s] = f[First(s)] + Sums(f, S)[s \ {First(s)}]
      BY <3>1, NextSum
    <3>3. Sums(g, S)[s] = g[First(s)] + Sums(g, S)[s \ {First(s)}]
      BY <3>1, NextSum
    <3> QED
      BY <3>1, <3>2, <3>3, FirstMember
  <2>2. /\ Sums(f, S)[t] \in Int /\ Sums(g, S)[t] \in Int
        /\ Sums(g, S)[t] = Sums(f, S)[t] + IF a \in t THEN g[a] - f[a] ELSE 0
    BY <1>2
  <2>3. f[x] \in Int /\ g[x] \in Int /\ f[a] \in Int /\ g[a] \in Int
    BY <2>1
  <2>4. CASE x = a
    BY <2>1, <2>2, <2>3, <2>4
  <2>5. CASE x # a
    <3>1. g[x] = f[x] /\ (a \in t <=> a \in s)
      BY <2>1, <2>5
    <3> QED
      BY <2>1, <2>2, <2>3, <3>1
  <2> QED
    BY <2>4, <2>5
<1>3. S \in T
  <2> HIDE DEF T
  <2> QED
    BY <1>1, <1>2, PartInduction
<1> QED
  BY <1>3, SumIsSums

(* A sum of zeros is zero.                                                 *)
LEMMA SumOfZeros ==
    ASSUME NEW S, IsFiniteSet(S), NEW f \in [S -> Int], \A x \in S : f[x] = 0
    PROVE  SumFunctionOnSet(f, S) = 0
<1> DEFINE T == {s \in SUBSET S : Sums(f, S)[s] = 0}
<1>1. {} \in T
  BY SumOfNothing
<1>2. ASSUME NEW s \in SUBSET S, s # {}, s \ {First(s)} \in T PROVE s \in T
  <2>1. /\ First(s) \in s
        /\ s \ {First(s)} \in SUBSET S
        /\ Sums(f, S)[s] = f[First(s)] + Sums(f, S)[s \ {First(s)}]
    BY <1>2, SumOfPart
  <2>2. Sums(f, S)[s \ {First(s)}] = 0
    BY <1>2
  <2> QED
    BY <2>1, <2>2
<1>3. S \in T
  <2> HIDE DEF T
  <2> QED
    BY <1>1, <1>2, PartInduction
<1> QED
  BY <1>3, SumIsSums

-----------------------------------------------------------------------------
(* The commits, in the terms of the account.                               *)

LEMMA SaleEffect ==
    ASSUME TypeOK, CommittedInv, NEW r \in Request, SaleCommits(r)
    PROVE  LET o == job[r].order
               units == CartUnits(job[r].cart)
           IN  /\ o \in Order /\ job[r].cart \in Cart /\ put[r] = {}
               /\ db[o].status = "ABSENT" /\ db'[o].status = "PLACED"
               /\ \A v \in Variant :
                    /\ db'[v].live = db[v].live
                    /\ db'[v].stock = db[v].stock - units[v]
                    /\ units[v] > 0 => db[v].live /\ db[v].stock >= units[v]
                    /\ db[<<o, v>>].quantity = 0 /\ db'[<<o, v>>].quantity = units[v]
               /\ \A p \in Order \ {o} :
                    /\ db'[p] = db[p]
                    /\ \A v \in Variant : db'[<<p, v>>] = db[<<p, v>>]
<1> DEFINE o == job[r].order
           cart == job[r].cart
           units == CartUnits(cart)
           touched == {o} \cup DOMAIN cart \cup {<<o, v>> : v \in DOMAIN cart}
<1>1. /\ o \in Order /\ DOMAIN cart \subseteq Variant /\ cart \in Cart /\ put[r] = {}
      /\ \A v \in DOMAIN cart : cart[v] \in Nat \ {0}
  BY CheckoutTypes DEF SaleCommits, CheckoutJob
<1>2. /\ db[o].status = "ABSENT" /\ db'[o].status = "PLACED"
      /\ \A v \in DOMAIN cart :
           /\ db[v].live /\ db[v].stock >= cart[v]
           /\ db'[v] = [db[v] EXCEPT !.stock = @ - cart[v]]
           /\ db'[<<o, v>>] = [quantity |-> cart[v], live |-> TRUE]
      /\ OthersKept(touched)
  BY DEF SaleCommits, PlacedOrder
<1>3. \A p \in Order \ {o} : db'[p] = db[p] /\ \A v \in Variant : db'[<<p, v>>] = db[<<p, v>>]
  <2> TAKE p \in Order \ {o}
  <2>1. p \notin touched /\ p \in Key
    BY <1>1, KeyFacts
  <2>2. \A v \in Variant : <<p, v>> \notin touched /\ <<p, v>> \in Key
    BY <1>1, KeyFacts
  <2> QED
    BY <1>2, <2>1, <2>2 DEF OthersKept
<1>4. ASSUME NEW v \in Variant
      PROVE  /\ db'[v].live = db[v].live
             /\ db'[v].stock = db[v].stock - units[v]
             /\ units[v] > 0 => db[v].live /\ db[v].stock >= units[v]
             /\ db[<<o, v>>].quantity = 0 /\ db'[<<o, v>>].quantity = units[v]
  <2>1. db[v] \in VariantRow /\ db[v].stock \in Int
    BY DbTypes DEF VariantRow
  <2>2. db[<<o, v>>].quantity = 0
    BY <1>1, <1>2 DEF CommittedInv, AbsentOrdersAreEmpty
  <2>3. CASE v \in DOMAIN cart
    <3>1. units[v] = cart[v]
      BY <2>3 DEF CartUnits
    <3>2. db'[v] = [db[v] EXCEPT !.stock = @ - cart[v]] /\ db[v].live /\ db[v].stock >= cart[v]
      BY <1>2, <2>3
    <3>3. db'[<<o, v>>] = [quantity |-> cart[v], live |-> TRUE]
      BY <1>2, <2>3
    <3>4. db'[v].live = db[v].live /\ db'[v].stock = db[v].stock - cart[v]
      BY <2>1, <3>2 DEF VariantRow
    <3>5. db'[<<o, v>>].quantity = cart[v]
      BY <3>3
    <3> QED
      BY <2>2, <3>1, <3>2, <3>4, <3>5
  <2>4. CASE v \notin DOMAIN cart
    <3>1. v \notin touched /\ v \in Key /\ <<o, v>> \notin touched /\ <<o, v>> \in Key
      BY <1>1, <2>4, KeyFacts
    <3>2. db'[v] = db[v] /\ db'[<<o, v>>] = db[<<o, v>>]
      BY <1>2, <3>1 DEF OthersKept
    <3>3. units[v] = 0
      BY <2>4 DEF CartUnits
    <3> QED
      BY <2>1, <2>2, <3>2, <3>3
  <2> QED
    BY <2>3, <2>4
<1> HIDE DEF units, cart, o, touched
<1>5. /\ o \in Order /\ cart \in Cart /\ put[r] = {}
      /\ db[o].status = "ABSENT" /\ db'[o].status = "PLACED"
      /\ \A v \in Variant :
           /\ db'[v].live = db[v].live
           /\ db'[v].stock = db[v].stock - units[v]
           /\ units[v] > 0 => db[v].live /\ db[v].stock >= units[v]
           /\ db[<<o, v>>].quantity = 0 /\ db'[<<o, v>>].quantity = units[v]
      /\ \A p \in Order \ {o} :
           /\ db'[p] = db[p]
           /\ \A v \in Variant : db'[<<p, v>>] = db[<<p, v>>]
  BY <1>1, <1>2, <1>3, <1>4
<1> QED
  BY <1>5 DEF units, cart, o

LEMMA StatusEffect ==
    ASSUME TypeOK, NEW r \in Request, StatusCommits(r)
    PROVE  LET o == job[r].order IN
             /\ o \in Order /\ job[r].op \in {"cancel", "status"}
             /\ job[r].target \in OrderStatus
             /\ \A i \in put[r] : i[1] = o
             /\ SellerMayMove(seen[r], job[r].target, db[o].fulfillment)
             /\ db'[o].status = job[r].target /\ db'[o].fulfillment = db[o].fulfillment
             /\ job[r].target # "CANCELLED" => put[r] = {}
             /\ \A v \in Variant :
                  /\ db'[v].live = db[v].live
                  /\ db'[v].stock = IF <<o, v>> \in put[r]
                                      THEN db[v].stock + db[<<o, v>>].quantity
                                      ELSE db[v].stock
                  /\ <<o, v>> \in put[r] => db[v].live /\ db[<<o, v>>].quantity > 0
                  /\ job[r].target = "CANCELLED" /\ db[<<o, v>>].live /\ db[v].live
                       => <<o, v>> \in put[r]
             /\ \A p \in Order \ {o} : db'[p] = db[p]
             /\ \A i \in Item : db'[i] = db[i]
<1> DEFINE o == job[r].order
           back == {v \in Variant : <<o, v>> \in put[r]}
<1>1. o \in Order /\ job[r].target \in OrderStatus /\ job[r].op \in {"cancel", "status"}
  BY CancelTypes, JobOps DEF StatusCommits
<1>2. /\ put[r] = {<<o, v>> : v \in back}
      /\ SellerMayMove(seen[r], job[r].target, db[o].fulfillment)
      /\ db'[o] = [db[o] EXCEPT !.status = job[r].target]
      /\ \A v \in back :
           /\ db[v].live /\ db[<<o, v>>].quantity > 0
           /\ db'[v] = [db[v] EXCEPT !.stock = @ + db[<<o, v>>].quantity]
      /\ job[r].target # "CANCELLED" => back = {}
      /\ job[r].target = "CANCELLED" =>
           \A v \in Variant : db[<<o, v>>].live /\ db[v].live => v \in back
      /\ OthersKept({o} \cup back)
  BY DEF StatusCommits
<1>3. db'[o].status = job[r].target /\ db'[o].fulfillment = db[o].fulfillment
  <2>1. db[o] \in OrderRow
    BY <1>1, DbTypes
  <2> QED
    BY <1>2, <2>1 DEF OrderRow
<1>4. ASSUME NEW v \in Variant
      PROVE  /\ db'[v].live = db[v].live
             /\ db'[v].stock = IF v \in back THEN db[v].stock + db[<<o, v>>].quantity
                                             ELSE db[v].stock
  <2>1. CASE v \in back
    <3> DEFINE total == db[v].stock + db[<<o, v>>].quantity
    <3>1. db[v] \in VariantRow
      BY DbTypes
    <3>2. db'[v] = [db[v] EXCEPT !.stock = total]
      BY <1>2, <2>1
    <3> HIDE DEF total
    <3>3. db'[v].live = db[v].live /\ db'[v].stock = total
      BY <3>1, <3>2 DEF VariantRow
    <3> QED
      BY <2>1, <3>3 DEF total
  <2>2. CASE v \notin back
    <3>1. OthersKept({o} \cup back)
      BY <1>2
    <3> HIDE DEF o, back
    <3>2. v \in Key /\ v \notin {o} \cup back
      BY <1>1, <2>2, KeyFacts
    <3>3. db'[v] = db[v]
      BY <3>1, <3>2 DEF OthersKept
    <3> QED
      BY <2>2, <3>3
  <2> QED
    BY <2>1, <2>2
<1>5. (\A p \in Order \ {o} : db'[p] = db[p]) /\ (\A i \in Item : db'[i] = db[i])
  BY <1>1, <1>2, KeyFacts DEF OthersKept
<1>6. \A v \in Variant : v \in back <=> <<o, v>> \in put[r]
  OBVIOUS
<1>7. \A i \in put[r] : i[1] = o
  <2> TAKE i \in put[r]
  <2>1. PICK v \in back : i = <<o, v>>
    BY <1>2
  <2> HIDE DEF o
  <2> QED
    BY <2>1
<1>8. job[r].target # "CANCELLED" => put[r] = {}
  BY <1>2
<1> HIDE DEF back, o
<1>9. /\ o \in Order /\ job[r].op \in {"cancel", "status"}
      /\ job[r].target \in OrderStatus
      /\ \A i \in put[r] : i[1] = o
      /\ SellerMayMove(seen[r], job[r].target, db[o].fulfillment)
      /\ db'[o].status = job[r].target /\ db'[o].fulfillment = db[o].fulfillment
      /\ job[r].target # "CANCELLED" => put[r] = {}
      /\ \A v \in Variant :
           /\ db'[v].live = db[v].live
           /\ db'[v].stock = IF <<o, v>> \in put[r]
                               THEN db[v].stock + db[<<o, v>>].quantity
                               ELSE db[v].stock
           /\ <<o, v>> \in put[r] => db[v].live /\ db[<<o, v>>].quantity > 0
           /\ job[r].target = "CANCELLED" /\ db[<<o, v>>].live /\ db[v].live
                => <<o, v>> \in put[r]
      /\ \A p \in Order \ {o} : db'[p] = db[p]
      /\ \A i \in Item : db'[i] = db[i]
  BY <1>1, <1>2, <1>3, <1>4, <1>5, <1>6, <1>7, <1>8
<1> QED
  BY <1>9 DEF o

LEMMA SellerEffect ==
    ASSUME TypeOK, NEW r \in Request,
           RecountCommits(r) \/ ItemRemovalCommits(r) \/ ListingChangeCommits(r)
    PROVE  /\ put[r] = {} /\ job[r].op \notin {"cancel", "status"}
           /\ \A v \in Variant : db'[v].live = db[v].live
           /\ \/ \A v \in Variant : db'[v].stock = db[v].stock
              \/ \E w \in Variant, n \in 0..MaxStock : \A v \in Variant :
                   db'[v].stock = IF v = w THEN n ELSE db[v].stock
           /\ \A o \in Order : db'[o] = db[o]
           /\ \A i \in Item : db'[i].quantity = db[i].quantity /\ (db'[i].live => db[i].live)
<1>1. CASE RecountCommits(r)
  <2> DEFINE w == job[r].variant
             n == job[r].stock
  <2>1. /\ w \in Variant /\ db[w] \in VariantRow /\ put[r] = {} /\ job[r].op = "setStock"
        /\ n \in -1..MaxStock
    BY <1>1, SellerTypes, DbTypes DEF RecountCommits, SetStockJob
  <2>2. \A k \in Key \ {w} : db'[k] = db[k]
    BY <1>1 DEF RecountCommits, OthersKept
  <2>3. CASE db'[w] = db[w]
    <3> HIDE DEF w
    <3> QED
      BY <2>1, <2>2, <2>3, KeyFacts
  <2>4. CASE n >= 0 /\ db'[w] = [db[w] EXCEPT !.stock = n]
    <3>1. db'[w].live = db[w].live /\ db'[w].stock = n
      BY <2>1, <2>4 DEF VariantRow
    <3>2. n \in 0..MaxStock
      BY <2>1, <2>4, CatalogAssumption
    <3> HIDE DEF w, n
    <3>3. \A v \in Variant : db'[v].stock = IF v = w THEN n ELSE db[v].stock
      BY <2>2, <3>1, KeyFacts
    <3> QED
      BY <2>1, <2>2, <3>1, <3>2, <3>3, KeyFacts
  <2> QED
    BY <1>1, <2>3, <2>4 DEF RecountCommits
<1>2. CASE ItemRemovalCommits(r)
  <2> DEFINE i == job[r].item
  <2>1. i \in Item /\ db[i] \in ItemRow /\ put[r] = {} /\ job[r].op = "deleteItem"
    BY <1>2, SellerTypes, DbTypes DEF ItemRemovalCommits
  <2>2. db'[i].quantity = db[i].quantity /\ (db'[i].live => db[i].live)
    BY <1>2, <2>1 DEF ItemRemovalCommits, ItemRow
  <2>3. \A k \in Key \ {i} : db'[k] = db[k]
    BY <1>2 DEF ItemRemovalCommits, OthersKept
  <2> HIDE DEF i
  <2> QED
    BY <2>1, <2>2, <2>3, KeyFacts
<1>3. CASE ListingChangeCommits(r)
  <2> DEFINE l == job[r].listing
  <2>1. l \in Listing /\ put[r] = {} /\ job[r].op = "setListing"
    BY <1>3, SellerTypes DEF ListingChangeCommits
  <2>2. \A k \in Key \ {l} : db'[k] = db[k]
    BY <1>3 DEF ListingChangeCommits, OthersKept
  <2> HIDE DEF l
  <2> QED
    BY <2>1, <2>2, KeyFacts
<1> QED
  BY <1>1, <1>2, <1>3

LEMMA RetirementEffect ==
    ASSUME TypeOK, NEW r \in Request, RetirementCommits(r)
    PROVE  /\ put[r] = {} /\ job[r].op \notin {"cancel", "status"}
           /\ \E S \in SUBSET Variant : \A v \in Variant :
                /\ db'[v].live <=> db[v].live /\ v \notin S
                /\ db'[v].stock = db[v].stock
           /\ \A o \in Order : db'[o] = db[o]
           /\ \A i \in Item : db'[i] = db[i]
<1>1. PICK S \in SUBSET Variant :
        /\ \A v \in S : db'[v] = [db[v] EXCEPT !.live = FALSE]
        /\ \/ job[r] \in DeleteVariantJob /\ OthersKept(S)
           \/ job[r] \in DeleteListingJob /\ OthersKept({job[r].listing} \cup S)
  BY DEF RetirementCommits
<1>2. /\ job[r] \in DeleteListingJob => job[r].listing \in Listing
      /\ put[r] = {} /\ job[r].op \notin {"cancel", "status"}
  BY SellerTypes DEF RetirementCommits
<1>3. /\ \A o \in Order : db'[o] = db[o]
      /\ \A i \in Item : db'[i] = db[i]
      /\ \A v \in Variant \ S : db'[v] = db[v]
  BY <1>1, <1>2, KeyFacts DEF OthersKept
<1>4. \A v \in S : ~db'[v].live /\ db'[v].stock = db[v].stock
  <2> TAKE v \in S
  <2>1. db[v] \in VariantRow /\ db'[v] = [db[v] EXCEPT !.live = FALSE]
    BY <1>1, DbTypes
  <2> QED
    BY <2>1 DEF VariantRow
<1>5. \A v \in Variant : (db'[v].live <=> db[v].live /\ v \notin S) /\ db'[v].stock = db[v].stock
  <2> TAKE v \in Variant
  <2>1. CASE v \in S
    BY <1>4, <2>1
  <2>2. CASE v \notin S
    BY <1>3, <2>2
  <2> QED
    BY <2>1, <2>2
<1> QED
  BY <1>2, <1>3, <1>5

(* Only commits change committed rows and the history.                     *)
LEMMA OnlyCommits ==
    ASSUME SystemInv, [Next]_vars
    PROVE  \/ UNCHANGED <<db, history>>
           \/ \E r \in Request :
                /\ Commit(r)
                /\ \/ SaleCommits(r) \/ StatusCommits(r) \/ RecountCommits(r)
                   \/ ItemRemovalCommits(r) \/ ListingChangeCommits(r) \/ RetirementCommits(r)
<1>1. ASSUME NEW r \in Request, Act(r), ~Commit(r) PROVE UNCHANGED <<db, history>>
  <2>1. db' = db
    BY <1>1, OwnStep DEF SystemInv, CommitInv
  <2>2. BeginAny(r) => UNCHANGED history
    BY DEF BeginAny, BeginCheckout, BeginCancel, BeginStatus, BeginSetStock,
       BeginDeleteVariant, BeginDeleteItem, BeginSetListing, BeginDeleteListing, Begin
  <2>3. RejectCheckout(r) \/ ConnectionLost(r) \/ DeadlockAbort(r) => UNCHANGED history
    BY DEF RejectCheckout, ConnectionLost, DeadlockAbort, Fail
  <2>4. Statement(r) => UNCHANGED history
    BY <1>1 DEF Statement, Fail, ResolveLine, InsertOrder, DeductLine, ReadOrder, CheckSeller,
       ListItems, RestoreLine, MarkStatus, CheckVariant, LoadVariant, WriteStock, RemoveVariant,
       CheckItem, RemoveItem, CheckListing, ReloadListing, WriteListing, SelectVariants,
       CascadeLine, RemoveListing
  <2> QED
    BY <1>1, <2>1, <2>2, <2>3, <2>4 DEF Act
<1>2. ASSUME NEW r \in Request, Commit(r)
      PROVE  \/ SaleCommits(r) \/ StatusCommits(r) \/ RecountCommits(r)
             \/ ItemRemovalCommits(r) \/ ListingChangeCommits(r) \/ RetirementCommits(r)
  <2>1. TypeOK /\ TransactionOK(r)
    BY DEF SystemInv, CommitInv
  <2> QED
    BY <1>2, <2>1, CommitCases
<1>3. CASE UNCHANGED vars
  BY <1>3 DEF vars
<1> QED
  BY <1>1, <1>2, <1>3 DEF Next, Act

-----------------------------------------------------------------------------
(* Orders and listings.                                                    *)

(* Only a sale gives a line that has none its quantity.                    *)
LEMMA QuantitiesKept ==
    ASSUME TypeOK, NEW r \in Request,
           \/ StatusCommits(r) \/ RecountCommits(r) \/ ItemRemovalCommits(r)
           \/ ListingChangeCommits(r) \/ RetirementCommits(r)
    PROVE  \A i \in Item : db'[i].quantity = db[i].quantity
<1>1. StatusCommits(r) => \A i \in Item : db'[i].quantity = db[i].quantity
  BY StatusEffect
<1>2. RecountCommits(r) \/ ItemRemovalCommits(r) \/ ListingChangeCommits(r)
        => \A i \in Item : db'[i].quantity = db[i].quantity
  BY SellerEffect
<1>3. RetirementCommits(r) => \A i \in Item : db'[i].quantity = db[i].quantity
  BY RetirementEffect
<1> QED
  BY <1>1, <1>2, <1>3

(* When an order commits, the listings and the variants of its lines have  *)
(* not been deleted, for every number of checkouts and deletions: between  *)
(* the checkout's look at the listing and its commit stand the locks on    *)
(* the variant rows, and LiveVariantsAreListed.                            *)
THEOREM NoSaleFromDeleted == Spec => NoSaleFromDeletedListing
<1>1. ASSUME SystemInv, [Next]_vars
      PROVE  [\A i \in Item :
                db[i].quantity = 0 /\ db'[i].quantity > 0
                  => db[ListingOf[i[2]]].live /\ db[i[2]].live]_vars
  <2> SUFFICES ASSUME NEW i \in Item, db[i].quantity = 0, db'[i].quantity > 0
               PROVE  db[ListingOf[i[2]]].live /\ db[i[2]].live
    OBVIOUS
  <2>1. db'[i].quantity # db[i].quantity
    OBVIOUS
  <2>2. PICK r \in Request : SaleCommits(r)
    BY <1>1, <2>1, OnlyCommits, QuantitiesKept DEF SystemInv
  <2> DEFINE o == job[r].order
             units == CartUnits(job[r].cart)
  <2>3. TypeOK /\ CommittedInv
    BY <1>1 DEF SystemInv, CommitInv, CommittedInv
  <2>4. /\ \A v \in Variant :
             /\ units[v] > 0 => db[v].live
             /\ db'[<<o, v>>].quantity = units[v]
        /\ \A p \in Order \ {o} : \A v \in Variant : db'[<<p, v>>] = db[<<p, v>>]
    BY <2>2, <2>3, SaleEffect
  <2> HIDE DEF o, units
  <2>5. PICK p \in Order, v \in Variant : i = <<p, v>>
    BY DEF Item
  <2>6. p = o
    BY <2>1, <2>4, <2>5
  <2>7. db[v].live
    BY <2>4, <2>5, <2>6
  <2>8. db[ListingOf[v]].live
    BY <2>3, <2>7 DEF CommittedInv, LiveVariantsAreListed
  <2>9. i[2] = v
    BY <2>5
  <2> QED
    BY <2>7, <2>8, <2>9
<1> QED
  BY <1>1, TransactionsWriteWhatTheyRead, PTL DEF Spec, NoSaleFromDeletedListing

-----------------------------------------------------------------------------
(* The stages of an order.                                                 *)

(* A transition of the state machine advances the order by one stage along *)
(* its fulfilment type, or cancels it before it leaves the shop.           *)
LEMMA TransitionsAdvance ==
    ASSUME NEW from \in OrderStatus, NEW to \in OrderStatus, NEW fulfillment,
           SellerMayMove(from, to, fulfillment)
    PROVE  /\ \/ Stage(to) = Stage(from) + 1 /\ to # "CANCELLED"
              \/ to = "CANCELLED" /\ from \in {"PLACED", "CONFIRMED"}
           /\ to \in {"SHIPPED", "DELIVERED"} => fulfillment = "DELIVERY"
           /\ to \in {"READY_FOR_PICKUP", "PICKED_UP"} => fulfillment = "PICKUP"
           /\ from # "CANCELLED"
<1>1. to \in SellerTransitions[from]
  BY DEF SellerMayMove
<1>2. \/ from = "PLACED" /\ to \in {"CONFIRMED", "CANCELLED"}
      \/ from = "CONFIRMED" /\ to \in {"SHIPPED", "READY_FOR_PICKUP", "CANCELLED"}
      \/ from = "SHIPPED" /\ to = "DELIVERED"
      \/ from = "READY_FOR_PICKUP" /\ to = "PICKED_UP"
  BY <1>1 DEF SellerTransitions, OrderStatus
<1>3. \/ Stage(to) = Stage(from) + 1 /\ to # "CANCELLED"
      \/ to = "CANCELLED" /\ from \in {"PLACED", "CONFIRMED"}
  BY <1>2 DEF Stage
<1>4. from # "CANCELLED"
  BY <1>2
<1> QED
  BY <1>3, <1>4 DEF SellerMayMove

(* A status change that did not race left the order on the status its      *)
(* guard had seen.                                                         *)
LEMMA UnracedDecision ==
    ASSUME SystemInv, NEW r \in Request, Commit(r), StatusCommits(r),
           job[r].order \notin raced'
    PROVE  /\ db[job[r].order].status = seen[r]
           /\ seen[r] \in OrderStatus
<1>1. pc[r] = "commit" /\ job[r].op \in {"cancel", "status"}
  BY StatusEffect DEF Commit, SystemInv
<1>2. Decided(r)
  BY DEF SystemInv, CommitInv, TransactionOK
<1>3. seen[r] \in OrderStatus
  BY <1>1, <1>2 DEF Decided
<1>4. raced' = IF job[r].op \in {"cancel", "status"} /\ db[job[r].order].status # seen[r]
                 THEN raced \cup {job[r].order}
                 ELSE raced
  BY DEF Commit
<1> QED
  BY <1>1, <1>3, <1>4

(* The status of an order that no request overwrote on a stale status      *)
(* moves one stage at a time, for every number of cancellations and status *)
(* changes: the guard ran on a status read statements before the UPDATE.   *)
THEOREM UnracedStatusesAdvance == Spec => UnracedStatusMoves
<1> DEFINE Advances(o) ==
             LET from == db[o].status
                 to == db'[o].status
             IN  from # to =>
                   /\ \/ Stage(to) = Stage(from) + 1 /\ to # "CANCELLED"
                      \/ to = "CANCELLED" /\ from \in {"PLACED", "CONFIRMED"}
                   /\ to \in {"SHIPPED", "DELIVERED"} => db'[o].fulfillment = "DELIVERY"
                   /\ to \in {"READY_FOR_PICKUP", "PICKED_UP"}
                        => db'[o].fulfillment = "PICKUP"
<1>1. ASSUME SystemInv, [Next]_vars
      PROVE  [\A o \in Order \ raced' : Advances(o)]_vars
  <2> SUFFICES ASSUME NEW o \in Order \ raced', db[o].status # db'[o].status
               PROVE  Advances(o)
    BY Zenon
  <2>1. PICK r \in Request : Commit(r) /\ (SaleCommits(r) \/ StatusCommits(r))
    <3>1. db'[o] # db[o]
      OBVIOUS
    <3>2. \A r \in Request : RecountCommits(r) \/ ItemRemovalCommits(r) \/ ListingChangeCommits(r)
            => db'[o] = db[o]
      BY <1>1, SellerEffect DEF SystemInv
    <3>3. \A r \in Request : RetirementCommits(r) => db'[o] = db[o]
      BY <1>1, RetirementEffect DEF SystemInv
    <3> QED
      BY <1>1, <3>1, <3>2, <3>3, OnlyCommits
  <2>2. TypeOK /\ CommittedInv
    BY <1>1 DEF SystemInv, CommitInv, CommittedInv
  <2>3. CASE SaleCommits(r)
    <3> DEFINE p == job[r].order
    <3>1. /\ db[p].status = "ABSENT" /\ db'[p].status = "PLACED"
          /\ \A q \in Order \ {p} : db'[q] = db[q]
      BY <2>2, <2>3, SaleEffect
    <3> HIDE DEF p
    <3>2. db[o].status = "ABSENT" /\ db'[o].status = "PLACED"
      BY <3>1
    <3>3. Stage("PLACED") = Stage("ABSENT") + 1
      BY DEF Stage
    <3> QED
      BY <3>2, <3>3
  <2>4. CASE StatusCommits(r)
    <3> DEFINE p == job[r].order
               to == job[r].target
    <3>1. /\ p \in Order /\ to \in OrderStatus
          /\ SellerMayMove(seen[r], to, db[p].fulfillment)
          /\ db'[p].status = to /\ db'[p].fulfillment = db[p].fulfillment
          /\ \A q \in Order \ {p} : db'[q] = db[q]
      BY <2>2, <2>4, StatusEffect
    <3>2. p = o
      BY <3>1
    <3>3. db[p].status = seen[r] /\ seen[r] \in OrderStatus
      BY <1>1, <2>1, <2>4, <3>2, UnracedDecision
    <3> HIDE DEF p, to
    <3>4. /\ \/ Stage(to) = Stage(seen[r]) + 1 /\ to # "CANCELLED"
             \/ to = "CANCELLED" /\ seen[r] \in {"PLACED", "CONFIRMED"}
          /\ to \in {"SHIPPED", "DELIVERED"} => db[p].fulfillment = "DELIVERY"
          /\ to \in {"READY_FOR_PICKUP", "PICKED_UP"} => db[p].fulfillment = "PICKUP"
      BY <3>1, <3>3, TransitionsAdvance
    <3> QED
      BY <3>1, <3>2, <3>3, <3>4
  <2> QED
    BY <2>1, <2>3, <2>4
<1> QED
  BY <1>1, TransactionsWriteWhatTheyRead, PTL DEF Spec, UnracedStatusMoves

-----------------------------------------------------------------------------
(* The settlement of an order.                                             *)

(* How often a line of o has gone back into stock, once o is CANCELLED.    *)
LEMMA SettlementStep ==
    ASSUME SystemInv, UnracedOrdersSettle, [Next]_vars
    PROVE  UnracedOrdersSettle'
<1> SUFFICES ASSUME NEW o \in Order \ raced', NEW v \in Variant
             PROVE  /\ returned'[<<o, v>>] <= IF db'[o].status = "CANCELLED" THEN 1 ELSE 0
                    /\ db'[o].status = "CANCELLED" /\ db'[<<o, v>>].live /\ db'[v].live
                         => returned'[<<o, v>>] = 1
  BY DEF UnracedOrdersSettle
<1> DEFINE i == <<o, v>>
<1>1. /\ i \in Item /\ returned[i] \in Nat /\ TypeOK /\ CommittedInv
  BY KeyFacts DEF SystemInv, CommitInv, CommittedInv, TypeOK, HistoryOK
<1>2. o \notin raced =>
        /\ returned[i] <= IF db[o].status = "CANCELLED" THEN 1 ELSE 0
        /\ db[o].status = "CANCELLED" /\ db[i].live /\ db[v].live => returned[i] = 1
  BY DEF UnracedOrdersSettle
<1>3. CASE UNCHANGED <<db, history>>
  BY <1>2, <1>3 DEF history
<1>4. ASSUME NEW r \in Request, Commit(r) PROVE o \notin raced
  BY <1>4 DEF Commit
<1>5. ASSUME NEW r \in Request, Commit(r)
      PROVE  returned'[i] = IF i \in put[r] THEN returned[i] + 1 ELSE returned[i]
  BY <1>1, <1>5 DEF Commit
<1> HIDE DEF i
(* A commit that returns nothing and lets the status, the line and the     *)
(* variant be.                                                             *)
<1>6. ASSUME NEW r \in Request, Commit(r), i \notin put[r], db'[o].status = db[o].status,
             db'[i].live => db[i].live, db'[v].live => db[v].live
      PROVE  /\ returned'[i] <= IF db'[o].status = "CANCELLED" THEN 1 ELSE 0
             /\ db'[o].status = "CANCELLED" /\ db'[i].live /\ db'[v].live => returned'[i] = 1
  BY <1>1, <1>2, <1>4, <1>5, <1>6
<1>7. ASSUME NEW r \in Request, Commit(r), SaleCommits(r)
      PROVE  /\ returned'[i] <= IF db'[o].status = "CANCELLED" THEN 1 ELSE 0
             /\ db'[o].status = "CANCELLED" /\ db'[i].live /\ db'[v].live => returned'[i] = 1
  <2> DEFINE p == job[r].order
  <2>1. /\ put[r] = {}
        /\ db[p].status = "ABSENT" /\ db'[p].status = "PLACED"
        /\ db'[v].live = db[v].live
        /\ \A q \in Order \ {p} : db'[q] = db[q] /\ db'[<<q, v>>] = db[<<q, v>>]
    <3>1. /\ put[r] = {}
          /\ db[p].status = "ABSENT" /\ db'[p].status = "PLACED"
          /\ \A w \in Variant : db'[w].live = db[w].live
          /\ \A q \in Order \ {p} :
               /\ db'[q] = db[q]
               /\ \A w \in Variant : db'[<<q, w>>] = db[<<q, w>>]
      BY <1>1, <1>7, SaleEffect
    <3> HIDE DEF p
    <3> QED
      BY <3>1
  <2> HIDE DEF p
  <2>2. CASE o = p
    BY <1>1, <1>2, <1>4, <1>5, <1>7, <2>1, <2>2
  <2>3. CASE o # p
    BY <1>6, <1>7, <2>1, <2>3 DEF i
  <2> QED
    BY <2>2, <2>3
<1>8. ASSUME NEW r \in Request, Commit(r), StatusCommits(r)
      PROVE  /\ returned'[i] <= IF db'[o].status = "CANCELLED" THEN 1 ELSE 0
             /\ db'[o].status = "CANCELLED" /\ db'[i].live /\ db'[v].live => returned'[i] = 1
  <2> DEFINE p == job[r].order
             to == job[r].target
  <2>1. /\ p \in Order /\ to \in OrderStatus
        /\ \A k \in put[r] : k[1] = p
        /\ SellerMayMove(seen[r], to, db[p].fulfillment)
        /\ db'[p].status = to
        /\ to # "CANCELLED" => put[r] = {}
        /\ db'[v].live = db[v].live
        /\ to = "CANCELLED" /\ db[<<p, v>>].live /\ db[v].live => <<p, v>> \in put[r]
        /\ \A q \in Order \ {p} : db'[q] = db[q]
        /\ \A k \in Item : db'[k] = db[k]
    BY <1>1, <1>8, StatusEffect
  <2>2. p \notin raced' => db[p].status = seen[r] /\ seen[r] \in OrderStatus
    BY <1>8, UnracedDecision
  <2> HIDE DEF p, to
  <2>3. CASE o = p
    <3>1. db[o].status # "CANCELLED"
      BY <2>1, <2>2, <2>3, TransitionsAdvance
    <3>2. returned[i] = 0
      BY <1>1, <1>2, <1>4, <1>8, <3>1
    <3>3. /\ db'[o].status = "CANCELLED" <=> to = "CANCELLED"
          /\ db'[i].live = db[i].live /\ db'[v].live = db[v].live
          /\ to # "CANCELLED" => i \notin put[r]
          /\ to = "CANCELLED" /\ db[i].live /\ db[v].live => i \in put[r]
      BY <1>1, <2>1, <2>3 DEF i
    <3> QED
      BY <1>5, <1>8, <3>2, <3>3
  <2>4. CASE o # p
    <3>1. i[1] = o
      BY DEF i
    <3>2. i \notin put[r] /\ db'[o] = db[o] /\ db'[i] = db[i] /\ db'[v].live = db[v].live
      BY <1>1, <2>1, <2>4, <3>1
    <3> QED
      BY <1>6, <1>8, <3>2
  <2> QED
    BY <2>3, <2>4
<1>9. ASSUME NEW r \in Request, Commit(r),
             \/ RecountCommits(r) \/ ItemRemovalCommits(r) \/ ListingChangeCommits(r)
             \/ RetirementCommits(r)
      PROVE  /\ returned'[i] <= IF db'[o].status = "CANCELLED" THEN 1 ELSE 0
             /\ db'[o].status = "CANCELLED" /\ db'[i].live /\ db'[v].live => returned'[i] = 1
  <2>1. /\ i \notin put[r] /\ db'[o].status = db[o].status
        /\ db'[i].live => db[i].live
        /\ db'[v].live => db[v].live
    <3>1. CASE RecountCommits(r) \/ ItemRemovalCommits(r) \/ ListingChangeCommits(r)
      BY <1>1, <3>1, SellerEffect
    <3>2. CASE RetirementCommits(r)
      BY <1>1, <3>2, RetirementEffect
    <3> QED
      BY <1>9, <3>1, <3>2
  <2> QED
    BY <1>6, <1>9, <2>1
<1>10. /\ returned'[i] <= IF db'[o].status = "CANCELLED" THEN 1 ELSE 0
       /\ db'[o].status = "CANCELLED" /\ db'[i].live /\ db'[v].live => returned'[i] = 1
  <2>1. CASE UNCHANGED <<db, history>>
    BY <1>3, <2>1 DEF i
  <2> QED
    BY <1>7, <1>8, <1>9, <2>1, OnlyCommits
<1> QED
  BY <1>10 DEF i

(* An order that no request overwrote on a stale status gives its lines    *)
(* back exactly once, when it is cancelled, and whole, for every number of *)
(* cancellations, by customers and sellers, at the same time.              *)
THEOREM UnracedOrdersSettleOnce == Spec => []UnracedOrdersSettle
<1>1. Init => SystemInv /\ UnracedOrdersSettle
  <2>1. Init => SystemInv
    BY InitType, LockInvInit, CommitInvInit DEF SystemInv
  <2>2. ASSUME Init, NEW o \in Order, NEW v \in Variant
        PROVE  returned[<<o, v>>] = 0 /\ db[o].status = "ABSENT"
    BY <2>2, KeyFacts DEF Init, InitialRow
  <2>3. ASSUME Init PROVE UnracedOrdersSettle
    <3> SUFFICES ASSUME NEW o \in Order \ raced, NEW v \in Variant
                 PROVE  /\ returned[<<o, v>>] <= IF db[o].status = "CANCELLED" THEN 1 ELSE 0
                        /\ db[o].status # "CANCELLED"
      BY DEF UnracedOrdersSettle
    <3>1. returned[<<o, v>>] = 0 /\ db[o].status = "ABSENT"
      BY <2>2, <2>3
    <3> QED
      BY <3>1
  <2> QED
    BY <2>1, <2>3
<1>2. SystemInv /\ UnracedOrdersSettle /\ [Next]_vars => (SystemInv /\ UnracedOrdersSettle)'
  BY SystemInvStep, SettlementStep
<1> QED
  BY <1>1, <1>2, PTL DEF Spec

-----------------------------------------------------------------------------
(* The account of stock.                                                   *)

(* What the mapped variables of the account are, row by row.               *)
Stock == [v \in Variant |-> db[v].stock]
OnSale == {v \in Variant : db[v].live}
Sale == [o \in Order |-> [v \in Variant |-> db[<<o, v>>].quantity]]

LEMMA CartLines ==
    ASSUME NEW cart \in Cart
    PROVE  /\ CartUnits(cart) \in [Variant -> 0..MaxQuantity]
           /\ CartUnits(cart) # [v \in Variant |-> 0]
<1>1. PICK S \in (SUBSET Variant) \ {{}} : cart \in [S -> 1..MaxQuantity]
  BY DEF Cart
<1>2. /\ DOMAIN cart = S
      /\ \A v \in S : v \in Variant /\ cart[v] \in 1..MaxQuantity
  BY <1>1
<1>3. PICK w \in S : TRUE
  OBVIOUS
<1>4. \A v \in Variant : (IF v \in DOMAIN cart THEN cart[v] ELSE 0) \in 0..MaxQuantity
  BY <1>2, CatalogAssumption
<1>5. CartUnits(cart) \in [Variant -> 0..MaxQuantity]
  BY <1>4 DEF CartUnits
<1>6. w \in Variant /\ CartUnits(cart)[w] = cart[w] /\ cart[w] \in 1..MaxQuantity
  BY <1>2, <1>3 DEF CartUnits
<1>7. CartUnits(cart)[w] # 0
  BY <1>6, CatalogAssumption
<1> QED
  BY <1>5, <1>6, <1>7

LEMMA SaleSells ==
    ASSUME TypeOK, CommittedInv, NEW r \in Request, SaleCommits(r)
    PROVE  Account!Next
<1> DEFINE o == job[r].order
           units == CartUnits(job[r].cart)
<1>1. /\ o \in Order /\ job[r].cart \in Cart
      /\ \A v \in Variant :
           /\ db'[v].live = db[v].live
           /\ db'[v].stock = db[v].stock - units[v]
           /\ units[v] > 0 => db[v].live /\ db[v].stock >= units[v]
           /\ db[<<o, v>>].quantity = 0 /\ db'[<<o, v>>].quantity = units[v]
      /\ \A p \in Order \ {o} : \A v \in Variant : db'[<<p, v>>] = db[<<p, v>>]
  BY SaleEffect
<1>2. units \in [Variant -> 0..MaxQuantity] /\ units # [v \in Variant |-> 0]
  BY <1>1, CartLines
<1> HIDE DEF o, units
<1>3. \A v \in Variant : units[v] \in 0..MaxQuantity /\ db[v].stock \in Int
  BY <1>2, DbTypes DEF VariantRow
<1>4. Sale[o] = [v \in Variant |-> 0]
  BY <1>1 DEF Sale
<1>5. \A v \in Variant : units[v] > 0 => v \in OnSale /\ units[v] <= Stock[v]
  BY <1>1, <1>3, CatalogAssumption DEF OnSale, Stock
<1>6. Stock' = [v \in Variant |-> Stock[v] - units[v]]
  BY <1>1 DEF Stock
<1>7. OnSale' = OnSale
  BY <1>1 DEF OnSale
<1>8. Sale' = [Sale EXCEPT ![o] = units]
  <2>1. \A p \in Order : [v \in Variant |-> db'[<<p, v>>].quantity]
                            = IF p = o THEN units ELSE [v \in Variant |-> db[<<p, v>>].quantity]
    <3> TAKE p \in Order
    <3>1. CASE p = o
      <4>1. \A v \in Variant : db'[<<o, v>>].quantity = units[v]
        BY <1>1
      <4>2. [v \in Variant |-> db'[<<o, v>>].quantity] = units
        BY <1>2, <4>1
      <4> QED
        BY <3>1, <4>2
    <3>2. CASE p # o
      <4>1. \A v \in Variant : db'[<<p, v>>].quantity = db[<<p, v>>].quantity
        BY <1>1, <3>2
      <4> QED
        BY <3>2, <4>1
    <3> QED
      BY <3>1, <3>2
  <2> QED
    BY <2>1 DEF Sale
<1>9. ASSUME NEW p \in Order, NEW lines \in [Variant -> 0..MaxQuantity], p = o, lines = units
      PROVE  Account!Next
  <2>1. Account!Sell(p, lines)
    BY <1>2, <1>4, <1>5, <1>6, <1>7, <1>8, <1>9
       DEF Account!Sell, Account!Nothing, Stock, OnSale, Sale
  <2> QED
    BY <2>1 DEF Account!Next
<1>10. o \in Order /\ units \in [Variant -> 0..MaxQuantity]
  BY <1>1, <1>2
<1> QED
  BY <1>9, <1>10

LEMMA StatusReturns ==
    ASSUME TypeOK, NEW r \in Request, StatusCommits(r)
    PROVE  Account!Next
<1> DEFINE o == job[r].order
           back == {v \in Variant : <<o, v>> \in put[r]}
<1>1. /\ o \in Order
      /\ \A v \in Variant :
           /\ db'[v].live = db[v].live
           /\ db'[v].stock = IF <<o, v>> \in put[r]
                               THEN db[v].stock + db[<<o, v>>].quantity
                               ELSE db[v].stock
           /\ <<o, v>> \in put[r] => db[v].live /\ db[<<o, v>>].quantity > 0
      /\ \A i \in Item : db'[i] = db[i]
  BY StatusEffect
<1>2. /\ back \in SUBSET Variant
      /\ \A v \in Variant : v \in back <=> <<o, v>> \in put[r]
  OBVIOUS
<1> HIDE DEF o, back
<1>3. \A v \in back : v \in OnSale /\ Sale[o][v] > 0
  BY <1>1, <1>2 DEF OnSale, Sale
<1>4. \A v \in Variant : Sale[o][v] = db[<<o, v>>].quantity /\ Stock[v] = db[v].stock
  BY <1>1 DEF Sale, Stock
<1>5. Stock' = [v \in Variant |-> IF v \in back THEN Stock[v] + Sale[o][v] ELSE Stock[v]]
  <2>1. \A v \in Variant : db'[v].stock = IF v \in back THEN Stock[v] + Sale[o][v] ELSE Stock[v]
    BY <1>1, <1>2, <1>4
  <2> QED
    BY <2>1 DEF Stock
<1>6. OnSale' = OnSale
  BY <1>1 DEF OnSale
<1>7. Sale' = Sale
  BY <1>1, KeyFacts DEF Sale
<1>8. ASSUME NEW p \in Order, NEW lines \in SUBSET Variant, p = o, lines = back
      PROVE  Account!Next
  <2>1. Account!Return(p, lines)
    BY <1>3, <1>5, <1>6, <1>7, <1>8 DEF Account!Return, Stock, OnSale, Sale
  <2> QED
    BY <2>1 DEF Account!Next
<1>9. o \in Order /\ back \in SUBSET Variant
  BY <1>1, <1>2
<1> QED
  BY <1>8, <1>9

LEMMA SellerRecounts ==
    ASSUME TypeOK, NEW r \in Request,
           RecountCommits(r) \/ ItemRemovalCommits(r) \/ ListingChangeCommits(r)
    PROVE  Account!Next \/ UNCHANGED Account!vars
<1>1. /\ \A v \in Variant : db'[v].live = db[v].live
      /\ \/ \A v \in Variant : db'[v].stock = db[v].stock
         \/ \E w \in Variant, n \in 0..MaxStock : \A v \in Variant :
              db'[v].stock = IF v = w THEN n ELSE db[v].stock
      /\ \A i \in Item : db'[i].quantity = db[i].quantity
  BY SellerEffect
<1>2. OnSale' = OnSale
  BY <1>1 DEF OnSale
<1>3. Sale' = Sale
  BY <1>1, KeyFacts DEF Sale
<1>4. CASE \A v \in Variant : db'[v].stock = db[v].stock
  <2>1. Stock' = Stock
    BY <1>4 DEF Stock
  <2> QED
    BY <1>2, <1>3, <2>1 DEF Account!vars, Stock, OnSale, Sale
<1>5. ASSUME NEW w \in Variant, NEW n \in 0..MaxStock,
             \A v \in Variant : db'[v].stock = IF v = w THEN n ELSE db[v].stock
      PROVE  Account!Next
  <2>1. Stock' = [Stock EXCEPT ![w] = n]
    BY <1>5 DEF Stock
  <2>2. Account!Recount(w, n)
    BY <1>2, <1>3, <2>1 DEF Account!Recount, Stock, OnSale, Sale
  <2> QED
    BY <2>2 DEF Account!Next
<1> QED
  BY <1>1, <1>4, <1>5

LEMMA DeletionRetires ==
    ASSUME TypeOK, NEW r \in Request, RetirementCommits(r)
    PROVE  Account!Next
<1>1. PICK S \in SUBSET Variant : \A v \in Variant :
        /\ db'[v].live <=> db[v].live /\ v \notin S
        /\ db'[v].stock = db[v].stock
  BY RetirementEffect
<1>2. \A i \in Item : db'[i] = db[i]
  BY RetirementEffect
<1>3. OnSale' = OnSale \ S
  BY <1>1 DEF OnSale
<1>4. Stock' = Stock /\ Sale' = Sale
  BY <1>1, <1>2, KeyFacts DEF Stock, Sale
<1>5. Account!Retire(S)
  BY <1>3, <1>4 DEF Account!Retire, Stock, OnSale, Sale
<1> QED
  BY <1>5 DEF Account!Next

LEMMA AccountStep ==
    ASSUME SystemInv, [Next]_vars
    PROVE  [Account!Next]_Account!vars
<1>1. TypeOK /\ CommittedInv
  BY DEF SystemInv, CommitInv, CommittedInv
<1>2. CASE UNCHANGED <<db, history>>
  BY <1>2 DEF Account!vars
<1>3. ASSUME NEW r \in Request,
             \/ SaleCommits(r) \/ StatusCommits(r) \/ RecountCommits(r)
             \/ ItemRemovalCommits(r) \/ ListingChangeCommits(r) \/ RetirementCommits(r)
      PROVE  Account!Next \/ UNCHANGED Account!vars
  BY <1>1, <1>3, SaleSells, StatusReturns, SellerRecounts, DeletionRetires
<1> QED
  BY <1>2, <1>3, OnlyCommits

LEMMA InitialRows ==
    ASSUME Init
    PROVE  /\ \A v \in Variant : db[v].stock = InitialStock[v] /\ db[v].live
           /\ \A i \in Item : db[i].quantity = 0
<1>1. ASSUME NEW v \in Variant PROVE db[v] = [stock |-> InitialStock[v], live |-> TRUE]
  BY KeyFacts DEF Init, InitialRow
<1>2. ASSUME NEW i \in Item PROVE db[i] = [quantity |-> 0, live |-> FALSE]
  BY KeyFacts DEF Init, InitialRow
<1>3. ASSUME NEW v \in Variant PROVE db[v].stock = InitialStock[v] /\ db[v].live
  <2>1. db[v] = [stock |-> InitialStock[v], live |-> TRUE]
    BY <1>1
  <2>2. db[v].live
    BY <2>1
  <2>3. db[v].stock = InitialStock[v]
    BY <2>1
  <2> QED
    BY <2>2, <2>3
<1>4. ASSUME NEW i \in Item PROVE db[i].quantity = 0
  BY <1>2
<1> QED
  BY <1>3, <1>4

LEMMA AccountInit == Init => Account!Init
<1> SUFFICES ASSUME Init PROVE Account!Init
  OBVIOUS
<1>1. /\ \A v \in Variant : db[v].stock = InitialStock[v] /\ db[v].live
      /\ \A i \in Item : db[i].quantity = 0
  BY InitialRows
<1>2. [v \in Variant |-> db[v].stock] = InitialStock
  BY <1>1, CatalogAssumption
<1>3. {v \in Variant : db[v].live} = Variant
  BY <1>1
<1>4. \A o \in Order, v \in Variant : db[<<o, v>>].quantity = 0
  BY <1>1, KeyFacts
<1>5. [o \in Order |-> [v \in Variant |-> db[<<o, v>>].quantity]]
        = [o \in Order |-> [v \in Variant |-> 0]]
  BY <1>4
<1> QED
  BY <1>2, <1>3, <1>5 DEF Account!Init, Account!Nothing

(* The statements of any number of requests, interleaved, blocked, rolled  *)
(* back or aborted, move stock only as the account of stock says: by whole *)
(* sales of lines that were on sale and in stock, by returns of lines that *)
(* were sold, by recounts and by retirement.                               *)
THEOREM StatementsImplementAccount == Spec => ImplementsAccount
<1>1. Init => Account!Init
  BY AccountInit
<1>2. SystemInv /\ [Next]_vars => [Account!Next]_Account!vars
  BY AccountStep
<1> QED
  BY <1>1, <1>2, TransactionsWriteWhatTheyRead, PTL DEF Spec, ImplementsAccount, Account!Spec

-----------------------------------------------------------------------------
(* The conservation of stock.                                              *)

(* An order that does not exist has given nothing back.                    *)
AbsentOrdersGaveNothing ==
    \A o \in Order : \A v \in Variant : db[o].status = "ABSENT" => returned[<<o, v>>] = 0

Ledger == StockConserved /\ AbsentOrdersGaveNothing

(* What a commit notes of returns and of the seller's supply.              *)
LEMMA Noted ==
    ASSUME SystemInv, NEW r \in Request, Commit(r)
    PROVE  /\ \A i \in Item : returned'[i] = IF i \in put[r] THEN returned[i] + 1 ELSE returned[i]
           /\ job[r].op # "setStock" => supply' = supply
           /\ job[r].op = "setStock" => \A v \in Variant :
                supply'[v] = IF v = job[r].variant
                               THEN supply[v] + db'[v].stock - db[v].stock
                               ELSE supply[v]
<1>1. /\ returned' = [i \in Item |-> IF i \in put[r] THEN returned[i] + 1 ELSE returned[i]]
      /\ supply' = IF job[r].op = "setStock"
                     THEN [supply EXCEPT ![job[r].variant] =
                             supply[job[r].variant] + View(r, job[r].variant).stock
                               - db[job[r].variant].stock]
                     ELSE supply
  BY DEF Commit
<1>2. supply \in [Variant -> Int]
  BY DEF SystemInv, TypeOK, HistoryOK
<1>3. ASSUME job[r].op = "setStock", NEW v \in Variant
      PROVE  supply'[v] = IF v = job[r].variant
                            THEN supply[v] + db'[v].stock - db[v].stock
                            ELSE supply[v]
  <2> DEFINE w == job[r].variant
             given == supply[w] + View(r, w).stock - db[w].stock
  <2>1. w \in Variant
    BY <1>3, JobOps, SellerTypes DEF SystemInv, TypeOK, LocalsOK
  <2>2. db'[w] = View(r, w)
    BY <2>1, CommittedRows, KeyFacts DEF SystemInv, View
  <2>3. supply' = [supply EXCEPT ![w] = given]
    BY <1>1, <1>3
  <2>4. CASE v = w
    <3>1. supply'[v] = given
      <4> HIDE DEF given, w
      <4> QED
        BY <1>2, <2>3, <2>4
    <3> QED
      BY <2>2, <2>4, <3>1
  <2>5. CASE v # w
    <3> HIDE DEF given
    <3> QED
      BY <1>2, <2>3, <2>5
  <2> QED
    BY <2>4, <2>5
<1> QED
  BY <1>1, <1>3

LEMMA OutstandingType == TypeOK => \A v \in Variant : Outstanding(v) \in [Order -> Int]
<1> SUFFICES ASSUME TypeOK, NEW v \in Variant PROVE Outstanding(v) \in [Order -> Int]
  OBVIOUS
<1>1. \A o \in Order : /\ db[<<o, v>>].quantity \in Nat
                       /\ returned[<<o, v>>] \in Nat
  <2>1. \A o \in Order : <<o, v>> \in Item
    BY KeyFacts
  <2> QED
    BY <2>1, DbTypes DEF ItemRow, TypeOK, HistoryOK
<1>2. \A o \in Order : db[<<o, v>>].quantity * (1 - returned[<<o, v>>]) \in Int
  BY <1>1
<1> QED
  BY <1>2 DEF Outstanding

LEMMA OutstandingNextType == TypeOK' => (\A v \in Variant : Outstanding(v) \in [Order -> Int])'
BY OutstandingType, PTL

(* The sum over all orders moves with the one order of a commit.           *)
LEMMA OutstandingMoves ==
    ASSUME TypeOK, TypeOK', NEW o \in Order, NEW v \in Variant,
           \A p \in Order \ {o} : /\ db'[<<p, v>>].quantity = db[<<p, v>>].quantity
                                  /\ returned'[<<p, v>>] = returned[<<p, v>>]
    PROVE  /\ SumFunction(Outstanding(v)) \in Int
           /\ SumFunction(Outstanding(v))'
                = SumFunction(Outstanding(v)) + Outstanding(v)'[o] - Outstanding(v)[o]
<1> DEFINE f == Outstanding(v)
           g == Outstanding(v)'
<1>1. f \in [Order -> Int]
  BY OutstandingType
<1>2. g \in [Order -> Int]
  BY OutstandingNextType
<1>3. \A p \in Order \ {o} : g[p] = f[p]
  BY DEF Outstanding
<1>4. SumFunction(f) = SumFunctionOnSet(f, Order) /\ SumFunction(g) = SumFunctionOnSet(g, Order)
  BY <1>1, <1>2 DEF SumFunction
<1> HIDE DEF f, g
<1>5. SumFunctionOnSet(f, Order) \in Int
  BY <1>1, SumType, OrdersAreFinite
<1>6. SumFunctionOnSet(g, Order) = SumFunctionOnSet(f, Order) + g[o] - f[o]
  BY <1>1, <1>2, <1>3, SumChanges, OrdersAreFinite
<1> QED
  BY <1>4, <1>5, <1>6 DEF f, g

LEMMA OutstandingSum ==
    ASSUME TypeOK, NEW v \in Variant
    PROVE  SumFunction(Outstanding(v)) \in Int
<1> DEFINE f == Outstanding(v)
<1>1. f \in [Order -> Int]
  BY OutstandingType
<1>2. SumFunction(f) = SumFunctionOnSet(f, Order)
  BY <1>1 DEF SumFunction
<1> HIDE DEF f
<1>3. SumFunctionOnSet(f, Order) \in Int
  BY <1>1, SumType, OrdersAreFinite
<1> QED
  BY <1>2, <1>3 DEF f

(* Only a seller's recount moves stock without an order.                   *)
LEMMA OnlyRecountsMove ==
    ASSUME TypeOK, NEW r \in Request, job[r].op # "setStock",
           \/ RecountCommits(r) \/ ItemRemovalCommits(r) \/ ListingChangeCommits(r)
           \/ RetirementCommits(r)
    PROVE  \A v \in Variant : db'[v].stock = db[v].stock
<1>1. CASE RecountCommits(r)
  BY <1>1, JobOps DEF RecountCommits
<1>2. CASE ItemRemovalCommits(r)
  <2> DEFINE i == job[r].item
  <2>1. i \in Item /\ OthersKept({i})
    BY <1>2, SellerTypes DEF ItemRemovalCommits
  <2> HIDE DEF i
  <2> QED
    BY <2>1, KeyFacts DEF OthersKept
<1>3. CASE ListingChangeCommits(r)
  <2> DEFINE l == job[r].listing
  <2>1. l \in Listing /\ OthersKept({l})
    BY <1>3, SellerTypes DEF ListingChangeCommits
  <2> HIDE DEF l
  <2> QED
    BY <2>1, KeyFacts DEF OthersKept
<1>4. CASE RetirementCommits(r)
  <2>1. \E S \in SUBSET Variant : \A v \in Variant :
          /\ db'[v].live <=> db[v].live /\ v \notin S
          /\ db'[v].stock = db[v].stock
    BY <1>4, RetirementEffect
  <2> QED
    BY <2>1
<1> QED
  BY <1>1, <1>2, <1>3, <1>4

(* A recount moves the stock of one variant.                               *)
LEMMA RecountOfOne ==
    ASSUME NEW r \in Request, job[r].op = "setStock",
           \/ RecountCommits(r) \/ ItemRemovalCommits(r) \/ ListingChangeCommits(r)
           \/ RetirementCommits(r)
    PROVE  \A v \in Variant : v # job[r].variant => db'[v] = db[v]
<1>1. RecountCommits(r)
  BY JobOps DEF ItemRemovalCommits, ListingChangeCommits, RetirementCommits
<1> QED
  BY <1>1, KeyFacts DEF RecountCommits, OthersKept

LEMMA LedgerInit == Init => Ledger
<1> SUFFICES ASSUME Init PROVE Ledger
  OBVIOUS
<1>1. TypeOK
  BY InitType
<1>2. /\ \A v \in Variant : db[v].stock = InitialStock[v] /\ InitialStock[v] \in Nat
      /\ \A i \in Item : db[i].quantity = 0
  BY InitialRows, CatalogAssumption
<1>3. supply = InitialStock /\ \A i \in Item : returned[i] = 0
  BY DEF Init
<1>4. AbsentOrdersGaveNothing
  BY <1>3, KeyFacts DEF AbsentOrdersGaveNothing
<1>5. ASSUME NEW v \in Variant PROVE SumFunction(Outstanding(v)) = 0
  <2> DEFINE f == Outstanding(v)
  <2>1. f \in [Order -> Int]
    BY <1>1, OutstandingType
  <2>2. \A o \in Order : db[<<o, v>>].quantity = 0 /\ returned[<<o, v>>] = 0
    BY <1>2, <1>3, KeyFacts
  <2>3. \A o \in Order : f[o] = 0
    BY <2>2 DEF Outstanding
  <2>4. SumFunction(f) = SumFunctionOnSet(f, Order)
    BY <2>1 DEF SumFunction
  <2> HIDE DEF f
  <2>5. SumFunctionOnSet(f, Order) = 0
    BY <2>1, <2>3, SumOfZeros, OrdersAreFinite
  <2> QED
    BY <2>4, <2>5 DEF f
<1>6. StockConserved
  BY <1>2, <1>3, <1>5 DEF StockConserved
<1> QED
  BY <1>4, <1>6 DEF Ledger

LEMMA DbNextTypes == TypeOK' => (\A v \in Variant : db[v] \in VariantRow)'
<1>1. TypeOK => \A v \in Variant : db[v] \in VariantRow
  BY DbTypes
<1> QED
  BY <1>1, PTL

(* A commit that moves no quantities and gives nothing back.               *)
LEMMA OutstandingKept ==
    ASSUME TypeOK, NEW v \in Variant,
           \A o \in Order : /\ db'[<<o, v>>].quantity = db[<<o, v>>].quantity
                            /\ returned'[<<o, v>>] = returned[<<o, v>>]
    PROVE  SumFunction(Outstanding(v))' = SumFunction(Outstanding(v))
<1>1. Outstanding(v)' = Outstanding(v)
  BY DEF Outstanding
<1> QED
  BY <1>1

LEMMA LedgerStep ==
    ASSUME SystemInv, TypeOK', Ledger, [Next]_vars
    PROVE  Ledger'
<1>1. /\ TypeOK /\ CommittedInv
      /\ \A v \in Variant : db[v].stock \in Int /\ supply[v] \in Int
      /\ \A i \in Item : db[i].quantity \in Nat /\ returned[i] \in Nat
  BY DbTypes DEF SystemInv, CommitInv, CommittedInv, TypeOK, HistoryOK, VariantRow, ItemRow
<1>2. \A v \in Variant : db[v].stock = supply[v] - SumFunction(Outstanding(v))
  BY DEF Ledger, StockConserved
<1>3. CASE UNCHANGED <<db, history>>
  <2>1. UNCHANGED <<db, returned, supply>>
    BY <1>3 DEF history
  <2>2. \A v \in Variant : SumFunction(Outstanding(v))' = SumFunction(Outstanding(v))
    BY <1>1, <2>1, OutstandingKept
  <2> QED
    BY <1>2, <2>1, <2>2 DEF Ledger, StockConserved, AbsentOrdersGaveNothing
<1>4. ASSUME NEW r \in Request, Commit(r), SaleCommits(r) PROVE Ledger'
  <2> DEFINE o == job[r].order
             units == CartUnits(job[r].cart)
  <2>1. /\ o \in Order /\ job[r].cart \in Cart /\ put[r] = {}
        /\ db[o].status = "ABSENT" /\ db'[o].status = "PLACED"
        /\ \A v \in Variant :
             /\ db'[v].stock = db[v].stock - units[v]
             /\ db[<<o, v>>].quantity = 0 /\ db'[<<o, v>>].quantity = units[v]
        /\ \A p \in Order \ {o} :
             /\ db'[p] = db[p]
             /\ \A v \in Variant : db'[<<p, v>>] = db[<<p, v>>]
    BY <1>1, <1>4, SaleEffect
  <2>2. \A v \in Variant : units[v] \in Nat
    <3>1. units \in [Variant -> 0..MaxQuantity]
      BY <2>1, CartLines
    <3> HIDE DEF units
    <3> QED
      BY <3>1, CatalogAssumption
  <2>3. job[r].op # "setStock"
    BY <1>4, JobOps DEF SaleCommits
  <2> HIDE DEF o, units
  <2>4. supply' = supply /\ \A i \in Item : returned'[i] = returned[i]
    BY <1>4, <2>1, <2>3, Noted
  <2>5. \A p \in Order : \A v \in Variant : returned'[<<p, v>>] = returned[<<p, v>>]
    BY <2>4, KeyFacts
  <2>6. ASSUME NEW v \in Variant
        PROVE  db'[v].stock = supply'[v] - SumFunction(Outstanding(v))'
    <3>1. returned[<<o, v>>] = 0
      BY <2>1 DEF Ledger, AbsentOrdersGaveNothing
    <3>2. Outstanding(v)[o] = 0 /\ Outstanding(v)'[o] = units[v]
      BY <2>1, <2>2, <2>5, <3>1 DEF Outstanding
    <3>3. \A p \in Order \ {o} : /\ db'[<<p, v>>].quantity = db[<<p, v>>].quantity
                                 /\ returned'[<<p, v>>] = returned[<<p, v>>]
      BY <2>1, <2>5
    <3>4. /\ SumFunction(Outstanding(v)) \in Int
          /\ SumFunction(Outstanding(v))'
               = SumFunction(Outstanding(v)) + Outstanding(v)'[o] - Outstanding(v)[o]
      BY <1>1, <2>1, <3>3, OutstandingMoves
    <3>5. SumFunction(Outstanding(v))' = SumFunction(Outstanding(v)) + units[v]
      BY <2>2, <3>2, <3>4
    <3>6. db'[v].stock = db[v].stock - units[v] /\ supply' = supply
      BY <2>1, <2>4
    <3>7. units[v] \in Nat /\ supply[v] \in Int
      BY <1>1, <2>2
    <3>8. db[v].stock = supply[v] - SumFunction(Outstanding(v))
      BY <1>2
    <3> QED
      BY <3>4, <3>5, <3>6, <3>7, <3>8
  <2>7. AbsentOrdersGaveNothing'
    BY <2>1, <2>5 DEF Ledger, AbsentOrdersGaveNothing
  <2> QED
    BY <2>6, <2>7 DEF Ledger, StockConserved
<1>5. ASSUME NEW r \in Request, Commit(r), StatusCommits(r) PROVE Ledger'
  <2> DEFINE o == job[r].order
  <2>1. /\ o \in Order
        /\ job[r].op \in {"cancel", "status"}
        /\ job[r].target \in OrderStatus
        /\ \A i \in put[r] : i[1] = o
        /\ db'[o].status = job[r].target
        /\ \A v \in Variant :
             db'[v].stock = IF <<o, v>> \in put[r]
                              THEN db[v].stock + db[<<o, v>>].quantity
                              ELSE db[v].stock
        /\ \A p \in Order \ {o} : db'[p] = db[p]
        /\ \A i \in Item : db'[i] = db[i]
    BY <1>1, <1>5, StatusEffect
  <2> HIDE DEF o
  <2>2. supply' = supply
        /\ \A i \in Item : returned'[i] = IF i \in put[r] THEN returned[i] + 1 ELSE returned[i]
    BY <1>5, <2>1, Noted
  <2>3. \A p \in Order \ {o} : \A v \in Variant : returned'[<<p, v>>] = returned[<<p, v>>]
    <3> TAKE p \in Order \ {o}
    <3> TAKE v \in Variant
    <3> DEFINE i == <<p, v>>
    <3>1. i \in Item /\ i[1] = p
      BY KeyFacts
    <3> HIDE DEF i
    <3>2. returned'[i] = returned[i]
      BY <2>1, <2>2, <3>1
    <3> QED
      BY <3>2 DEF i
  <2>4. ASSUME NEW v \in Variant
        PROVE  db'[v].stock = supply'[v] - SumFunction(Outstanding(v))'
    <3> DEFINE i == <<o, v>>
               q == db[i].quantity
               n == returned[i]
    <3>1. i \in Item /\ q \in Nat /\ n \in Nat
      BY <1>1, <2>1, KeyFacts
    <3>2. db'[i].quantity = q /\ returned'[i] = IF i \in put[r] THEN n + 1 ELSE n
      BY <2>1, <2>2, <3>1
    <3>3. /\ Outstanding(v)[o] = q * (1 - n)
          /\ Outstanding(v)'[o] = q * (1 - returned'[i])
      BY <2>1, <3>2 DEF Outstanding
    <3>4. \A p \in Order \ {o} : /\ db'[<<p, v>>].quantity = db[<<p, v>>].quantity
                                 /\ returned'[<<p, v>>] = returned[<<p, v>>]
      BY <2>1, <2>3, KeyFacts
    <3>5. /\ SumFunction(Outstanding(v)) \in Int
          /\ SumFunction(Outstanding(v))'
               = SumFunction(Outstanding(v)) + Outstanding(v)'[o] - Outstanding(v)[o]
      BY <1>1, <2>1, <3>4, OutstandingMoves
    <3>6. db'[v].stock = IF i \in put[r] THEN db[v].stock + q ELSE db[v].stock
      BY <2>1
    <3> HIDE DEF i, q, n
    <3>7. q * (1 - (n + 1)) = q * (1 - n) - q /\ q * (1 - n) \in Int
      BY <3>1
    <3>8. Outstanding(v)'[o] - Outstanding(v)[o] = IF i \in put[r] THEN -q ELSE 0
      BY <3>1, <3>2, <3>3, <3>7
    <3> QED
      BY <1>1, <1>2, <2>2, <3>1, <3>2, <3>3, <3>5, <3>6, <3>7, <3>8
  <2>5. AbsentOrdersGaveNothing'
    <3>1. db'[o].status # "ABSENT"
      BY <2>1 DEF OrderStatus
    <3> QED
      BY <2>1, <2>3, <3>1 DEF Ledger, AbsentOrdersGaveNothing
  <2> QED
    BY <2>4, <2>5 DEF Ledger, StockConserved
<1>6. ASSUME NEW r \in Request, Commit(r),
             \/ RecountCommits(r) \/ ItemRemovalCommits(r) \/ ListingChangeCommits(r)
             \/ RetirementCommits(r)
      PROVE  Ledger'
  <2>1. put[r] = {} /\ \A o \in Order : db'[o] = db[o]
    <3>1. CASE RecountCommits(r) \/ ItemRemovalCommits(r) \/ ListingChangeCommits(r)
      BY <1>1, <3>1, SellerEffect
    <3>2. CASE RetirementCommits(r)
      BY <1>1, <3>2, RetirementEffect
    <3> QED
      BY <1>6, <3>1, <3>2
  <2>2. \A i \in Item : db'[i].quantity = db[i].quantity /\ returned'[i] = returned[i]
    BY <1>1, <1>6, <2>1, QuantitiesKept, Noted
  <2>3. \A o \in Order : \A v \in Variant :
          /\ db'[<<o, v>>].quantity = db[<<o, v>>].quantity
          /\ returned'[<<o, v>>] = returned[<<o, v>>]
    BY <2>2, KeyFacts
  <2>4. \A v \in Variant : db'[v].stock - supply'[v] = db[v].stock - supply[v]
                           /\ db'[v].stock \in Int /\ supply'[v] \in Int
    <3>1. \A v \in Variant : db'[v].stock \in Int
      BY DbNextTypes DEF VariantRow
    <3>2. CASE job[r].op = "setStock"
      <4>1. \A v \in Variant : supply'[v] = IF v = job[r].variant
                                             THEN supply[v] + db'[v].stock - db[v].stock
                                             ELSE supply[v]
        BY <1>6, <3>2, Noted
      <4>2. \A v \in Variant : v # job[r].variant => db'[v] = db[v]
        BY <1>6, <3>2, RecountOfOne
      <4> QED
        BY <1>1, <3>1, <4>1, <4>2
    <3>3. CASE job[r].op # "setStock"
      <4>1. \A v \in Variant : db'[v].stock = db[v].stock
        BY <1>1, <1>6, <3>3, OnlyRecountsMove
      <4>2. supply' = supply
        BY <1>6, <3>3, Noted
      <4> QED
        BY <1>1, <4>1, <4>2
    <3> QED
      BY <3>2, <3>3
  <2>5. \A v \in Variant : /\ SumFunction(Outstanding(v))' = SumFunction(Outstanding(v))
                           /\ SumFunction(Outstanding(v)) \in Int
    BY <1>1, <2>3, OutstandingKept, OutstandingSum
  <2>6. ASSUME NEW v \in Variant
        PROVE  db'[v].stock = supply'[v] - SumFunction(Outstanding(v))'
    BY <1>1, <1>2, <2>4, <2>5
  <2>7. AbsentOrdersGaveNothing'
    BY <2>1, <2>3 DEF Ledger, AbsentOrdersGaveNothing
  <2> QED
    BY <2>6, <2>7 DEF Ledger, StockConserved
<1> QED
  BY <1>3, <1>4, <1>5, <1>6, OnlyCommits

(* What every variant has is what its seller provided, less what orders    *)
(* took and did not give back, for every number of requests, orders and    *)
(* variants, whatever statements interleave, fail or are rolled back.      *)
THEOREM StockIsConserved == Spec => []StockConserved
<1>1. Init => SystemInv /\ Ledger
  <2>1. Init => SystemInv
    BY InitType, LockInvInit, CommitInvInit DEF SystemInv
  <2>2. Init => Ledger
    BY LedgerInit
  <2> QED
    BY <2>1, <2>2
<1>2. SystemInv /\ Ledger /\ [Next]_vars => (SystemInv /\ Ledger)'
  <2>1. SystemInv /\ [Next]_vars => SystemInv'
    BY SystemInvStep
  <2>2. SystemInv' => TypeOK'
    BY DEF SystemInv
  <2> QED
    BY <2>1, <2>2, LedgerStep
<1>3. Ledger => StockConserved
  BY DEF Ledger
<1> QED
  BY <1>1, <1>2, <1>3, PTL DEF Spec
=============================================================================
