----------------------------- MODULE OrderStock ------------------------------
(***************************************************************************)
(* Checkout, cancellation, order fulfilment and the stock they move:       *)
(* app/order, app/order_item, app/variant and app/business_book, each HTTP *)
(* request a transaction of ReadCommitted whose SQL statements interleave  *)
(* with those of other requests.                                           *)
(*                                                                         *)
(* A request is begun once with the arguments of its HTTP call (job) and   *)
(* then runs statement by statement; pc names the statement it is about to *)
(* execute.  It ends "done" (committed) or "failed" (rolled back, the      *)
(* client got a 4xx or 5xx).                                               *)
(***************************************************************************)
EXTENDS Integers, FiniteSets, FiniteSetsExt, ReadCommitted

CONSTANTS
    Variant,        \* sellable variants, the rows that carry stock
    Listing,        \* business_books rows
    Order,          \* order references clients send; a reference identifies
                    \* an order (uq_orders_reference_active)
    ListingOf,      \* the listing of each variant
    InitialStock,   \* what the seller created each variant with
    MaxStock,       \* bound: the largest stock a seller's PATCH sets
    MaxQuantity,    \* bound: the largest quantity of a cart line
    Offered,        \* the fulfilment types clients of this instance choose
    Operation       \* the endpoints clients of this instance call

Item == Order \X Variant    \* lines are merged per variant: one item each

VariantRow == [stock : Int, live : BOOLEAN]
ListingStatus == {"DRAFT", "ACTIVE", "INACTIVE", "DELETED"}
ListingRow == [status : ListingStatus, live : BOOLEAN]
OrderStatus == {"PLACED", "CONFIRMED", "SHIPPED", "DELIVERED",
                "READY_FOR_PICKUP", "PICKED_UP", "CANCELLED"}
Fulfillment == {"DELIVERY", "PICKUP"}
(* total_amount is abstracted to the units it was computed from.           *)
OrderRow == [status : OrderStatus \cup {"ABSENT"}, fulfillment : Fulfillment,
             units : [Variant -> Nat]]
ItemRow == [quantity : Nat, live : BOOLEAN]

Key == Variant \cup Listing \cup Order \cup Item

Version == VariantRow \cup ListingRow \cup OrderRow \cup ItemRow

RowType(k) ==
    IF k \in Variant THEN VariantRow
    ELSE IF k \in Listing THEN ListingRow
    ELSE IF k \in Order THEN OrderRow
    ELSE ItemRow

(* Rows of different tables are different rows.                            *)
ASSUME KeysDisjoint ==
    /\ Variant \cap Listing = {} /\ Variant \cap Order = {}
    /\ Variant \cap Item = {}    /\ Listing \cap Order = {}
    /\ Listing \cap Item = {}    /\ Order \cap Item = {}

(* A variant belongs to a listing and is created with stock >= 0           *)
(* (ck_variants_stock_non_negative).                                       *)
ASSUME CatalogAssumption ==
    /\ ListingOf \in [Variant -> Listing]
    /\ InitialStock \in [Variant -> Nat]
    /\ MaxStock \in Nat /\ MaxQuantity \in Nat
    /\ Offered \subseteq Fulfillment

(* Clients send finitely many order references.                            *)
ASSUME OrdersAreFinite == IsFiniteSet(Order)

(* Absence is not a row.                                                   *)
ASSUME NoneIsNoRow == None \notin Version

VARIABLES
    pc,         \* request -> the statement it is about to execute
    job,        \* request -> its endpoint and arguments
    todo,       \* request -> lines a loop has still to visit
    at,         \* request -> the line the loop is at
    seen,       \* request -> the value its guards were decided on
    put         \* request -> items whose stock it has put back

(* History variables: they record what has committed and guard nothing.    *)
VARIABLES
    returned,   \* item -> how many times its quantity went back into stock
    supply,     \* variant -> units the seller ever provided
    raced       \* orders whose status was overwritten by a request that had
                \* decided on an older status

locals == <<job, todo, at, seen, put>>
history == <<returned, supply, raced>>
vars == <<db, pend, pc, locals, history>>

-----------------------------------------------------------------------------
(* The order state machine, app/order/model.py.                            *)

SellerTransitions ==
    [PLACED           |-> {"CONFIRMED", "CANCELLED"},
     CONFIRMED        |-> {"SHIPPED", "READY_FOR_PICKUP", "CANCELLED"},
     SHIPPED          |-> {"DELIVERED"},
     DELIVERED        |-> {},
     READY_FOR_PICKUP |-> {"PICKED_UP"},
     PICKED_UP        |-> {},
     CANCELLED        |-> {}]

(* Mutant: the fulfilment type is not considered.                          *)
SellerMayMoveAnyFulfillment(from, to, fulfillment) == to \in SellerTransitions[from]

SellerMayMove(from, to, fulfillment) ==
    /\ to \in {"SHIPPED", "DELIVERED"} => fulfillment = "DELIVERY"
    /\ to \in {"READY_FOR_PICKUP", "PICKED_UP"} => fulfillment = "PICKUP"
    /\ to \in SellerTransitions[from]

(* Mutant: the "already cancelled" case is lost.                           *)
CustomerMayCancelAgain(from) == from \in {"PLACED", "CONFIRMED", "CANCELLED"}

CustomerMayCancel(from) == from \in {"PLACED", "CONFIRMED"}

(* The listing state machine, app/business_book/model.py.                  *)
ListingMayMove(from, to) ==
    \/ from = "DRAFT" /\ to \in {"DRAFT", "ACTIVE"}
    \/ from \in {"ACTIVE", "INACTIVE"} /\ to \in {"ACTIVE", "INACTIVE"}

-----------------------------------------------------------------------------
(* The arguments of each endpoint.                                         *)
Cart == UNION {[S -> 1..MaxQuantity] : S \in (SUBSET Variant) \ {{}}}

NoJob == [op |-> "none"]
CheckoutJob == [op : {"checkout"}, order : Order, cart : Cart, fulfillment : Offered]
CancelJob == [op : {"cancel"}, order : Order, target : {"CANCELLED"}]
StatusJob == [op : {"status"}, order : Order, target : OrderStatus]
SetStockJob == [op : {"setStock"}, variant : Variant, stock : -1..MaxStock]
DeleteVariantJob == [op : {"deleteVariant"}, variant : Variant]
DeleteItemJob == [op : {"deleteItem"}, item : Item]
SetListingJob == [op : {"setListing"}, listing : Listing,
                  target : {"DRAFT", "ACTIVE", "INACTIVE"}]
DeleteListingJob == [op : {"deleteListing"}, listing : Listing]

(* Variants exist in an active listing; no order has been placed.          *)
InitialRow(k) ==
    IF k \in Variant THEN [stock |-> InitialStock[k], live |-> TRUE]
    ELSE IF k \in Listing THEN [status |-> "ACTIVE", live |-> TRUE]
    ELSE IF k \in Order THEN [status |-> "ABSENT", fulfillment |-> "DELIVERY",
                              units |-> [v \in Variant |-> 0]]
    ELSE [quantity |-> 0, live |-> FALSE]

Init ==
    /\ db = [k \in Key |-> InitialRow(k)]
    /\ pend = [r \in Request |-> NoWrites]
    /\ pc = [r \in Request |-> "new"]
    /\ job = [r \in Request |-> NoJob]
    /\ todo = [r \in Request |-> {}]
    /\ at = [r \in Request |-> None]
    /\ seen = [r \in Request |-> None]
    /\ put = [r \in Request |-> {}]
    /\ returned = [i \in Item |-> 0]
    /\ supply = InitialStock
    /\ raced = {}

Goto(r, label) == pc' = [pc EXCEPT ![r] = label]

(* A loop takes its next line from S, in an order no caller controls, or   *)
(* falls through to the label after it.                                    *)
Loop(r, S, label, after) ==
    /\ todo' = [todo EXCEPT ![r] = S]
    /\ \/ /\ S = {}
          /\ at' = [at EXCEPT ![r] = None]
          /\ Goto(r, after)
       \/ \E v \in S :
            /\ at' = [at EXCEPT ![r] = v]
            /\ Goto(r, label)

(* A request that ends forgets its local state.                            *)
End(r, outcome) ==
    /\ Goto(r, outcome)
    /\ job' = [job EXCEPT ![r] = NoJob]
    /\ todo' = [todo EXCEPT ![r] = {}]
    /\ at' = [at EXCEPT ![r] = None]
    /\ seen' = [seen EXCEPT ![r] = None]
    /\ put' = [put EXCEPT ![r] = {}]

(* Mutant: get_db commits whatever was written before the exception.       *)
FailKeepingWrites(r) ==
    /\ CommitWrites(r)
    /\ End(r, "failed")
    /\ UNCHANGED history

(* Mutant: get_db does not roll back, the connection keeps its locks.      *)
FailKeepingLocks(r) ==
    /\ End(r, "failed")
    /\ UNCHANGED <<db, pend, history>>

(* The handler raises: get_db rolls back and re-raises.                    *)
Fail(r) ==
    /\ DiscardWrites(r)
    /\ End(r, "failed")
    /\ UNCHANGED history

Begin(r, Jobs, label) ==
    /\ pc[r] = "new"
    /\ \E j \in Jobs :
         /\ j.op \in Operation
         /\ job' = [job EXCEPT ![r] = j]
    /\ Goto(r, label)
    /\ UNCHANGED <<db, pend, todo, at, seen, put, history>>

-----------------------------------------------------------------------------
(* POST /orders: OrderService.create.                                      *)

BeginCheckout(r) ==
    \E j \in CheckoutJob :
        /\ pc[r] = "new"
        /\ j.op \in Operation
        /\ job' = [job EXCEPT ![r] = j]
        /\ Loop(r, DOMAIN j.cart, "resolve", "place")
        /\ UNCHANGED <<db, pend, seen, put, history>>

Purchasable(r, v) ==
    LET variant == View(r, v)
        listing == View(r, ListingOf[v])
    IN  /\ variant.live
        /\ listing.live /\ listing.status = "ACTIVE"
        /\ variant.stock >= job[r].cart[v]

ResolveLine(r) ==
    /\ pc[r] = "resolve"
    /\ \/ /\ Purchasable(r, at[r])
          /\ Loop(r, todo[r] \ {at[r]}, "resolve", "place")
          /\ UNCHANGED <<db, pend, job, seen, put, history>>
       \/ ~Purchasable(r, at[r]) /\ Fail(r)

(* The cart's total is not the client's, its currency or its sellers do    *)
(* not agree, or the address or pickup point is not usable.                *)
RejectCheckout(r) == pc[r] = "place" /\ Fail(r)

CartUnits(cart) == [v \in Variant |-> IF v \in DOMAIN cart THEN cart[v] ELSE 0]

(* Mutant: the status falls back to the ORM default.                       *)
OrderWithDefaultStatus(r) ==
    [status |-> "ACTIVE", fulfillment |-> job[r].fulfillment,
     units |-> CartUnits(job[r].cart)]

(* The row create_order inserts, its total that of the resolved lines.     *)
PlacedOrder(r) ==
    [status |-> "PLACED", fulfillment |-> job[r].fulfillment,
     units |-> CartUnits(job[r].cart)]

(* The INSERT waits while another transaction inserts the same reference   *)
(* and fails on the unique index when a committed order has it.            *)
InsertOrder(r) ==
    LET o == job[r].order IN
    /\ pc[r] = "place"
    /\ \/ /\ db[o].status = "ABSENT"
          /\ WriteRow(r, o, PlacedOrder(r))
          /\ Loop(r, DOMAIN job[r].cart, "deduct", "commit")
          /\ UNCHANGED <<job, seen, put, history>>
       \/ db[o].status # "ABSENT" /\ Fail(r)

(* Mutants: the WHERE clause lacks its stock or its deleted_at condition.  *)
DeductibleAtAnyStock(r, v) == View(r, v).live
DeductibleWhenDeleted(r, v) == View(r, v).stock >= job[r].cart[v]

(* deduct_stock's WHERE clause.                                            *)
Deductible(r, v) == View(r, v).live /\ View(r, v).stock >= job[r].cart[v]

(* Mutant: the result of deduct_stock is ignored.                          *)
DeductLineUnchecked(r) ==
    LET v == at[r]
        item == [quantity |-> job[r].cart[v], live |-> TRUE]
    IN  /\ pc[r] = "deduct"
        /\ IF Deductible(r, v)
             THEN WriteRows2(r, v, [View(r, v) EXCEPT !.stock = @ - item.quantity],
                             <<job[r].order, v>>, item)
             ELSE WriteRow(r, <<job[r].order, v>>, item)
        /\ Loop(r, todo[r] \ {v}, "deduct", "commit")
        /\ UNCHANGED <<job, seen, put, history>>

(* deduct_stock, and the INSERT of the item that follows it.               *)
DeductLine(r) ==
    LET v == at[r]
        quantity == job[r].cart[v]
    IN  /\ pc[r] = "deduct"
        /\ \/ /\ Deductible(r, v)
              /\ WriteRows2(r, v, [View(r, v) EXCEPT !.stock = @ - quantity],
                            <<job[r].order, v>>, [quantity |-> quantity, live |-> TRUE])
              /\ Loop(r, todo[r] \ {v}, "deduct", "commit")
              /\ UNCHANGED <<job, seen, put, history>>
           \/ ~Deductible(r, v) /\ Fail(r)

-----------------------------------------------------------------------------
(* POST /orders/{id}/cancel: OrderService.cancel_by_customer, and          *)
(* PATCH /business-orders/{id}/status: update_status_for_business.         *)

BeginCancel(r) == Begin(r, CancelJob, "read")

BeginStatus(r) == Begin(r, StatusJob, "read")

LiveItems(r, o) == {v \in Variant : View(r, <<o, v>>).live}

(* read_order_by_id; the customer's guard follows at once, the seller's    *)
(* only after one more SELECT.                                             *)
ReadOrder(r) ==
    LET status == View(r, job[r].order).status IN
    /\ pc[r] = "read"
    /\ \/ /\ status # "ABSENT"
          /\ job[r].op = "cancel" => CustomerMayCancel(status)
          /\ seen' = [seen EXCEPT ![r] = status]
          /\ Goto(r, IF job[r].op = "cancel" THEN "list" ELSE "belongs")
          /\ UNCHANGED <<db, pend, job, todo, at, put, history>>
       \/ /\ status = "ABSENT" \/ (job[r].op = "cancel" /\ ~CustomerMayCancel(status))
          /\ Fail(r)

(* order_belongs_to_business needs a live item; the transition is then     *)
(* judged on the status read before.                                       *)
CheckSeller(r) ==
    LET o == job[r].order
        allowed == /\ LiveItems(r, o) # {}
                   /\ SellerMayMove(seen[r], job[r].target, View(r, o).fulfillment)
    IN  /\ pc[r] = "belongs"
        /\ \/ /\ allowed
              /\ Goto(r, IF job[r].target = "CANCELLED" THEN "list" ELSE "mark")
              /\ UNCHANGED <<db, pend, locals, history>>
           \/ ~allowed /\ Fail(r)

(* _cancel_order: list_order_items_by_order_id.  The items of an order     *)
(* were created in one transaction, hence with one created_at: the ORDER   *)
(* BY leaves their order open.                                             *)
ListItems(r) ==
    /\ pc[r] = "list"
    /\ Loop(r, LiveItems(r, job[r].order), "restore", "mark")
    /\ UNCHANGED <<db, pend, job, seen, put, history>>

(* Mutant: the WHERE clause lacks its deleted_at condition.                *)
RestorableWhenDeleted(r, v) == TRUE

(* restore_stock's WHERE clause.                                           *)
Restorable(r, v) == View(r, v).live

(* restore_stock.  A deleted variant matches no row, which the loop does   *)
(* not notice.                                                             *)
RestoreLine(r) ==
    LET v == at[r]
        item == <<job[r].order, v>>
    IN  /\ pc[r] = "restore"
        /\ \/ /\ Restorable(r, v)
              /\ WriteRow(r, v, [View(r, v) EXCEPT !.stock = @ + View(r, item).quantity])
              /\ put' = [put EXCEPT ![r] = @ \cup {item}]
           \/ ~Restorable(r, v) /\ UNCHANGED <<db, pend, put>>
        /\ Loop(r, todo[r] \ {v}, "restore", "mark")
        /\ UNCHANGED <<job, seen, history>>

(* update_order: UPDATE orders SET status = ... WHERE id = ..., whatever   *)
(* the status has become since it was read.                                *)
MarkStatus(r) ==
    LET o == job[r].order IN
    /\ pc[r] = "mark"
    /\ WriteRow(r, o, [View(r, o) EXCEPT !.status = job[r].target])
    /\ Goto(r, "commit")
    /\ UNCHANGED <<locals, history>>

-----------------------------------------------------------------------------
(* PATCH and DELETE of a variant: VariantService.update and delete.        *)

BeginSetStock(r) == Begin(r, SetStockJob, "check")

BeginDeleteVariant(r) == Begin(r, DeleteVariantJob, "check")

(* _assert_variant_belongs_to_business_book.                               *)
CheckVariant(r) ==
    LET v == job[r].variant
        found == View(r, ListingOf[v]).live /\ View(r, v).live
    IN  /\ pc[r] = "check" /\ job[r].op \in {"setStock", "deleteVariant"}
        /\ \/ /\ found
              /\ Goto(r, IF job[r].op = "setStock" THEN "load" ELSE "removeVariant")
              /\ UNCHANGED <<db, pend, locals, history>>
           \/ ~found /\ Fail(r)

(* update_variant reads the row again and assigns the new stock; a value   *)
(* equal to the one read leaves nothing to flush.                          *)
LoadVariant(r) ==
    LET v == job[r].variant IN
    /\ pc[r] = "load"
    /\ \/ /\ View(r, v).live
          /\ seen' = [seen EXCEPT ![r] = View(r, v).stock]
          /\ Goto(r, IF View(r, v).stock = job[r].stock THEN "commit" ELSE "writeStock")
          /\ UNCHANGED <<db, pend, job, todo, at, put, history>>
       \/ ~View(r, v).live /\ Fail(r)

(* The flush: UPDATE variants SET stock = n WHERE id = ..., subject to     *)
(* ck_variants_stock_non_negative.                                         *)
WriteStock(r) ==
    LET v == job[r].variant IN
    /\ pc[r] = "writeStock"
    /\ \/ /\ job[r].stock >= 0
          /\ WriteRow(r, v, [View(r, v) EXCEPT !.stock = job[r].stock])
          /\ Goto(r, "commit")
          /\ UNCHANGED <<locals, history>>
       \/ job[r].stock < 0 /\ ~HeldByOther(r, v) /\ Fail(r)

(* soft_delete_variant.                                                    *)
RemoveVariant(r) ==
    LET v == job[r].variant IN
    /\ pc[r] = "removeVariant"
    /\ \/ /\ View(r, v).live
          /\ WriteRow(r, v, [View(r, v) EXCEPT !.live = FALSE])
          /\ Goto(r, "commit")
          /\ UNCHANGED <<locals, history>>
       \/ ~View(r, v).live /\ Fail(r)

-----------------------------------------------------------------------------
(* DELETE /orders/{order_id}/items/{id}: OrderItemService.delete.  Neither *)
(* the stock nor the order is touched.                                     *)

BeginDeleteItem(r) == Begin(r, DeleteItemJob, "check")

CheckItem(r) ==
    LET found == View(r, job[r].item).live IN
    /\ pc[r] = "check" /\ job[r].op = "deleteItem"
    /\ \/ /\ found
          /\ Goto(r, "removeItem")
          /\ UNCHANGED <<db, pend, locals, history>>
       \/ ~found /\ Fail(r)

RemoveItem(r) ==
    LET i == job[r].item IN
    /\ pc[r] = "removeItem"
    /\ \/ /\ View(r, i).live
          /\ WriteRow(r, i, [View(r, i) EXCEPT !.live = FALSE])
          /\ Goto(r, "commit")
          /\ UNCHANGED <<locals, history>>
       \/ ~View(r, i).live /\ Fail(r)

-----------------------------------------------------------------------------
(* PATCH and DELETE of a listing: BusinessBookService.update and delete.   *)

BeginSetListing(r) == Begin(r, SetListingJob, "check")

BeginDeleteListing(r) == Begin(r, DeleteListingJob, "check")

CheckListing(r) ==
    LET listing == View(r, job[r].listing)
        allowed == /\ listing.live
                   /\ job[r].op = "setListing" => ListingMayMove(listing.status, job[r].target)
    IN  /\ pc[r] = "check" /\ job[r].op \in {"setListing", "deleteListing"}
        /\ \/ /\ allowed
              /\ seen' = [seen EXCEPT ![r] = listing.status]
              /\ Goto(r, IF job[r].op = "setListing" THEN "reload" ELSE "select")
              /\ UNCHANGED <<db, pend, job, todo, at, put, history>>
           \/ ~allowed /\ Fail(r)

(* update_business_book's SELECT: it finds no row when the listing has     *)
(* been deleted, else the session returns the object of the first read, so *)
(* that an unchanged status is not flushed.                                *)
ReloadListing(r) ==
    /\ pc[r] = "reload"
    /\ \/ /\ View(r, job[r].listing).live
          /\ Goto(r, IF seen[r] = job[r].target THEN "commit" ELSE "writeListing")
          /\ UNCHANGED <<db, pend, locals, history>>
       \/ ~View(r, job[r].listing).live /\ Fail(r)

WriteListing(r) ==
    LET l == job[r].listing IN
    /\ pc[r] = "writeListing"
    /\ WriteRow(r, l, [View(r, l) EXCEPT !.status = job[r].target])
    /\ Goto(r, "commit")
    /\ UNCHANGED <<locals, history>>

ListingVariants(r) ==
    {v \in Variant : ListingOf[v] = job[r].listing /\ View(r, v).live}

(* soft_delete_variants_by_business_book: the ids are selected first, and  *)
(* the UPDATE that follows locks the selected rows one by one.             *)
SelectVariants(r) ==
    /\ pc[r] = "select"
    /\ Loop(r, ListingVariants(r), "cascade", "removeListing")
    /\ UNCHANGED <<db, pend, job, seen, put, history>>

CascadeLine(r) ==
    LET v == at[r] IN
    /\ pc[r] = "cascade"
    /\ WriteRow(r, v, [View(r, v) EXCEPT !.live = FALSE])
    /\ Loop(r, todo[r] \ {v}, "cascade", "removeListing")
    /\ UNCHANGED <<job, seen, put, history>>

RemoveListing(r) ==
    LET l == job[r].listing IN
    /\ pc[r] = "removeListing"
    /\ \/ /\ View(r, l).live
          /\ WriteRow(r, l, [status |-> "DELETED", live |-> FALSE])
          /\ Goto(r, "commit")
          /\ UNCHANGED <<locals, history>>
       \/ ~View(r, l).live /\ Fail(r)

-----------------------------------------------------------------------------
(* The end of a transaction.                                               *)

(* get_db commits.  The history variables take note of what became true.   *)
Commit(r) ==
    /\ pc[r] = "commit"
    /\ CommitWrites(r)
    /\ returned' = [i \in Item |-> IF i \in put[r] THEN returned[i] + 1 ELSE returned[i]]
    /\ supply' = IF job[r].op = "setStock"
                   THEN [supply EXCEPT ![job[r].variant] =
                           @ + View(r, job[r].variant).stock - db[job[r].variant].stock]
                   ELSE supply
    /\ raced' = IF job[r].op \in {"cancel", "status"} /\ db[job[r].order].status # seen[r]
                  THEN raced \cup {job[r].order}
                  ELSE raced
    /\ End(r, "done")

Active(r) == pc[r] \notin {"new", "done", "failed"}

(* The connection or the process dies: PostgreSQL discards the             *)
(* transaction.                                                            *)
ConnectionLost(r) == Active(r) /\ Fail(r)

(* The row the next statement of r writes.                                 *)
Target(r) ==
    CASE pc[r] \in {"place", "mark"} -> job[r].order
      [] pc[r] \in {"deduct", "restore", "cascade"} -> at[r]
      [] pc[r] \in {"writeStock", "removeVariant"} -> job[r].variant
      [] pc[r] = "removeItem" -> job[r].item
      [] pc[r] \in {"writeListing", "removeListing"} -> job[r].listing

(* Its WHERE clause matches the committed row: a statement that matches    *)
(* nothing does not wait.                                                  *)
Matches(r) ==
    CASE pc[r] = "place"  -> db[job[r].order].status = "ABSENT"
      [] pc[r] = "deduct" -> Deductible(r, at[r])
      [] pc[r] \in {"mark", "cascade", "writeStock", "writeListing"} -> TRUE
      [] pc[r] = "restore" -> Restorable(r, at[r])
      [] pc[r] \in {"removeVariant", "removeItem", "removeListing"} ->
             View(r, Target(r)).live
      [] OTHER -> FALSE

WaitsFor(r, s) == s # r /\ Matches(r) /\ Holds(s, Target(r))

(* PostgreSQL's deadlock detector aborts a member of a cycle of waits.     *)
DeadlockAbort(r) ==
    /\ \E S \in SUBSET Request :
          r \in S /\ \A s \in S : \E t \in S : WaitsFor(s, t)
    /\ Fail(r)

-----------------------------------------------------------------------------
BeginAny(r) ==
    \/ BeginCheckout(r) \/ BeginCancel(r) \/ BeginStatus(r) \/ BeginSetStock(r)
    \/ BeginDeleteVariant(r) \/ BeginDeleteItem(r) \/ BeginSetListing(r)
    \/ BeginDeleteListing(r)

Statement(r) ==
    \/ ResolveLine(r) \/ InsertOrder(r) \/ DeductLine(r)
    \/ ReadOrder(r) \/ CheckSeller(r) \/ ListItems(r) \/ RestoreLine(r) \/ MarkStatus(r)
    \/ CheckVariant(r) \/ LoadVariant(r) \/ WriteStock(r) \/ RemoveVariant(r)
    \/ CheckItem(r) \/ RemoveItem(r)
    \/ CheckListing(r) \/ ReloadListing(r) \/ WriteListing(r)
    \/ SelectVariants(r) \/ CascadeLine(r) \/ RemoveListing(r)
    \/ Commit(r)

Next == \E r \in Request :
    BeginAny(r) \/ Statement(r) \/ RejectCheckout(r) \/ ConnectionLost(r) \/ DeadlockAbort(r)

Spec == Init /\ [][Next]_vars

(* The event loop runs every handler on, and the deadlock detector runs    *)
(* after deadlock_timeout.  Clients need not send anything.                *)
FairSpec ==
    /\ Spec
    /\ \A r \in Request : WF_vars(Statement(r)) /\ WF_vars(DeadlockAbort(r))
-----------------------------------------------------------------------------
(* Properties.                                                             *)

Label == {"new", "done", "failed", "resolve", "place", "deduct",
          "read", "belongs", "list", "restore", "mark",
          "check", "load", "writeStock", "removeVariant", "removeItem",
          "reload", "writeListing", "select", "cascade", "removeListing", "commit"}

Job == {NoJob} \cup CheckoutJob \cup CancelJob \cup StatusJob \cup SetStockJob
         \cup DeleteVariantJob \cup DeleteItemJob \cup SetListingJob \cup DeleteListingJob

(* A request is at a statement of the handler of its own endpoint, and its *)
(* loops visit lines of its own cart.                                      *)
RequestOK(r) ==
    /\ pc[r] \in {"new", "done", "failed"} => job[r] = NoJob
    /\ pc[r] \in {"resolve", "place", "deduct"} => job[r] \in CheckoutJob
    /\ pc[r] \in {"resolve", "deduct"} => at[r] \in todo[r] /\ todo[r] \subseteq DOMAIN job[r].cart
    /\ pc[r] \in {"read", "list", "restore", "mark"} => job[r] \in CancelJob \cup StatusJob
    /\ pc[r] = "belongs" => job[r] \in StatusJob
    /\ pc[r] \in {"restore", "cascade"} => at[r] \in todo[r]
    /\ pc[r] = "check" => job[r] \in SetStockJob \cup DeleteVariantJob \cup DeleteItemJob
                                      \cup SetListingJob \cup DeleteListingJob
    /\ pc[r] \in {"load", "writeStock"} => job[r] \in SetStockJob
    /\ pc[r] = "removeVariant" => job[r] \in DeleteVariantJob
    /\ pc[r] = "removeItem" => job[r] \in DeleteItemJob
    /\ pc[r] \in {"reload", "writeListing"} => job[r] \in SetListingJob
    /\ pc[r] \in {"select", "cascade", "removeListing"} => job[r] \in DeleteListingJob
    /\ pc[r] = "commit" => job[r] # NoJob

(* Committed and pending rows are rows of their table.                     *)
RowsOK ==
    /\ db \in [Key -> Version]
    /\ \A k \in Key : db[k] \in RowType(k)
    /\ pend \in [Request -> [Key -> Version \cup {None}]]
    /\ \A r \in Request : \A k \in Key : pend[r][k] \in RowType(k) \cup {None}

LocalsOK ==
    /\ pc \in [Request -> Label]
    /\ job \in [Request -> Job]
    /\ todo \in [Request -> SUBSET Variant]
    /\ DOMAIN at = Request
    /\ DOMAIN seen = Request
    /\ put \in [Request -> SUBSET Item]

HistoryOK ==
    /\ returned \in [Item -> Nat]
    /\ supply \in [Variant -> Int]
    /\ raced \subseteq Order

(* Every variable has its type, and every request is at a statement of its *)
(* own handler.                                                            *)
TypeOK ==
    /\ RowsOK
    /\ LocalsOK
    /\ HistoryOK
    /\ \A r \in Request : RequestOK(r)

(* The units of v that each order has taken and not given back.            *)
Outstanding(v) == [o \in Order |-> db[<<o, v>>].quantity * (1 - returned[<<o, v>>])]

(* Stock is neither created nor lost: what a variant has is what its       *)
(* seller provided, less what every committed order took, plus what every  *)
(* committed cancellation put back.  deduct_stock and restore_stock run    *)
(* in as many statements as the order has lines, between other requests'.  *)
StockConserved ==
    \A v \in Variant : db[v].stock = supply[v] - SumFunction(Outstanding(v))

(* No statement of checkout, cancellation or deletion ever relies on       *)
(* ck_variants_stock_non_negative: neither a committed nor a pending       *)
(* variant row has negative stock, however checkouts interleave.           *)
StockNeverNegative ==
    \A v \in Variant :
        /\ db[v].stock >= 0
        /\ \A r \in Request : Holds(r, v) => pend[r][v].stock >= 0

(* An order no request overwrote on a stale status settles exactly once:   *)
(* its items go back to stock only when it is cancelled, at most once, and *)
(* all of them do whose item and variant still exist.                      *)
UnracedOrdersSettle ==
    \A o \in Order \ raced : \A v \in Variant :
        /\ returned[<<o, v>>] <= IF db[o].status = "CANCELLED" THEN 1 ELSE 0
        /\ db[o].status = "CANCELLED" /\ db[<<o, v>>].live /\ db[v].live
             => returned[<<o, v>>] = 1

(* How far an order has come; cancellation is beside the scale.            *)
Stage(status) ==
    CASE status = "ABSENT" -> 0
      [] status = "PLACED" -> 1
      [] status = "CONFIRMED" -> 2
      [] status \in {"SHIPPED", "READY_FOR_PICKUP"} -> 3
      [] status \in {"DELIVERED", "PICKED_UP"} -> 4
      [] status = "CANCELLED" -> 5

(* An order no request overwrote on a stale status advances one stage at a *)
(* time along its own fulfilment type, and is cancelled only before it     *)
(* leaves the shop, although the guards run statements before the write.   *)
UnracedStatusMoves ==
    [][\A o \in Order \ raced' :
         LET from == db[o].status
             to == db'[o].status
         IN  from # to =>
               /\ \/ Stage(to) = Stage(from) + 1 /\ to # "CANCELLED"
                  \/ to = "CANCELLED" /\ from \in {"PLACED", "CONFIRMED"}
               /\ to \in {"SHIPPED", "DELIVERED"} => db'[o].fulfillment = "DELIVERY"
               /\ to \in {"READY_FOR_PICKUP", "PICKED_UP"}
                    => db'[o].fulfillment = "PICKUP"]_vars

(* A committed order has all the lines its total was computed from: a      *)
(* checkout that fails at a later line leaves nothing behind.              *)
OrdersAreWhole ==
    \A o \in Order : \A v \in Variant : db[o].units[v] = db[<<o, v>>].quantity

(* No order is committed for a listing that is already deleted: the check  *)
(* of the listing is long past when the order commits, but the variant     *)
(* rows serialise the two.                                                 *)
NoSaleFromDeletedListing ==
    [][\A i \in Item :
         db[i].quantity = 0 /\ db'[i].quantity > 0
           => db[ListingOf[i[2]]].live /\ db[i[2]].live]_vars

(* The statement-level system implements the stock account.                *)
Account == INSTANCE StockAccount WITH
    stock <- [v \in Variant |-> db[v].stock],
    onSale <- {v \in Variant : db[v].live},
    sale <- [o \in Order |-> [v \in Variant |-> db[<<o, v>>].quantity]]

(* Every commit moves stock as one whole sale, return, recount or          *)
(* retirement, and nothing else moves it.                                  *)
ImplementsAccount == Account!Spec

(* A request that has begun ends, whatever the row locks others hold.      *)
EveryRequestEnds ==
    \A r \in Request : Active(r) ~> pc[r] \in {"done", "failed"}

(* "Order is already cancelled", says app/order/model.py: such an order is *)
(* not cancelled again.                                                    *)
CancelledOnlyOnce ==
    [][\A r \in Request :
         pc[r] = "commit" /\ pc'[r] = "done" /\ job[r].op \in {"cancel", "status"}
             /\ job[r].target = "CANCELLED"
           => db[job[r].order].status # "CANCELLED"]_vars
=============================================================================
