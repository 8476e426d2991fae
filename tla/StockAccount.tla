---------------------------- MODULE StockAccount -----------------------------
(***************************************************************************)
(* What the order system promises about stock, with no requests, locks or  *)
(* statements: an account of units per variant that is only moved by whole *)
(* sales, returns of sold lines, a seller's recount, and retirement.       *)
(* OrderStock is shown to implement it.                                    *)
(***************************************************************************)
EXTENDS Integers

CONSTANTS Variant, Order, InitialStock, MaxStock, MaxQuantity

VARIABLES
    stock,      \* variant -> units for sale
    onSale,     \* the variants that are not retired
    sale        \* order -> variant -> units sold to it

vars == <<stock, onSale, sale>>

Nothing == [v \in Variant |-> 0]

Init ==
    /\ stock = InitialStock
    /\ onSale = Variant
    /\ sale = [o \in Order |-> Nothing]

(* An order that did not exist takes all of its lines at once, every line  *)
(* from a variant on sale with enough stock.                               *)
Sell(o, lines) ==
    /\ sale[o] = Nothing
    /\ lines # Nothing
    /\ \A v \in Variant : lines[v] > 0 => v \in onSale /\ lines[v] <= stock[v]
    /\ stock' = [v \in Variant |-> stock[v] - lines[v]]
    /\ sale' = [sale EXCEPT ![o] = lines]
    /\ UNCHANGED onSale

(* Some lines of one order go back, each whole, to variants on sale.       *)
Return(o, lines) ==
    /\ \A v \in lines : v \in onSale /\ sale[o][v] > 0
    /\ stock' = [v \in Variant |-> IF v \in lines THEN stock[v] + sale[o][v] ELSE stock[v]]
    /\ UNCHANGED <<onSale, sale>>

(* The seller counts again.                                                *)
Recount(v, n) ==
    /\ stock' = [stock EXCEPT ![v] = n]
    /\ UNCHANGED <<onSale, sale>>

Retire(S) ==
    /\ onSale' = onSale \ S
    /\ UNCHANGED <<stock, sale>>

Next ==
    \/ \E o \in Order, lines \in [Variant -> 0..MaxQuantity] : Sell(o, lines)
    \/ \E o \in Order, lines \in SUBSET Variant : Return(o, lines)
    \/ \E v \in Variant, n \in 0..MaxStock : Recount(v, n)
    \/ \E S \in SUBSET Variant : Retire(S)

Spec == Init /\ [][Next]_vars
=============================================================================
