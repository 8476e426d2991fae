--------------------------- MODULE MCOrderHistory ----------------------------
(* A small instance of OrderHistory for TLC: a customer with three orders, *)
(* two of them of one seller, who is read page by page or order by order   *)
(* while two other requests write.                                         *)
EXTENDS OrderHistory, TLC

CONSTANTS r1, r2, r3, c1, c2, s1, s2, v1, v2, v3, o1, o2, o3, o4, o5, n1, n2, n3, n4, n5

MCSellerOf == (v1 :> s1) @@ (v2 :> s1) @@ (v3 :> s2)

(* Half of 99 cents is a case for rounding.                                *)
MCPriced ==
    (v1 :> [state |-> "live", price |-> 99, off |-> 50])
    @@ (v2 :> [state |-> "live", price |-> 2, off |-> None])
    @@ (v3 :> [state |-> "live", price |-> 5, off |-> 100])

Past(c, s, n, total, at) ==
    [state |-> "live", by |-> c, seller |-> s, ref |-> n, total |-> total, at |-> at]
MCPlaced ==
    (o1 :> Past(c1, s1, n1, 102, 1)) @@ (o2 :> Past(c2, s2, n2, 5, 2)) @@ (o3 :> Past(c1, s1, n3, 2, 3))

Sold(v, q, u) == [state |-> "live", variant |-> v, quantity |-> q, unit |-> u]
MCBought ==
    (<<o1, 1>> :> Sold(v1, 2, 50)) @@ (<<o1, 2>> :> Sold(v2, 1, 2))
    @@ (<<o2, 1>> :> Sold(v3, 1, 5)) @@ (<<o3, 1>> :> Sold(v2, 1, 2))

Of(v, q) == [variant |-> v, quantity |-> q]
Buy(c, n, lines) == [op |-> "checkout", by |-> c, ref |-> n, lines |-> lines]
Unline(o, i) == [op |-> "deleteItem", order |-> o, item |-> i]
Patch(v, p, d) == [op |-> "reprice", variant |-> v, price |-> p, off |-> d]
Drop(v) == [op |-> "drop", variant |-> v]
Mine(c, size, search) == [op |-> "customerPages", by |-> c, size |-> size, search |-> search]
Theirs(s, size, search) == [op |-> "sellerPages", seller |-> s, size |-> size, search |-> search]

MCAsked ==
    (r1 :> {Mine(c1, 1, Reference), Mine(c1, 2, Reference), Mine(c1, 1, {n1, n4}),
            Theirs(s1, 1, Reference), Theirs(s1, 2, Reference), Theirs(s1, 1, {n1, n4}),
            [op |-> "customerOrder", by |-> c1, order |-> o1],
            [op |-> "customerOrder", by |-> c2, order |-> o1],
            [op |-> "sellerOrder", seller |-> s1, order |-> o1],
            [op |-> "sellerOrder", seller |-> s1, order |-> o3],
            [op |-> "sellerOrder", seller |-> s2, order |-> o1]})
    @@ (r2 :> {Buy(c1, n4, <<Of(v1, 1), Of(v2, 1), Of(v1, 1)>>), Buy(c1, n4, <<Of(v1, 2), Of(v3, 1)>>),
               Buy(c2, n5, <<Of(v2, 0)>>), Buy(c2, n5, <<>>), Buy(c1, n1, <<Of(v2, 1)>>),
               Unline(o1, <<o1, 1>>), Unline(o3, <<o3, 1>>), Unline(o1, <<o3, 1>>), Unline(o4, <<o4, 1>>), Drop(v1)})
    @@ (r3 :> {Buy(c1, n4, <<Of(v1, 1), Of(v1, 1)>>), Buy(c1, n5, <<Of(v2, 1)>>), Buy(c2, n5, <<Of(v3, 1)>>),
               Unline(o1, <<o1, 2>>), Unline(o3, <<o3, 1>>), Patch(v1, 98, Same), Patch(v1, Same, None),
               Patch(v1, 99, 50), Drop(v2), Drop(v1)})
=============================================================================
