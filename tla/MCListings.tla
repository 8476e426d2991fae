----------------------------- MODULE MCListings ------------------------------
(* A small instance of Listings for TLC: two businesses with a listing     *)
(* each, and pages of at most two rows.                                    *)
EXTENDS ShopPages, TLC

CONSTANTS c1, r1, r2, r3, l1, l2, l3, v1, v2, v3, v4, o1, o2, o3, t1, t2, t3, b1, b2, s1, s2, n1, n2

MCListed ==
    (l1 :> [state |-> "live", status |-> "ACTIVE", book |-> b1, shop |-> s1])
    @@ (l2 :> [state |-> "live", status |-> "DRAFT", book |-> b1, shop |-> s2])

MCStocked ==
    (v1 :> [state |-> "live", listing |-> l1, stock |-> 1])
    @@ (v2 :> [state |-> "live", listing |-> l2, stock |-> 1])

MCOptioned ==
    (o1 :> [state |-> "live", kind |-> t1, value |-> n1])
    @@ (o2 :> [state |-> "live", kind |-> t2, value |-> n1])

MCNamed == (t1 :> [state |-> "live", name |-> n1]) @@ (t2 :> [state |-> "live", name |-> n2])

MCConfigured == {<<v1, o1>>, <<v1, o2>>, <<v2, o1>>}

Create(l, s, options, stock) ==
    [op |-> "createVariant", listing |-> l, shop |-> s, options |-> options, stock |-> stock]

Change(l, s, b, status) ==
    [op |-> "updateListing", listing |-> l, shop |-> s, book |-> b, status |-> status]

Stock(l, v, s, n) == [op |-> "updateVariant", listing |-> l, variant |-> v, shop |-> s, stock |-> n]
Remove(l, v, s) == [op |-> "deleteVariant", listing |-> l, variant |-> v, shop |-> s]
Unlist(l, s) == [op |-> "deleteListing", listing |-> l, shop |-> s]
Drop(k) == [op |-> "drop", row |-> k]
Configure(op, v, o) == [op |-> op, config |-> <<v, o>>]

MCAsked ==
    (r1 :> {Create(l1, s1, <<o1, o2>>, 1), Create(l1, s1, <<o1>>, 1), Create(l1, s1, <<o1, o1>>, 1),
            Create(l2, s1, <<o1>>, 1), Create(l1, s1, <<o2>>, -1), Create(l2, s2, <<o1>>, 0),
            Stock(l1, v1, s1, 0), Stock(l1, v2, s1, 0), Stock(l2, v2, s2, -1), Stock(l2, v2, s2, 0),
            Remove(l1, v1, s1), Remove(l1, v2, s1), Unlist(l1, s1), Unlist(l2, s1),
            Change(l1, s1, Same, "INACTIVE"), Change(l2, s2, Same, "INACTIVE"), Change(l2, s1, Same, "ACTIVE"),
            Change(l2, s2, b2, "ACTIVE"),
            Configure("touchConfig", v1, o1), Configure("addConfig", v1, o1), Configure("addConfig", v2, o2),
            [op |-> "createListing", book |-> b2, shop |-> s1],
            [op |-> "newOption", kind |-> t2, value |-> n2],
            [op |-> "newOption", kind |-> t3, value |-> n2],
            [op |-> "editOption", row |-> o2, kind |-> t1, value |-> n2],
            [op |-> "newKind", value |-> n1], [op |-> "close", row |-> s1]})
    @@ (r2 :> {Create(l1, s1, <<o2>>, 1), Stock(l1, v1, s1, 0), Remove(l1, v1, s1), Unlist(l1, s1),
               Change(l1, s1, b2, "INACTIVE"), Configure("dropConfig", v1, o2),
               [op |-> "editKind", row |-> t2, value |-> n1],
               Drop(b1), Drop(s1)})
    @@ (r3 :> {Create(l1, s1, <<o1>>, 1), Drop(o2), Drop(t2),
               [op |-> "editOption", row |-> o1, kind |-> Same, value |-> n2]})

MCWanted ==
    {[op |-> "offer", listing |-> l1], [op |-> "own", listing |-> l1, shop |-> s1],
     [op |-> "scoped", listing |-> l1, shop |-> s1], [op |-> "variants", book |-> None],
     [op |-> "variants", book |-> b1], [op |-> "offers", book |-> b1, except |-> l2],
     [op |-> "store", shop |-> s1], [op |-> "inventory", shop |-> s1]}
=============================================================================
