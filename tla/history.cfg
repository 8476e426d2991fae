SPECIFICATION Spec
CONSTANTS
    None = None
    Same = same
    r1 = r1
    r2 = r2
    r3 = r3
    c1 = c1
    c2 = c2
    s1 = s1
    s2 = s2
    v1 = v1
    v2 = v2
    v3 = v3
    o1 = o1
    o2 = o2
    o3 = o3
    o4 = o4
    o5 = o5
    n1 = n1
    n2 = n2
    n3 = n3
    n4 = n4
    n5 = n5
    Request = {r1, r2, r3}
    Customer = {c1, c2}
    Seller = {s1, s2}
    Variant = {v1, v2, v3}
    Order = {o1, o2, o3, o4, o5}
    Reference = {n1, n2, n3, n4, n5}
    SellerOf <- MCSellerOf
    Priced <- MCPriced
    Placed <- MCPlaced
    Bought <- MCBought
    MaxLines = 2
    PreviewLimit = 1
    Asked <- MCAsked
INVARIANTS OrdersAddUp OneOrderPerReference QuoteHolds PagesAddUp AnnouncedPagesExist NoneMissed SellerIsServed
CHECK_DEADLOCK FALSE
