SPECIFICATION PagesSpec
CONSTANTS
    None = None
    Same = same
    r1 = r1
    r2 = r2
    r3 = r3
    l1 = l1
    l2 = l2
    l3 = l3
    v1 = v1
    v2 = v2
    v3 = v3
    v4 = v4
    o1 = o1
    o2 = o2
    o3 = o3
    t1 = t1
    t2 = t2
    t3 = t3
    b1 = b1
    b2 = b2
    s1 = s1
    s2 = s2
    n1 = n1
    n2 = n2
    Request = {r1, r2, r3}
    Listing = {l1, l2, l3}
    Variant = {v1, v2, v3, v4}
    Option = {o1, o2, o3}
    Kind = {t1, t2, t3}
    Book = {b1, b2}
    Shop = {s1, s2}
    Name = {n1, n2}
    Listed <- MCListed
    Stocked <- MCStocked
    Optioned <- MCOptioned
    Named <- MCNamed
    Configured <- MCConfigured
    Asked <- MCAsked
    c1 = c1
    Reader = {c1}
    Wanted <- MCWanted
    Limit = 2
    Beside = {r2, r3}
INVARIANTS OptionSetsDistinct NothingLeftBehind CountsMatchLists ShownAsItIs
CHECK_DEADLOCK FALSE
