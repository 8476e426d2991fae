SPECIFICATION Spec
CONSTANTS
    None = None
    Request = {r1, r2, r3}
    Business = {b1, b2}
    m1 = m1
    m2 = m2
    Mapping = {m1, m2, m3}
    u1 = u1
    u2 = u2
    User = {u1, u2}
    OwnerRole = owner
    HiredAs = staff
    Role = {owner, staff}
    Home = b1
    Owner = u1
    Hired = {u2}
    MappingOf <- MCMappingOf
    Op = {"login", "toCustomer", "toBusiness", "create", "handOver", "delete", "add", "reassign", "remove", "drop", "grant"}
    Body <- MCBody
SYMMETRY MCSymmetry
INVARIANTS NobodyTwice StoredSessionIsCurrent
PROPERTIES FoundedWithOwner
CHECK_DEADLOCK FALSE
