SPECIFICATION AccountSpec
CONSTANTS
    None = None
    Request = {r1, r2, r3}
    a1 = a1
    a2 = a2
    a3 = a3
    a4 = a4
    u1 = u1
    u2 = u2
    u3 = u3
    Account = {a1, a2, a3, a4}
    User = {u1, u2, u3}
    UserOf <- MCUserOf
    Founder = a1
    Member = {a2}
    Endpoint = {"transfer", "update", "delete", "create"}
SYMMETRY MCSymmetry
INVARIANTS OneSuperAdminUnlessOvertaken
PROPERTIES RoleMovesByTransfer
CHECK_DEADLOCK FALSE
