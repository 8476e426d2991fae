SPECIFICATION Spec
CONSTANTS
    None = None
    Request = {r1, r2, r3}
    Invite = {i1, i2}
    Email = {e1}
    PrivilegeSet = {admin, editor}
    Invited = i1
    Invitee = e1
    FirstSet = admin
    FirstToken = first
    Op = {"create", "resend", "revoke", "validate", "accept", "reject", "signup", "deleteUser"}
SYMMETRY MCSymmetry
INVARIANTS PendingInvitesWereMailed ExpiredMeansLate
PROPERTIES AcceptanceIsWhole
CHECK_DEADLOCK FALSE
