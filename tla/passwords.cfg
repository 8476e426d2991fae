SPECIFICATION PasswordSpec
CONSTANTS
    None = None
    Request = {r1, r2, r3, r4}
    PlatformUser = {u1, u2}
    Secret = {first, second}
    PasswordEndpoint = {"login", "change", "request", "complete", "password", "suspend", "delete"}
SYMMETRY MCSymmetry
INVARIANTS ChangeComesFirst
PROPERTIES ResetSpendsToken
CHECK_DEADLOCK FALSE
