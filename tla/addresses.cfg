SPECIFICATION Spec
CONSTANTS
    None = None
    Request = {r1, r2, r3}
    Kind = {"user", "business"}
    Address = {a1, a2, a3, a4}
    Saved = {a1, a2}
    First = a1
    MaxAddresses = 3
    Op = {"create", "update", "delete", "choose"}
SYMMETRY MCSymmetry
INVARIANTS AtMostOneChosen BookInOrder
PROPERTIES ChosenIsKept
CHECK_DEADLOCK FALSE
