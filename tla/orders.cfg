SPECIFICATION Spec
CONSTANTS
    None = None
    Request = {r1, r2, r3}
    Order = {o1, o2}
    Variant = {v1, v2}
    Listing = {l1}
    ListingOf <- MCListingOf
    InitialStock <- MCScarceStock
    MaxStock = 2
    MaxQuantity = 2
    Offered = {"DELIVERY", "PICKUP"}
    Operation = {"checkout", "cancel", "status", "setStock", "deleteVariant", "deleteItem"}
SYMMETRY MCSymmetry
INVARIANTS TypeOK UnracedOrdersSettle StockConserved StockNeverNegative OrdersAreWhole
PROPERTIES UnracedStatusMoves ImplementsAccount
CHECK_DEADLOCK FALSE
