SPECIFICATION Spec
CONSTANTS
    None = None
    Request = {r1, r2, r3}
    Order = {o1}
    Variant = {v1}
    Listing = {l1}
    ListingOf <- MCListingOf
    InitialStock <- MCScarceStock
    MaxStock = 2
    MaxQuantity = 1
    Offered = {"DELIVERY"}
    Operation = {"checkout", "cancel", "status"}
PROPERTIES CancelledOnlyOnce
CHECK_DEADLOCK FALSE
