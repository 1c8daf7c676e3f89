SPECIFICATION Spec
CONSTANTS
    v1 = v1
    plain = plain
    offer = offer
    engraved = engraved
    Process = {p1}
    Cart = {c1}
    Line = {plain}
    Variant = {v1}
    VariantOf <- SameVariant
    Promotion = {}
    NoPromotion = NoPromotion
    Price = {1, 2}
    Key = {k1}
    NoOrder = NoOrder
    MaxQuantity = 1
    MaxRevision = 3
SYMMETRY Symmetry
INVARIANT PricesAreConfirmed
CHECK_DEADLOCK FALSE
