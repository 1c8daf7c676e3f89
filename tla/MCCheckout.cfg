SPECIFICATION Spec
CONSTANTS
    v1 = v1
    plain = plain
    offer = offer
    engraved = engraved
    Process = {p1, p2}
    Cart = {c1, c2}
    Line = {plain, engraved}
    Variant = {v1}
    VariantOf <- SameVariant
    Promotion = {offer}
    NoPromotion = NoPromotion
    Price = {1}
    Key = {k1, k2}
    NoOrder = NoOrder
    MaxQuantity = 2
    MaxRevision = 3
SYMMETRY Symmetry
CONSTRAINT InBounds
INVARIANTS TypeOK LinesAreMerged OrderedAsShown OrderTakesCart AnswersStayTrue
CHECK_DEADLOCK FALSE
