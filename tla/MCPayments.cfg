SPECIFICATION Spec
CONSTANTS
    o1 = o1
    o2 = o2
    o3 = o3
    v1 = v1
    v2 = v2
    c1 = c1
    Order = {o1, o2, o3}
    Variant = {v1, v2}
    MaxQuantity = 2
    Demand <- ThreeOrders
    Process = {p1, p2, p3}
    Customer = {c1}
    Buyer <- OneBuyer
    Referred = {c1}
    NoOrder = NoOrder
    InitialStock <- ScarceStock
    Batch = {b1}
    BatchVariant <- BatchOfV1
    BatchSize <- OneUnitBatches
    MaxBatch = 1
    Window = 1
    MaxClock = 2
    MaxAttempt = 2
SYMMETRY RequestSymmetry
CONSTRAINT OneTwoOrThreeOrders
INVARIANTS TypeOK StockAccounting PaidTogether FailedHoldsNothing NeverOversold
PROPERTIES AttemptsInOrder SettledIsFinal ImplementsLedger
CHECK_DEADLOCK FALSE
