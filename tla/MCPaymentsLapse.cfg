SPECIFICATION FairSpec
CONSTANTS
    o1 = o1
    o2 = o2
    o3 = o3
    v1 = v1
    v2 = v2
    c1 = c1
    Order = {o1}
    Variant = {v1}
    MaxQuantity = 1
    Demand <- OneUnitEach
    Process = {p1}
    Customer = {c1}
    Buyer <- OneBuyer
    Referred = {}
    NoOrder = NoOrder
    InitialStock <- OneUnit
    Batch = {}
    BatchVariant <- BatchOfV1
    BatchSize <- OneUnitBatches
    MaxBatch = 1
    Window = 1
    MaxClock = 2
    MaxAttempt = 2
PROPERTIES LapsedHoldsAreReleased
CHECK_DEADLOCK FALSE
