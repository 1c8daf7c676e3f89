SPECIFICATION Spec
CONSTANTS
    Process = {p1, p2, p3}
    Order = {o1, o2}
    Key = {k1, k2}
    NoKey = NoKey
SYMMETRY Symmetry
INVARIANTS TypeOK PromisedStaysHome OrderFollowsShipment EventsTellJourney
PROPERTIES CancellationIsOnce ImplementsLife
CHECK_DEADLOCK FALSE
