SPECIFICATION Spec
CONSTANTS
    Process = {p1, p2}
    Token = {t1, t2}
    Lifetime = 3
    Inactivity = 2
    MaxPassword = 1
    MaxVersion = 2
    MaxNow = 3
    Credential = {d1, d2}
    ChallengeTime = 1
    MaxChallenges = 3
    MaxHour = 2
    Address = {a1}
    Taste = {x1}
    Unset = Unset
    MaxProfile = 3
    Purchase = {u1, u2, u3}
    Words = {m1}
    Desk = {g1}
    NoReview = NoReview
    MaxRead = 3
    MaxDecisions = 2
    NoAsk = NoAsk
    MaxTurns = 2
    MaxAsks = 2
    Submission = {s1}
    citrusScent = citrusScent
    woodyScent = woodyScent
    citrus = citrus
    woody = woody
    Scent = {citrusScent, woodyScent}
    Value = {citrus, woody}
    Traits <- MCTraits
    MaxSelections = 2
    Questions = 2
    MaxChanges = 1
    Variant = {v1}
    Order = {o1, o2}
    Code = {b1, b2}
    BatchKey = {k1, k2}
    Quantity = {1}
    NoRow = NoRow
    MaxTime = 1
    Batch = {i1, i2}
    Unreleased = Unreleased
    MaxLoads = 4
    Perfume = {f1, f2}
    VariantId = {w1, w2}
    Text = {y1, y2}
    Offer = {z1, z2}
    CreateKey = {k1}
    Absent = Absent
    MaxCatalogue = 3
    PromotionId = {q1, q2}
    PromoCode = {A, B}
    Rule = Rule
    Content = {c1}
    NoValue = NoValue
    MaxGenerations = 3
    n1 = n1
    n2 = n2
    Product = {n1, n2}
    Demo = Demo
    Note = {r1}
    Missing = Missing
    MaxEditions = 2
    MaxSales = 1
    Method = {h1, h2}
    Nothing = Nothing
    MaxCartChanges = 1
    MaxKeys = 2
    MaxRuns = 2
    MaxVerifyReads = 2
    MaxCalls = 2
    Tab = {j1, j2}
    Row = {r2, r3}
    Blank = Blank
    MaxQuantityOfRow = 2
    MaxCartRevision = 5
SYMMETRY Symmetry
INVARIANTS
    ResetEndsSessions
    ChallengeServesOnce
    CurrentIdentityFits
    OwnDecisionShown
    OneRunPerAnswer
    NothingRetiredMeanwhile
    BooksAgree
    InventoryAnswersStayTrue
    ReleaseNeverRefused
    OpenedRevisionIsCurrent
    OneGeneration
    StockIsOpenedOnce
    KeyServesOneRequest
    ConfirmedIsPaid
PROPERTIES
    ServedAreEligible
    NotTurnedAnonymous
    LateReplyDropped
    ClickMeansWhatItShowed
    CreationsAreOnce
CHECK_DEADLOCK FALSE
