SPECIFICATION PmSpec
CONSTANTS
    Process = {p1}
    PromotionId = {q1}
    PromoCode = {A, B}
    Rule = Rule
    Content = {c1}
    NoValue = NoValue
    MaxGenerations = 1
INVARIANT UnknownRulesFailClosed
CHECK_DEADLOCK FALSE
