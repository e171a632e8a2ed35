SPECIFICATION Spec
CONSTANTS
    m1 = m1
    m2 = m2
    Message = {m1, m2}
    Plans <- MCPlans
    None = None
INVARIANT Consistent
INVARIANT RightPlace
INVARIANT ExactlyOnce
CHECK_DEADLOCK FALSE
