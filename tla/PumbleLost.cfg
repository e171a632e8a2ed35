SPECIFICATION Spec
CONSTANTS
    m1 = m1
    m2 = m2
    Message = {m1, m2}
    Plans <- MCPlans
    None = None
INVARIANT AckedDelivered
CHECK_DEADLOCK FALSE
