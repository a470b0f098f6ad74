\* Pulls and pushes cross, clocks go back, and sessions and pins change too.
SPECIFICATION Spec
CONSTANTS
    own = own  m1 = m1  m2 = m2  q1 = q1  q2 = q2
    None = None
    Owner = own
    Mirror = {m1}
    Channel = {c1, c2}
    Token = {t1}
    Request = {q1}
    Kinds = {"purge", "pin"}
    Loops = {m1}
    MaxPins = 1
    Skew = TRUE
    MaxRev = 2
    MaxTime = 2
    MaxCrash = 0
INVARIANT NeverAhead
PROPERTY ImplementsLog
