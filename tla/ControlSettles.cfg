\* Every node comes to enforce the owner's state.
SPECIFICATION FairSpec
CONSTANTS
    own = own  m1 = m1  m2 = m2  q1 = q1  q2 = q2
    None = None
    Owner = own
    Mirror = {m1}
    Channel = {c1}
    Token = {}
    Request = {q1}
    Kinds = {"ignore"}
    Loops = {m1, own}
    MaxPins = 1
    Skew = FALSE
    MaxRev = 1
    MaxTime = 1
    MaxCrash = 1
PROPERTY PoliciesTakeEffect
