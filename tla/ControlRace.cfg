\* Two owners' sessions change the same channel at once.
SPECIFICATION Spec
CONSTANTS
    own = own  m1 = m1  m2 = m2  q1 = q1  q2 = q2
    None = None
    Owner = own
    Mirror = {m1}
    Channel = {c1}
    Token = {}
    Request = {q1, q2}
    Kinds = {"ignore", "unignore"}
    Loops = {}
    MaxPins = 1
    Skew = FALSE
    MaxRev = 2
    MaxTime = 2
    MaxCrash = 0
INVARIANT OptOutRecordsNothing
