\* Two mirrors and a client at a time, in two instances (see MCControlInstances);
\* no sync loop.
SPECIFICATION MCSpec
CONSTANTS
    own = own  m1 = m1  m2 = m2  q1 = q1  q2 = q2
    None = None
    Owner = own
    Mirror = {m1, m2}
    Channel = {c1}
    Token = {}
    Request = {q1}
    Kinds = {"read", "ignore", "unignore", "purge"}
    Loops = {}
    MaxPins = 1
    Skew = FALSE
    MaxRev = 2
    MaxTime = 2
    MaxCrash = 1
SYMMETRY Mirrors
INVARIANTS ReadsHonorAcks TypeOK AppliedIsEnforced AckedIsEnforced
