--------------------------- MODULE MCControlPlane ---------------------------
(* Small instances of ControlPlane: an owner, one or two mirrors.            *)
EXTENDS ControlPlane, TLC

CONSTANTS own, m1, m2, q1, q2

Mirrors == Permutations({m1, m2})
=============================================================================
