------------------------------- MODULE MCIrc --------------------------------
(***************************************************************************)
(* Join health and live coverage, the two tasks behind the IRC client,     *)
(* side by side: each behaviour runs one of them, chosen at the start,     *)
(* while the other stays at its initial state.                             *)
(***************************************************************************)
EXTENDS JoinHealth, LiveCoverage

VARIABLE part

IrcInit == part \in {"joins", "coverage"} /\ JoinInit /\ ForwardInit

IrcNext ==
  /\ \/ part = "joins" /\ JoinNext /\ UNCHANGED forwardVars
     \/ part = "coverage" /\ ForwardNext /\ UNCHANGED joinVars
  /\ UNCHANGED part

IrcSpec == IrcInit /\ [][IrcNext]_<<joinVars, forwardVars, part>> /\ JoinFairness

\* The variables of both tasks have the types the code's structures have, the claims
\* of a channel never overlap, and a join waits for the gate.
IrcTypeOK == JoinTypeOK /\ ForwardTypeOK
=============================================================================
