------------------------- MODULE MCControlInstances -------------------------
(* Two instances of ControlPlane in one run: the initial state picks one,    *)
(* and every step stays within its bounds.                                   *)
EXTENDS MCControlPlane

VARIABLE instance

\* reads: requests of every kind, and a crash.
\* acks: two changes of the same channel, the second at a later time.
Instances ==
  ("reads" :> [kinds |-> {"read", "ignore", "unignore", "purge"}, time |-> 1, crash |-> 1])
  @@ ("acks" :> [kinds |-> {"ignore", "unignore", "purge"}, time |-> 2, crash |-> 0])

Within(bound) ==
  /\ crashes' <= bound.crash
  /\ \A q \in Request : task'[q].kind \in bound.kinds \cup {"none"}
  /\ \A c \in Channel : state'[Owner].content.policy[c].purge <= bound.time

MCSpec ==
  /\ Init /\ instance \in DOMAIN Instances
  /\ [][Next /\ Within(Instances[instance]) /\ UNCHANGED instance]_<<vars, instance>>
=============================================================================
