----------------------------- MODULE MCServing ------------------------------
(***************************************************************************)
(* The components of the read path that share no state, side by side: each *)
(* behaviour runs one of them, chosen at the start, while the others stay  *)
(* at an initial state of theirs.  Peers comes in two instances: a crowd   *)
(* of two reads on two linked nodes that both are full with one read, and  *)
(* a lone read on three linked nodes whose stores and coverage vary.       *)
(***************************************************************************)
EXTENDS Repair, Coverage, ResponseCache, Sessions, Peers

CONSTANTS n1, n2, n3, q1

ASSUME LoneReading == q1 \in Readings

VARIABLE part

servingVars == <<repairVars, input, cacheVars, sessionVars, peerVars, part>>

MCRetryAfter == [o \in Outcomes |-> IF o = "failed" THEN 0 ELSE 1]

AnInput == [intervals |-> {}, received |-> <<>>,
            request |-> CHOOSE r \in Requests : TRUE]

Crowd == /\ peersOf = [n \in Nodes |-> IF n = n3 THEN {} ELSE {n1, n2} \ {n}]
         /\ \E held \in {{}, Msgs} : kept = [n \in Nodes |-> IF n = n2 THEN held ELSE {}]
Lone  == peersOf = [n \in Nodes |-> Nodes \ {n}]
Still == /\ peersOf = [n \in Nodes |-> {}]
         /\ kept = [n \in Nodes |-> {}]

ServingInit ==
  /\ part \in {"repair", "coverage", "cache", "sessions", "crowd", "lone"}
  /\ CASE part = "crowd" -> Crowd [] part = "lone" -> Lone [] OTHER -> Still
  /\ PeersInit /\ claimed = kept
  /\ RepairInit /\ CacheInit /\ SessionInit
  /\ part = "repair" \/ circuit = [p \in Providers |-> ClosedCircuit]
  /\ IF part = "coverage" THEN CoverageInit ELSE input = AnInput

Others(vars) == UNCHANGED vars /\ UNCHANGED part

ServingNext ==
  \/ part = "repair" /\ RepairNext /\ Others(<<input, cacheVars, sessionVars, peerVars>>)
  \/ part = "cache" /\ CacheNext /\ Others(<<repairVars, input, sessionVars, peerVars>>)
  \/ part = "sessions" /\ SessionNext /\ Others(<<repairVars, input, cacheVars, peerVars>>)
  \/ part = "crowd" /\ PeersNext /\ Others(<<repairVars, input, cacheVars, sessionVars>>)
  \/ part = "lone" /\ ReadingNext(q1) /\ Others(<<repairVars, input, cacheVars, sessionVars>>)

\* RepairFairness and PeersFairness, in the behaviours that run those parts.
ServingFairness ==
  /\ WF_repairVars(part = "repair" /\ RepairTick)
  /\ \A j \in JobIds : WF_repairVars(part = "repair" /\ JobStep(j))
  /\ PeersFairness

ServingSpec == ServingInit /\ [][ServingNext]_servingVars /\ ServingFairness

\* The variables of every part have the types the code's structures have.
ServingTypeOK == RepairTypeOK /\ CacheTypeOK /\ SessionTypeOK /\ PeersTypeOK

\* An answer marked complete holds every message of its window when no other read
\* changes the nodes meanwhile: peers that fail, time out, are partly covered or
\* whose records cannot be stored do not make a short answer look complete.
LoneAnswersAreComplete == part = "lone" => AnswersAreComplete
=============================================================================
