----------------------------- MODULE MCSession -----------------------------
(***************************************************************************)
(* Instances of Session for TLC.                                           *)
(***************************************************************************)
EXTENDS Session, TLC

CONSTANTS chat, planner, writer, a1, a2, r1

OneSession == {chat}
OneAgent == {planner}
TwoAgents == {planner, writer}
TwoAdmitters == {a1, a2}
OneAdmitter == {a1}
OneRequest == {r1}
NoRequests == {}

(* Agents are only compared for equality. *)
AgentSymmetry == Permutations(TwoAgents)
=============================================================================
