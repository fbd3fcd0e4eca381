-------------------------- MODULE MCMissionRuntime --------------------------
EXTENDS MissionRuntime, TLC

Symmetry == Permutations(Workers) \cup Permutations(Sessions) \cup Permutations(Approvers)

(* Bound of mission_redecide: the data drifts or an approval expires. *)
DriftOrLapse == epoch + Cardinality({b \in DOMAIN approvals : ~approvals[b].live}) <= 1
=============================================================================
