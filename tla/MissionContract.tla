--------------------------- MODULE MissionContract ---------------------------
(***************************************************************************)
(* What a Muster Mission promises its participants, whatever jobs, requests *)
(* and transactions carry it: the gateway executes a manifest only once and *)
(* only when an approver has approved the plan of every effect node in it,  *)
(* and the site's activity feed reports what the gateway did: every event   *)
(* in order, none invented, none taken back.                                *)
(***************************************************************************)
EXTENDS Naturals, Sequences

CONSTANTS
  Nodes,     \* the effect nodes of the published workflow
  Versions,  \* versions of what a plan hash covers
  Events     \* what the gateway may log

VARIABLES
  approved,  \* plans an approver has approved
  executing, \* has the gateway admitted the mission?
  manifest,  \* the plans it was admitted with
  history,   \* the gateway's log
  reported   \* sequence numbers of the events the site has stored

contractVars == <<approved, executing, manifest, history, reported>>

ContractInit ==
  /\ approved = {} /\ executing = FALSE /\ manifest = {}
  /\ history = <<>> /\ reported = {}

Approve == \E p \in Nodes \X Versions :
  /\ approved' = approved \cup {p}
  /\ UNCHANGED <<executing, manifest, history, reported>>

Execute == \E v \in [Nodes -> Versions] :
  /\ ~executing /\ executing' = TRUE
  /\ manifest' = {<<n, v[n]>> : n \in Nodes}
  /\ manifest' \subseteq approved
  /\ UNCHANGED <<approved, history, reported>>

Happen == \E e \in Events :
  /\ executing
  /\ history' = Append(history, e)
  /\ UNCHANGED <<approved, executing, manifest, reported>>

Report == \E k \in 1..Len(history) :
  /\ reported \subseteq 1..k
  /\ reported' = 1..k
  /\ UNCHANGED <<approved, executing, manifest, history>>

ContractNext == Approve \/ Execute \/ Happen \/ Report

ContractSpec == ContractInit /\ [][ContractNext]_contractVars
=============================================================================
