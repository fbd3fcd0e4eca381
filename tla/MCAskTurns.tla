----------------------------- MODULE MCAskTurns -----------------------------
(* Small instances of AskTurns for TLC. *)
EXTENDS AskTurns, TLC
CONSTANTS r1, r2
MCScopes == {{}, {r1, r2}}
MCRoutes == {{"attended_browser", "development_workflow"}, {}}
MCSymmetry == Permutations(Clients) \cup Permutations(TurnKeys) \cup Permutations(Records)
=============================================================================
