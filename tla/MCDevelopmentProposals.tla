----------------------- MODULE MCDevelopmentProposals -----------------------
(* Small instances of DevelopmentProposals for TLC. *)
EXTENDS DevelopmentProposals
MCSymmetry == Permutations(Clients) \cup Permutations(Proposals) \cup Permutations(Administrators \ {Requester})
=============================================================================
