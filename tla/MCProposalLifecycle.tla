------------------------ MODULE MCProposalLifecycle ------------------------
EXTENDS ProposalLifecycle, TLC

Symmetry == Permutations(Clients) \cup Permutations(Reviewers)
=============================================================================
