------------------------- MODULE MCBrowserSessions -------------------------
(* Small instances of SiteConnection and BrowserSessions for TLC. *)
EXTENDS BrowserSessions
MCSymmetry ==
  Permutations(Clients) \cup Permutations(Gateways) \cup Permutations(Keys)
    \cup Permutations(Accounts) \cup Permutations(Contexts)
=============================================================================
