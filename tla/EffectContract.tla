--------------------------- MODULE EffectContract ---------------------------
(***************************************************************************)
(* What the effect callback promises the gateway about one planned effect:  *)
(* however often, late or concurrently the gateway asks for it, the site    *)
(* performs it at most once, and every confirmation the gateway gets        *)
(* carries the receipt of that one performance.                             *)
(***************************************************************************)
EXTENDS Naturals

CONSTANT Receipts

VARIABLES
  performed,  \* how often the effect took place
  receipt,    \* receipts the site stores: none, or the one of the effect
  confirmed   \* receipts the gateway has been answered with

effectVars == <<performed, receipt, confirmed>>

EffectInit == performed = 0 /\ receipt = {} /\ confirmed = {}

Perform == \E r \in Receipts :
  /\ performed = 0 /\ performed' = 1
  /\ receipt' = {r}
  /\ confirmed' = {r}

Confirm ==
  /\ performed = 1
  /\ confirmed' = confirmed \cup receipt
  /\ UNCHANGED <<performed, receipt>>

EffectNext == Perform \/ Confirm

EffectSpec == EffectInit /\ [][EffectNext]_effectVars
=============================================================================
