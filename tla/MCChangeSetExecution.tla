---- MODULE MCChangeSetExecution ----
(* Small instances of ChangeSetExecution for TLC. *)
EXTENDS ChangeSetExecution, TLC

Op(kind, target, depends_on, token) ==
  [kind |-> kind, target |-> target, depends_on |-> depends_on, token |-> token]
Stamped(operations) == [operations |-> operations, stamped |-> TRUE]
Unstamped(operations) == [operations |-> operations, stamped |-> FALSE]

(* A schema change that a later operation of the plan must precede, and one that others
   follow; plans without one; one whose last operation has no executor; a cycle. *)
MCPlans ==
  {Unstamped(<<Op("update", "u", {3}, 1), Op("field", "f", {3}, None), Op("create", "c", {}, None)>>),
   Stamped(<<Op("field", "f", {}, None), Op("property", "s", {1}, None), Op("workflow", "u", {2}, 1)>>),
   Unstamped(<<Op("submit", "u", {2}, None), Op("delete", "d", {}, 1), Op("create", "c", {2}, None)>>),
   Unstamped(<<Op("cancel", "x", {}, 1), Op("fixture", "c", {1}, None)>>),
   Unstamped(<<Op("create", "c", {2}, None), Op("create", "f", {1}, None)>>)}

MCSymmetry == Permutations(Clients)
====
