------------------------------ MODULE ReadPlans ------------------------------
(***************************************************************************)
(* Answers from live data (read_plan.py, api/ask.py): the site offers the   *)
(* provider a catalog of what the user can read, the provider answers with *)
(* a plan of queries, and the site admits and runs the plan on its own      *)
(* account.  Names, texts and values are left out; a value is its shape.    *)
(*                                                                         *)
(* DocTypes are 1, 2, ... in the order of their names; the site has of each *)
(*   [exists, table, readable, matches (words of the question), huge,       *)
(*    rows (the user may see and the filters leave), fields];               *)
(* its fields, in the order of their names, the first being "name", are     *)
(*   [permitted, secret, executable, type, matches, common].                *)
(* A query is  [doctype, fields, filters, aggregate, order, limit].         *)
(***************************************************************************)
EXTENDS Integers, Sequences, FiniteSets, SequencesExt

CONSTANTS
  None,         \* an absent value; the type of a field that has no docfield
  MaxCatalog,   \* DocTypes offered (MAX_CATALOG_DOCTYPES)
  MaxOffered,   \* fields offered of each
  MaxFields,    \* fields and filters of a query (MAX_FIELDS, MAX_FILTERS)
  MaxQueries,   \* queries of a plan
  MaxRows,      \* rows of a query (MAX_ROWS)
  MaxEvidence   \* size of the evidence, a query or a row being one (MAX_EVIDENCE_BYTES)

Structural == {"Section Break", "Table"}
Numeric == {"Int"}
Aggregates == {"count", "sum", "max"}

(* "name" is permitted to whoever reads the DocType. *)
Permitted(d) == {f \in DOMAIN d.fields : d.fields[f].permitted} \cup {1}

-----------------------------------------------------------------------------
(* The catalog *)

(* Best first, equals by name. *)
Better(a, b) == a.score > b.score \/ (a.score = b.score /\ a.name < b.name)
Ranked(rows) == SortSeq(SetToSeq(rows), Better)

OfferedFields(d) ==
  LET fields == {f \in Permitted(d) :
        /\ ~d.fields[f].secret /\ ~d.fields[f].executable
        /\ d.fields[f].type \notin Structural \cup {"Password", "Code"}}
      score(f) == 10 * d.fields[f].matches + (IF d.fields[f].common THEN 5 ELSE 0)
      ranked == Ranked({[score |-> score(f), name |-> f] : f \in fields})
  IN [i \in 1 .. (IF Len(ranked) < MaxOffered THEN Len(ranked) ELSE MaxOffered) |-> ranked[i].name]

DocTypeScore(x, d, selected) == (IF x = selected THEN 100 ELSE 0) + 10 * d.matches

(* The readable DocTypes come in no order; one that says nothing to the question is
   taken while there is room. *)
Candidates(order, selected, site) ==
  LET candidate(found, x) ==
        LET d == site.doctypes[x] IN
        IF d.exists /\ ~d.table /\ (DocTypeScore(x, d, selected) > 0 \/ Cardinality(found) < MaxCatalog)
        THEN found \cup {x} ELSE found
  IN FoldLeft(candidate, {}, order)

BuildReadCatalog(order, selected, site) ==
  LET score(x) == DocTypeScore(x, site.doctypes[x], selected)
      ranked == Ranked({[score |-> score(x), name |-> x] : x \in Candidates(order, selected, site)})
      entry(x) == [doctype |-> x, fields |-> OfferedFields(site.doctypes[x])]
      taken == SubSeq(ranked, 1, IF Len(ranked) < MaxCatalog THEN Len(ranked) ELSE MaxCatalog)
  IN SelectSeq([i \in DOMAIN taken |-> entry(taken[i].name)], LAMBDA e : e.fields # <<>>)

-----------------------------------------------------------------------------
(* The admission of a query *)

(* Mutant of FieldOk: permissions are left to get_list. *)
FieldExists(f, d) == f \in DOMAIN d.fields /\ ~d.fields[f].secret

FieldOk(f, d) ==
  /\ f \in Permitted(d) /\ ~d.fields[f].secret
  /\ d.fields[f].type \notin Structural \cup {"Password"}

(* The shapes of values: "pair" and "list" have the items they may, "long" has not;
   "prefix" ends with its only %; "presence" is set or not set. *)
FilterValueOk(shape, operator) ==
  IF operator \in {"in", "between"} \/ shape \in {"pair", "list", "long"}
  THEN operator \in {"in", "between"} /\ shape \in {"pair", "list"} /\ (operator = "between" => shape = "pair")
  ELSE CASE operator = "like" -> shape = "prefix"
         [] operator = "is" -> shape = "presence"
         [] OTHER -> TRUE

FiltersOk(filters, d) ==
  /\ Len(filters) <= MaxFields
  /\ \A x \in ToSet(filters) :
       /\ FieldOk(x.field, d) /\ x.operator \in {"eq", "in", "between", "like", "is"}
       /\ FilterValueOk(x.value, x.operator)

OrderOk(order, d) ==
  Len(order) <= 2 /\ \A x \in ToSet(order) : FieldOk(x.field, d) /\ x.direction \in {"asc", "desc"}

(* Everything but a count is of a numeric field. *)
AggregateOk(aggregate, d) ==
  /\ aggregate.function \in Aggregates
  /\ aggregate.field # None => FieldOk(aggregate.field, d)
  /\ aggregate.function # "count" => aggregate.field # None /\ d.fields[aggregate.field].type \in Numeric

(* The fields once each, in the order they were asked for. *)
Fields(names) == FoldLeft(LAMBDA fs, f : IF f \in ToSet(fs) THEN fs ELSE Append(fs, f), <<>>, names)

QueryOk(q, site) ==
  LET d == site.doctypes[q.doctype] IN
  /\ d.exists /\ ~d.table /\ d.readable
  /\ Len(q.fields) <= MaxFields /\ \A f \in ToSet(q.fields) : FieldOk(f, d)
  /\ FiltersOk(q.filters, d) /\ OrderOk(q.order, d)
  /\ q.limit \in 1 .. MaxRows
  /\ IF q.aggregate = None THEN q.fields # <<>>
     ELSE (d.huge => q.filters # <<>>) /\ AggregateOk(q.aggregate, d)

(* A list that is as long as it may be counts as cut off. *)
ExecuteQuery(q, site) ==
  LET rows == site.doctypes[q.doctype].rows
      got == IF rows < q.limit THEN rows ELSE q.limit
  IN IF q.aggregate # None
     THEN [mode |-> "aggregate", doctype |-> q.doctype, rows |-> 0, truncated |-> FALSE,
           fields |-> IF q.aggregate.field = None THEN <<>> ELSE <<q.aggregate.field>>]
     ELSE [mode |-> "list", doctype |-> q.doctype, rows |-> got, truncated |-> got = q.limit,
           fields |-> Fields(q.fields)]

(* Rows are taken from the last query that has some until the evidence fits. *)
Trimmed(evidence) ==
  LET size == FoldLeft(LAMBDA n, e : n + 1 + e.rows, 0, evidence)
      trim(e, done) ==
        LET cut == IF done.excess < e.rows THEN done.excess ELSE e.rows IN
        [excess |-> done.excess - cut,
         kept |-> <<[e EXCEPT !.rows = @ - cut, !.truncated = @ \/ cut > 0]>> \o done.kept]
  IN FoldRight(trim, evidence,
               [excess |-> IF size > MaxEvidence THEN size - MaxEvidence ELSE 0, kept |-> <<>>])

ExecuteReadPlan(plan, site) ==
  LET trimmed == Trimmed([i \in DOMAIN plan.queries |-> ExecuteQuery(plan.queries[i], site)]) IN
  CASE ~plan.ours \/ Len(plan.queries) \notin 1 .. MaxQueries -> [verdict |-> "invalid"]
    [] \E q \in ToSet(plan.queries) : ~QueryOk(q, site) -> [verdict |-> "refused"]
    [] site.slow \/ trimmed.excess > 0 -> [verdict |-> "too_much"]
    [] OTHER -> [verdict |-> "ok", queries |-> trimmed.kept]

(* What the provider's reply adds to the context of the answer. *)
ReplyEvidence(plan, site) ==
  CASE plan.disposition = "query" -> ExecuteReadPlan(plan, site)
    [] plan.disposition \in {"unsupported", "action_needed"} /\ plan.queries = <<>> -> [verdict |-> "none"]
    [] OTHER -> [verdict |-> "invalid"]
=============================================================================
