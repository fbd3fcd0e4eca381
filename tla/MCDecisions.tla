---------------------------- MODULE MCDecisions ----------------------------
(* The decisions that are taken in one go, each over small inputs, one input per
   behaviour: beside those of MCWorkflowProposal, what a dispatch may hand to the
   gateway and who may see a document. *)
EXTENDS MCWorkflowProposal

Capabilities == {"read", "write"}
Patterns == {"read", "write", "re*", "*", "site", "w", "A", "d1", "n1"}
Matching ==
  [p \in Patterns |->
     CASE p = "*" -> Patterns \cup {"d2", "n2"} [] p = "re*" -> {"read", "re*"} [] OTHER -> {p}]

D == INSTANCE DispatchAuthority WITH
  Glob <- Matching, Site <- "site", SecretFields <- {"token"}, MaxDocuments <- 2, MaxContext <- 3
P == INSTANCE DocumentPermissions
R == INSTANCE ReadPlans WITH
  MaxCatalog <- 2, MaxOffered <- 2, MaxFields <- 2, MaxQueries <- 2, MaxRows <- 2, MaxEvidence <- 4

-----------------------------------------------------------------------------
(* Dispatches: a plain site on which everything is granted, and every variation of
   one part of it. *)

Rule(effect, capability, type, pattern) ==
  [effect |-> effect, capability |-> capability, type |-> type, pattern |-> pattern]
Policy(rules) == [enabled |-> TRUE, rules |-> rules]
Anything == Policy({Rule("Allow", "*", "Site", "*")})

SomeRules ==
  {Rule(effect, capability, "Site", "site") :
     effect \in {"Allow", "Deny"}, capability \in {"read", "write", "re*", "*", None}}
    \cup {Rule(effect, capability, type, "*") :
            effect \in {"Allow", "Deny"}, capability \in {"read", "*"}, type \in {"DocType", "Agent"}}
    \cup {Rule("Deny", "write", "Document", "n1"), Rule("Allow", "write", "Workflow", "A"),
          Rule("Deny", "*", "Company", "*")}
SomePolicies ==
  {None, [enabled |-> FALSE, rules |-> {Rule("Allow", "*", "Site", "*")}]}
    \cup {Policy(rules) : rules \in UNION {kSubset(k, SomeRules) : k \in 1 .. 2}}
    \cup {Policy(rules \cup {Rule("Allow", "read", "Site", "site"), Rule("Allow", "*", "Site", "*")}) :
            rules \in kSubset(1, SomeRules)}

Bound(type, subject, scope, value, capabilities) ==
  [status |-> "Active", subject_type |-> type, subject |-> subject, scope_type |-> scope,
   scope_value |-> value, capabilities |-> capabilities, from |-> None, until |-> None]
OnSite == Bound("User", "me", "Site", "site", {"*"})
SomeBindings ==
  {Bound(type, subject, scope, value, capabilities) :
     type \in {"User", "Role"}, subject \in {"me", "Operator", "other"}, scope \in {"Site", "Workflow", "Company"},
     value \in {"site", "w", "*"}, capabilities \in {{"*"}, {"read"}, {"read", "write"}, {"read", None}}}
    \cup {[OnSite EXCEPT !.from = from, !.until = until, !.status = status] :
            from \in {None, 1, 2}, until \in {None, 0, 1}, status \in {"Active", "Suspended"}}

Agent(declared, policy) == [status |-> "Active", capabilities |-> declared, policy |-> policy]
Declared(capability, pattern) == [capability |-> capability, pattern |-> pattern]
Able == Agent({Declared("*", "*")}, Anything)
SomeAgents ==
  {Agent({Declared("read", pattern), Declared(capability, "*")}, policy) :
     pattern \in {"site", "d1", None}, capability \in {"re*", "*"}, policy \in SomePolicies}
    \cup {[Able EXCEPT !.status = status] : status \in {None, "Draft"}}

Asks(agent, capabilities) == [id |-> 1, agent |-> agent, capabilities |-> capabilities]
Reading1 == [node |-> 1, doctypes |-> {"d1"}, records |-> {"n1"}, fields |-> {"f1"}]
Version(nodes) ==
  [workflow |-> "w", submitted |-> TRUE, intact |-> TRUE, manifest_intact |-> TRUE,
   nodes |-> nodes, plans |-> {Reading1}]
Fields(names) ==
  [i \in DOMAIN names |-> [name |-> names[i], permitted |-> names[i] # "f3", structural |-> FALSE]]
OneSite ==
  [published |-> [w |-> 1], versions |-> << Version({Asks("A", {"read"}), Asks(None, {"write"})}),
                                            [Version({}) EXCEPT !.workflow = "v"] >>,
   workflows |-> [w |-> [status |-> "Published", readable |-> TRUE, policy |-> Anything],
                  v |-> [status |-> "Published", readable |-> TRUE, policy |-> None]],
   agents |-> [A |-> Able], bindings |-> {OnSite}, roles |-> {"Operator"}, enabled |-> TRUE, now |-> 1,
   readable |-> {[doctype |-> "d1", name |-> "n1"], [doctype |-> "d2", name |-> "n1"]},
   fields |-> [d1 |-> Fields(<<"f1", "f2", "f3", "token">>), d2 |-> Fields(<<"f1", "f3", "f4">>)]]

Unscoped == [auto |-> FALSE, doctype |-> None, docname |-> None, fields |-> {}, documents |-> <<>>]
Mission(scope) == [user |-> "me", workflow |-> "w", version |-> None, scope |-> scope]
Doc(doctype, name, fields) == [doctype |-> doctype, name |-> name, fields |-> fields]
SomeScopes ==
  {[auto |-> auto, doctype |-> doctype, docname |-> docname, fields |-> fields, documents |-> documents] :
     auto \in BOOLEAN, doctype \in {None, "d1", "d2"}, docname \in {None, "n1"}, fields \in {{}, {"f2"}},
     documents \in SeqOf({Doc("d1", "n1", {"f1"}), Doc("d2", "n1", {}), Doc("d1", "n2", {}),
                          Doc("d2", None, {})}, 2)}

WithNodes(nodes) == [OneSite EXCEPT !.versions[1].nodes = nodes]
SomeNodes ==
  {{Asks("A", {"read"})}, {Asks("A", {"write"}), Asks(None, {"read"})}, {Asks("A", {})}, {Asks(None, {None})}}

Dispatches ==
  {[m |-> Mission(scope), s |-> [WithNodes(nodes) EXCEPT !.workflows.w.policy = policy]] :
     scope \in {Unscoped, [Unscoped EXCEPT !.doctype = "d1", !.docname = "n1"]},
     nodes \in SomeNodes, policy \in SomePolicies}
  \cup {[m |-> Mission(scope), s |-> [WithNodes(nodes) EXCEPT !.agents.A = agent]] :
          scope \in {Unscoped, [Unscoped EXCEPT !.doctype = "d1"]}, nodes \in SomeNodes, agent \in SomeAgents}
  \cup {[m |-> Mission(Unscoped), s |-> [WithNodes(nodes) EXCEPT !.bindings = bindings]] :
          nodes \in SomeNodes, bindings \in {{b} : b \in SomeBindings} \cup {{OnSite, b} : b \in SomeBindings}}
  \cup {[m |-> Mission(scope), s |-> [OneSite EXCEPT !.readable = readable]] :
          scope \in SomeScopes, readable \in SUBSET OneSite.readable}
  \cup {[m |-> [Mission(Unscoped) EXCEPT !.version = version, !.workflow = workflow],
         s |-> [OneSite EXCEPT !.versions[1].submitted = submitted, !.versions[1].manifest_intact = intact,
                               !.workflows.w.status = status, !.enabled = enabled]] :
          version \in {None, 1, 2}, workflow \in {None, "w"}, submitted \in BOOLEAN, intact \in BOOLEAN,
          status \in {"Published", "Archived"}, enabled \in BOOLEAN}

-----------------------------------------------------------------------------
(* Documents: every relation of a user with at most two roles to a document. *)

Roles == P!GlobalReadRoles \cup {"Muster Operator", "Muster Approver"}
Someone == {"me", "other"}
Views ==
  {[roles |-> roles,
    doc |-> [kind |-> kind, owner |-> people[1], requested_by |-> people[2], assigned_to |-> people[3],
             requested_from |-> people[1], user |-> people[2], status |-> status, public |-> people[3] = "me"]] :
     roles \in UNION {kSubset(k, Roles) : k \in 0 .. 2}, kind \in P!Kinds, people \in [1 .. 3 -> Someone],
     status \in {"Pending", "Verified", "Completed"}}

-----------------------------------------------------------------------------
(* Live reads: catalogs over three DocTypes in every order; plans of one query with
   every variation of one part of it, and of queries whose rows do not fit. *)

FieldOf(permitted, type, secret, executable, matches) ==
  [permitted |-> permitted, type |-> type, secret |-> secret, executable |-> executable,
   matches |-> matches, common |-> type = "Data"]
SomeFields ==
  << FieldOf(FALSE, None, FALSE, FALSE, 0), FieldOf(TRUE, "Int", FALSE, FALSE, 1), FieldOf(TRUE, "Data", TRUE, FALSE, 0),
     FieldOf(FALSE, "Int", FALSE, FALSE, 1), FieldOf(TRUE, "Code", FALSE, TRUE, 0), FieldOf(TRUE, "Table", FALSE, FALSE, 1),
     FieldOf(TRUE, "Data", FALSE, FALSE, 0) >>
DocType(rows, matches) ==
  [exists |-> TRUE, table |-> FALSE, readable |-> TRUE, matches |-> matches, huge |-> FALSE,
   rows |-> rows, fields |-> SomeFields]
Shown(doctypes) == [slow |-> FALSE, doctypes |-> doctypes]

Catalogs ==
  {[order |-> order, selected |-> selected,
    site |-> Shown([i \in 1 .. 3 |-> [DocType(1, matches[i]) EXCEPT !.table = (i = 2) /\ table]])] :
     order \in UNION {SetToSeqs(S) : S \in SUBSET (1 .. 3)}, selected \in {None, 1, 2},
     matches \in [1 .. 3 -> 0 .. 1], table \in BOOLEAN}

OneQuery == [doctype |-> 1, fields |-> <<2>>, filters |-> <<>>, aggregate |-> None, order |-> <<>>, limit |-> 1]
SomeQueries ==
  {[OneQuery EXCEPT !.fields = fields] : fields \in SeqOf(0 .. 7, 2) \cup {<<1, 2, 7>>}}
  \cup {[OneQuery EXCEPT !.filters = <<[field |-> f, operator |-> op, value |-> shape]>>, !.fields = fields,
                         !.aggregate = aggregate] :
          f \in 1 .. 7, op \in {"eq", "in", "between", "like", "is", "sounds"},
          shape \in {"scalar", "pair", "list", "long", "prefix", "presence"}, fields \in {<<>>, <<7>>},
          aggregate \in {None, [function |-> "count", field |-> None]}}
  \cup {[OneQuery EXCEPT !.order = <<[field |-> f, direction |-> dir]>>] : f \in 0 .. 7, dir \in {"asc", "up"}}
  \cup {[OneQuery EXCEPT !.aggregate = [function |-> fn, field |-> f], !.fields = <<>>] :
          fn \in {"count", "sum", "any"}, f \in {None} \cup 0 .. 7}
  \cup {[OneQuery EXCEPT !.limit = limit] : limit \in 0 .. 3}
ReadPlanOf(disposition, queries) == [ours |-> TRUE, disposition |-> disposition, queries |-> queries]
Plans ==
  {[plan |-> ReadPlanOf("query", <<q>>),
    site |-> Shown(<<[DocType(2, 0) EXCEPT !.table = table, !.readable = readable, !.huge = huge]>>)] :
     q \in SomeQueries, table \in BOOLEAN, readable \in BOOLEAN, huge \in BOOLEAN}
  \cup {[plan |-> [ReadPlanOf(disposition, queries) EXCEPT !.ours = ours],
         site |-> [Shown(<<DocType(rows[1], 0), DocType(rows[2], 0)>>) EXCEPT !.slow = slow]] :
          disposition \in {"query", "unsupported", "else"}, ours \in BOOLEAN, slow \in BOOLEAN, rows \in [1 .. 2 -> 0 .. 3],
          queries \in SeqOf({[OneQuery EXCEPT !.doctype = x, !.limit = limit] : x \in 1 .. 2, limit \in 1 .. 2}, 3)}

-----------------------------------------------------------------------------
AllInit ==
  \/ Init
  \/ /\ outcome = None
     /\ \/ \E x \in Dispatches : input = [kind |-> "dispatch", x |-> x]
        \/ \E x \in Views : input = [kind |-> "view", x |-> x]
        \/ \E x \in Catalogs : input = [kind |-> "catalog", x |-> x]
        \/ \E x \in Plans : input = [kind |-> "read", x |-> x]

Dispatch ==
  /\ input.kind = "dispatch" /\ outcome = None
  /\ outcome' = D!BuildDispatchEnvelope(input.x.m, input.x.s)
  /\ UNCHANGED input

See ==
  /\ input.kind = "view" /\ outcome = None
  /\ outcome' = [listed |-> P!Listed(input.x.doc, "me", input.x.roles),
                 may |-> P!May(input.x.doc, "me", input.x.roles)]
  /\ UNCHANGED input

OfferCatalog ==
  /\ input.kind = "catalog" /\ outcome = None
  /\ outcome' = R!BuildReadCatalog(input.x.order, input.x.selected, input.x.site)
  /\ UNCHANGED input

ReadLive ==
  /\ input.kind = "read" /\ outcome = None
  /\ outcome' = R!ReplyEvidence(input.x.plan, input.x.site)
  /\ UNCHANGED input

AllNext == Next \/ Dispatch \/ See \/ OfferCatalog \/ ReadLive
AllSpec == AllInit /\ [][AllNext]_mcVars

-----------------------------------------------------------------------------
(* Every dispatch is authorized as D!EnvelopeIsAuthorized says: its layers grant a
   node what bindings and policies let it do and nothing else, and refuse nothing
   that they name (_capability_authority). *)
DispatchIsAuthorized ==
  input.kind = "dispatch" /\ outcome # None =>
    D!EnvelopeIsAuthorized(input.x.m, input.x.s, outcome, Capabilities)

(* The context of an admitted dispatch holds every document the scope refers to,
   once, each readable, and of their fields only readable ones, in order; its plans
   touch no DocType, record or field outside those the scope lists
   (permission_filtered_context, _assert_browser_manifest_scope). *)
DispatchedIsReadable ==
  input.kind = "dispatch" /\ outcome # None /\ outcome.verdict = "ok" =>
    LET scope == input.x.m.scope  s == input.x.s
        docs == Range(scope.documents)
        context == outcome.context
        may(f) == \E x \in Range(s.fields[f.document.doctype]) :
                    x.name = f.field /\ x.permitted /\ x.name # "token"
        rank(f) == CHOOSE i \in DOMAIN context.documents : context.documents[i] = f.document
        listed(first, rest) == ({first} \cup rest) \ {None}
        within(used, names) == names = {} \/ used \subseteq names
    IN /\ IsInjective(context.documents)
       /\ {[doctype |-> d.doctype, name |-> d.name] : d \in docs} \subseteq Range(context.documents)
       /\ Range(context.documents) \subseteq s.readable
       /\ \A f \in Range(context.fields) : may(f)
       /\ \A i, j \in DOMAIN context.fields : i < j => rank(context.fields[i]) <= rank(context.fields[j])
       /\ scope.auto \/ \A p \in outcome.plans :
            /\ within(p.doctypes, listed(scope.doctype, {d.doctype : d \in docs}))
            /\ within(p.records, listed(scope.docname, {d.name : d \in docs}))
            /\ within(p.fields, scope.fields \cup UNION {d.fields : d \in docs})

(* What a plan of the provider brings to light, by what it reads, filters, sorts or adds
   up, is readable, and what it leaves out is said to be cut off (execute_read_plan). *)
EvidenceIsReadable ==
  input.kind = "read" /\ outcome # None /\ outcome.verdict = "ok" =>
    LET queries == input.x.plan.queries
        touched(q) ==
          Range(q.fields) \cup {x.field : x \in Range(q.filters) \cup Range(q.order)}
            \cup (IF q.aggregate = None THEN {} ELSE {q.aggregate.field} \ {None})
        size == FoldLeft(LAMBDA n, e : n + 1 + e.rows, 0, outcome.queries)
    IN /\ size <= 4
       /\ \A i \in DOMAIN queries :
            LET q == queries[i]  e == outcome.queries[i]  d == input.x.site.doctypes[q.doctype] IN
            /\ d.readable /\ ~d.table
            /\ \A f \in touched(q) :
                 /\ f = 1 \/ d.fields[f].permitted
                 /\ ~d.fields[f].secret /\ d.fields[f].type # "Table"
            /\ e.rows <= q.limit
            /\ e.mode = "list" /\ e.rows < d.rows => e.truncated

(* What the catalog offers is admitted when a plan asks for it, whatever the order the
   DocTypes came in: the one the user selected comes first, and none is left out for one
   that says less to the question (build_read_catalog, _execute_query). *)
OfferedIsAdmitted ==
  input.kind = "catalog" /\ outcome # None =>
    LET site == input.x.site
        open == {x \in Range(input.x.order) : ~site.doctypes[x].table}
        offered == {e.doctype : e \in Range(outcome)}
        asks(e, f) == [OneQuery EXCEPT !.doctype = e.doctype, !.fields = <<f>>,
                                       !.order = <<[field |-> f, direction |-> "asc"]>>]
    IN /\ \A e \in Range(outcome) : \A f \in Range(e.fields) : R!QueryOk(asks(e, f), site)
       /\ input.x.selected \in open => outcome[1].doctype = input.x.selected
       /\ \A x \in open \ offered, y \in offered :
            y = input.x.selected \/ site.doctypes[x].matches <= site.doctypes[y].matches

(* What is handed out for a mission or an answer is what its user may read. *)
ContextIsReadable == DispatchedIsReadable /\ EvidenceIsReadable /\ OfferedIsAdmitted

(* Lists and documents agree: who may write a document may read it, who may read
   it finds it in the list, a public artifact apart, and what a list shows may be
   read, apart from what automation managers see listed and cannot open
   (permission_query_conditions and has_permission of permissions.py). *)
ReadersAreListed ==
  input.kind = "view" /\ outcome # None =>
    P!ReadersListed(input.x.doc, input.x.roles, outcome.may, outcome.listed)
=============================================================================
