-------------------------- MODULE WorkflowProposal --------------------------
(***************************************************************************)
(* What Frappe makes of a planner's answer (orchestration/                  *)
(* workflow_proposal.py): the admission of descriptor and compiled graph,   *)
(* the attended plan the host writes in place of the model's, the preview   *)
(* of that plan, and the native rows of a published graph.                  *)
(*                                                                         *)
(* A descriptor's steps are trees [kind, caps, exec, children, bounded]; an *)
(* execution is None or [surface, plan].  Fields are numbers, in the order  *)
(* of their names.                                                         *)
(***************************************************************************)
EXTENDS WorkflowGraph

CONSTANTS
  MaxStepDepth, MaxSteps,  \* MAX_DEPTH and MAX_STEPS
  Alias                    \* the noun of the record's type, given as a link's value

ASSUME StepLimitsAssumption == {MaxStepDepth, MaxSteps} \subseteq Nat \ {0}

-----------------------------------------------------------------------------
(* Admission of the descriptor. *)

(* The steps of a tree in the order they are visited, each with its depth. *)
RECURSIVE AllSteps(_, _)
AllSteps(steps, depth) ==
  FlattenSeq([i \in DOMAIN steps |->
    <<[step |-> steps[i], depth |-> depth]>> \o AllSteps(steps[i].children, depth + 1)])

Nesting == {"phase", "parallel", "repeat"}
MayNest == Nesting \cup {"agent", "subworkflow"}
StepKinds == MayNest \cup {"approval", "verification", "compensation", "execution"}

(* A closed execution asks for exactly, or at least, what its plan needs. *)
ExecutionOk(exec, caps) ==
  CASE exec.surface = "server_effect" -> EffectIntentOk(exec.plan) /\ caps = {exec.plan.capability}
    [] exec.surface = "browser" -> BrowserPlanOk(exec.plan) /\ BrowserCapabilities(exec.plan) \subseteq caps
    [] OTHER -> FALSE

StepOk(s, authority) ==
  /\ s.kind \in StepKinds
  /\ s.caps \subseteq authority
  /\ s.kind \in Nesting => s.children # <<>>
  /\ s.kind \notin MayNest => s.children = <<>>
  /\ s.kind = "repeat" => s.bounded
  /\ IF s.kind = "execution" THEN s.exec # None /\ ExecutionOk(s.exec, s.caps) ELSE s.exec = None

DescriptorOk(d, authority) ==
  LET all == AllSteps(d.steps, 1) IN
  /\ d.steps # <<>>
  /\ \A i \in DOMAIN all : all[i].depth <= MaxStepDepth /\ StepOk(all[i].step, authority)
  /\ Len(all) <= Min({MaxSteps, d.limits.maxSteps})

-----------------------------------------------------------------------------
(* Admission of the compiled graph: [entry, nodes, edges, budget, limits], a
   node [id, kind, agent, caps, retry, compensation, loop, exec]. *)

WithinBudget(b, ceiling) == \A f \in DOMAIN b : b[f] <= ceiling[f]

GraphNodeOk(n, d, authority) ==
  /\ n.id \in Nat \ {0}
  /\ n.kind \in CoreNodeKinds
  /\ n.retry \in 0 .. d.limits.maxRetries
  /\ n.caps \subseteq authority
  /\ n.exec # None => n.kind = "command" /\ ExecutionOk(n.exec, n.caps)
  /\ (n.kind = "loop") <=> (n.loop # None)
  /\ n.loop # None => /\ n.loop.iterations \in 1 .. 100
                       /\ WithinBudget(n.loop.budget, d.budget)

(* The nodes met from a node on; None stands for a raw cycle. *)
RECURSIVE Walk(_, _, _)
Walk(edges, node, visiting) ==
  IF node \in visiting THEN {None}
  ELSE {node} \cup UNION {Walk(edges, next, visiting \cup {node}) : next \in Targets(edges, node)}

(* The walk from the entry ends and meets every node. *)
WalksAcyclic(g, ids) == None \notin Walk(g.edges, g.entry, {})
WalksEverywhere(g, ids) == Walk(g.edges, g.entry, {}) = ids

(* How often each member of a sequence of sets is asked for. *)
CountAll(sets) ==
  [x \in UNION Range(sets) |-> Cardinality({i \in DOMAIN sets : x \in sets[i]})]
Executions(things) ==
  LET some == SelectSeq(things, LAMBDA t : t.exec # None) IN
  CountAll([i \in DOMAIN some |-> {some[i].exec}])

SameEvidence(g, d) ==
  LET all == AllSteps(d.steps, 1)
      steps == [i \in DOMAIN all |-> all[i].step]
  IN /\ CountAll([i \in DOMAIN steps |-> steps[i].caps])
          = CountAll([i \in DOMAIN g.nodes |-> g.nodes[i].caps])
     /\ Executions(steps) = Executions(g.nodes)

CompiledGraphOk(g, d, authority) ==
  LET ids == {g.nodes[i].id : i \in DOMAIN g.nodes} IN
  /\ g.id = d.id
  /\ \A k \in DOMAIN g.limits : g.limits[k] = d.limits[k]
  /\ WithinBudget(g.budget, d.budget)
  /\ Len(g.nodes) \in 1 .. Min({2 * MaxSteps, g.limits.maxActiveNodes})
  /\ Cardinality(ids) = Len(g.nodes)
  /\ \A i \in DOMAIN g.nodes : GraphNodeOk(g.nodes[i], d, authority)
  /\ g.entry \in ids
  /\ \A i \in DOMAIN g.edges :
       /\ {g.edges[i].from, g.edges[i].to} \subseteq ids
       /\ g.edges[i].from # g.edges[i].to
       /\ \A j \in 1 .. i - 1 : g.edges[j] # g.edges[i]
  /\ \A id \in ids :
       Cardinality({i \in DOMAIN g.edges : g.edges[i].from = id}) <= g.limits.maxChildrenPerNode
  /\ WalksEverywhere(g, ids)
  /\ SameEvidence(g, d)

-----------------------------------------------------------------------------
(* The host's own plans.  A catalog is [doctype, record, identity, actions,
   fields, schema]; a field [name, label, type, create, update, required,
   has_default, default, options], default a link's configured one; values a sequence of [field, value]. *)

Action(kind, route, catalog, record) ==
  [kind |-> kind, route |-> route, doctype |-> catalog.doctype, record |-> record,
   target |-> None, post |-> None, field |-> None, value |-> None, limit |-> None]
Button(name) == [kind |-> "button", name |-> name]
Post(kind, catalog, record) ==
  [kind |-> kind, doctype |-> catalog.doctype, record |-> record, route |-> None, target |-> None]
Visible(target, catalog) == [Post("target", catalog, None) EXCEPT !.target = target]

Plan(operation, catalog, record, fields, actions) ==
  [budget |-> Len(actions), actions |-> actions,
   crud |-> [operation |-> operation, doctype |-> catalog.doctype, record |-> record,
             fields |-> fields, schema |-> catalog.schema]]

FieldNamed(catalog, name) == CHOOSE f \in catalog.fields : f.name = name
Writable(f, action) == IF action = "create" THEN f.create ELSE f.update
ScalarTypes == {"Data", "Select", "Link"}

(* A link that repeats the noun of the record's type takes the configured default. *)
HostResolved(v, action, catalog) ==
  LET f == FieldNamed(catalog, v.field) IN
  /\ f.type = "Link" /\ v.value \notin f.options
  /\ action = "create" /\ v.value = Alias /\ f.default # None
Resolve(values, action, catalog) ==
  [i \in DOMAIN values |->
     IF HostResolved(values[i], action, catalog)
     THEN [values[i] EXCEPT !.value = FieldNamed(catalog, values[i].field).default]
     ELSE values[i]]

ValueError(v, action, catalog) ==
  IF \A f \in catalog.fields : f.name # v.field THEN "error"
  ELSE LET f == FieldNamed(catalog, v.field) IN
    FirstError(<<
      <<"error", ~Writable(f, action)>>,
      <<"error", \E g \in catalog.fields \ {f} : g.label = f.label>>,
      <<"error", f.type \notin ScalarTypes>>,
      <<"clarify", f.type \in {"Select", "Link"} /\ v.value \notin f.options
                     /\ ~HostResolved(v, action, catalog)>> >>)

(* Values the objective does not contain, and required fields a create leaves open. *)
Ungrounded(values, action, catalog, words) ==
  \E i \in DOMAIN values :
    ~HostResolved(values[i], action, catalog) /\ values[i].value \notin words
Unfilled(values, catalog) ==
  \E f \in catalog.fields :
    f.required /\ ~f.has_default /\ \A i \in DOMAIN values : values[i].field # f.name

ChangeError(action, values, catalog, words) ==
  LET perValue == [i \in DOMAIN values |->
                     LET e == ValueError(values[i], action, catalog) IN <<e, e # "ok">>]
      first == FirstError(perValue)
  IN IF first # "ok" THEN first
     ELSE FirstError(<<
       <<"clarify", Ungrounded(values, action, catalog, words)>>,
       <<"clarify", action = "create" /\ Unfilled(values, catalog)>>,
       <<"error", action = "update" /\ catalog.record = None>> >>)

HostChangePlan(action, given, catalog) ==
  LET values == Resolve(given, action, catalog)
      record == IF action = "update" THEN catalog.record ELSE None
      route == IF action = "update" THEN "form" ELSE AttendedForm
      set(v) == LET f == FieldNamed(catalog, v.field)
                    label == [kind |-> "label", name |-> f.label]
                IN [Action(IF f.type = "Select" THEN "select" ELSE "fill", route, catalog, record)
                      EXCEPT !.target = label, !.field = f.name, !.value = v.value,
                             !.post = Visible(label, catalog)]
      opening == IF action = "update" THEN << Action("navigate", route, catalog, record) >>
                 ELSE << Action("navigate", "list", catalog, None),
                         [Action("click", "list", catalog, None) EXCEPT
                            !.target = Button("New"), !.post = Post("bind_route", catalog, None)] >>
      sorted == SortSeq(values, LAMBDA v, w : v.field < w.field)
      save == [Action("click", route, catalog, record) EXCEPT
                 !.target = Button("Save"), !.post = Post("record_saved", catalog, record)]
  IN Plan(action, catalog, record, {v.field : v \in Range(values)},
          opening \o [i \in DOMAIN sorted |-> set(sorted[i])] \o <<save>>)

HostDeletePlan(catalog) ==
  LET at(kind) == Action(kind, "form", catalog, catalog.record) IN
  Plan("delete", catalog, catalog.record, {},
       << at("navigate"),
          [at("click") EXCEPT !.target = Button("Menu"), !.post = Visible(Button("Delete"), catalog)],
          [at("read_visible") EXCEPT !.target = Button("Delete"), !.limit = 100] >>)

HostReadPlan(catalog) ==
  LET route == IF catalog.record = None THEN "list" ELSE "form" IN
  Plan("read", catalog, catalog.record, {},
       << Action("navigate", route, catalog, catalog.record),
          [Action("read_visible", route, catalog, catalog.record) EXCEPT !.limit = 10000] >>)

-----------------------------------------------------------------------------
(* A model's record intent is replaced by the host's plan for it.  A request r
   is [catalogs, authority, kind, action, words]: the action its objective names,
   if it names one, and the values it contains. *)

Converted(plan) ==
  [verdict |-> "changed", exec |-> [surface |-> "browser", plan |-> plan],
   caps |-> BrowserCapabilities(plan)]
NotConverted(verdict, thing) == [verdict |-> verdict, exec |-> thing.exec, caps |-> thing.caps]

ConvertRead(thing, r) ==
  LET actions == thing.exec.plan.actions
      named == {actions[i].doctype : i \in DOMAIN actions} \ {None}
      candidates == {c \in r.catalogs : named = {} \/ c.doctype \in named}
      refusal == FirstError(<<
        <<"error", r.kind # "attended_browser">>,
        <<"clarify", r.action # None>>,
        <<"error", \E i \in DOMAIN actions : actions[i].kind \notin {"navigate", "read_visible"}>>,
        <<"error", Cardinality(candidates) # 1>> >>)
  IN IF refusal # "ok" THEN NotConverted(refusal, thing)
     ELSE Converted(HostReadPlan(CHOOSE c \in candidates : TRUE))

ConvertRecordEffect(thing, r, catalog) ==
  LET intent == thing.exec.plan
      change == intent.action # "delete"
      refusal == FirstError(<<
        <<"clarify", r.action \notin {None, intent.action}>>,
        <<"clarify", intent.action \in {"update", "delete"} /\ catalog.identity # "unique">>,
        <<"error", intent.action \notin catalog.actions>>,
        <<"error", ~change /\ (intent.values # None \/ intent.approval # "dual_control")>>,
        <<"error", change /\ intent.values \in {None, <<>>}>> >>)
      filled == IF refusal = "ok" /\ change
                THEN ChangeError(intent.action, intent.values, catalog, r.words) ELSE refusal
      plan == IF change THEN HostChangePlan(intent.action, intent.values, catalog)
              ELSE HostDeletePlan(catalog)
  IN IF filled # "ok" THEN NotConverted(filled, thing)
     ELSE IF ~BrowserPlanOk(plan) THEN NotConverted("error", thing)
     ELSE Converted(plan)

ConvertEffect(thing, r) ==
  LET fitting == {c \in r.catalogs : c.doctype = thing.exec.plan.doctype} IN
  IF thing.exec.plan.family # "record" THEN NotConverted("keep", thing)
  ELSE IF fitting = {} THEN NotConverted("error", thing)
  ELSE ConvertRecordEffect(thing, r, CHOOSE c \in fitting : TRUE)

Convert(thing, r) ==
  LET result == IF thing.exec = None THEN NotConverted("keep", thing)
                ELSE IF thing.exec.surface = "browser" THEN ConvertRead(thing, r)
                ELSE ConvertEffect(thing, r)
  IN IF result.verdict = "changed" /\ ~(result.caps \subseteq r.authority)
     THEN NotConverted("error", thing) ELSE result

RECURSIVE ConvertSteps(_, _)
ConvertSteps(steps, r) ==
  [i \in DOMAIN steps |->
     LET new == Convert(steps[i], r) IN
     [steps[i] EXCEPT !.exec = new.exec, !.caps = new.caps,
                      !.children = ConvertSteps(steps[i].children, r)]]

ConvertNodesOnly(nodes, r) ==
  [i \in DOMAIN nodes |-> [nodes[i] EXCEPT !.exec = Convert(nodes[i], r).exec]]
ConvertNodes(nodes, r) ==
  [i \in DOMAIN nodes |->
     LET new == Convert(nodes[i], r) IN [nodes[i] EXCEPT !.exec = new.exec, !.caps = new.caps]]

Materialize(d, g, r) ==
  LET all == AllSteps(d.steps, 1)
      ofSteps == [i \in DOMAIN all |-> Convert(all[i].step, r).verdict]
      ofNodes == [i \in DOMAIN g.nodes |-> Convert(g.nodes[i], r).verdict]
      changed(verdicts) == Cardinality({i \in DOMAIN verdicts : verdicts[i] = "changed"})
      verdicts == ofSteps \o ofNodes
      refusal == FirstError(
        << <<"error", r.catalogs = {}>> >>
        \o [i \in DOMAIN verdicts |-> <<verdicts[i], verdicts[i] \in {"clarify", "error"}>>]
        \o << <<"error", changed(ofSteps) = 0 \/ changed(ofSteps) # changed(ofNodes)>> >>)
  IN IF refusal # "ok" THEN [verdict |-> refusal]
     ELSE [verdict |-> "ok", descriptor |-> [d EXCEPT !.steps = ConvertSteps(d.steps, r)],
           graph |-> [g EXCEPT !.nodes = ConvertNodes(g.nodes, r)]]

-----------------------------------------------------------------------------
(* Review and preview of the attended plans. *)

BrowserPlans(g) ==
  LET some == SelectSeq(g.nodes, LAMBDA n : n.exec # None /\ n.exec.surface = "browser") IN
  [i \in DOMAIN some |-> some[i].exec.plan]

(* The one attended operation of a proposal, for which its reviewer must qualify. *)
OperationOf(exec) ==
  CASE exec.surface = "server_effect" ->
         IF exec.plan.capability = <<"record", "delete">> THEN "delete" ELSE None
    [] OTHER -> IF exec.plan.crud # None THEN exec.plan.crud.operation ELSE None
AttendedOperations(g) ==
  LET some == SelectSeq(g.nodes, LAMBDA n : n.exec # None /\ OperationOf(n.exec) # None) IN
  [i \in DOMAIN some |-> OperationOf(some[i].exec)]
AttendedOperationAlone(g) ==
  IF Len(AttendedOperations(g)) = 1 THEN AttendedOperations(g)[1] ELSE None
AttendedOperation(g) ==
  LET operations == AttendedOperations(g) IN
  IF "delete" \in Range(operations) /\ operations # <<"delete">> THEN "error"
  ELSE IF Len(operations) = 1 THEN operations[1] ELSE None

(* attended_proposal_preview: the form values a user is shown before a save. *)
Saves(plan) ==
  {i \in DOMAIN plan.actions : plan.actions[i].kind = "click" /\ plan.actions[i].target = Button("Save")}
PreviewOk(plan, catalog) ==
  /\ plan.crud # None /\ plan.crud.schema = catalog.schema
  /\ IF plan.crud.operation = "delete" THEN plan = HostDeletePlan(plan.crud)
     ELSE LET sets == {i \in DOMAIN plan.actions : plan.actions[i].kind \in {"fill", "select"}} IN
          /\ plan.crud.operation \in {"create", "update"}
          /\ Saves(plan) = {Len(plan.actions)}
          /\ Cardinality(sets) = Cardinality(plan.crud.fields)
          /\ {plan.actions[i].field : i \in sets} = plan.crud.fields
          /\ \A name \in plan.crud.fields :
               \E f \in catalog.fields : f.name = name /\ Writable(f, plan.crud.operation)

-----------------------------------------------------------------------------
(* The native rows of an admitted graph, and the checks of its Muster Workflow. *)

NativeType(kind) ==
  IF \E t \in NodeTypes \ {"Tool"} : NodeKind[t] = kind
  THEN CHOOSE t \in NodeTypes \ {"Tool"} : NodeKind[t] = kind ELSE "Tool"

NativeRows(g, rootAgent) ==
  [i \in DOMAIN g.nodes |->
     LET n == g.nodes[i]
         surface(kind) == IF n.exec # None /\ n.exec.surface = kind THEN n.exec.plan ELSE None
     IN [node_id |-> n.id, node_type |-> NativeType(n.kind),
         agent |-> IF n.kind # "agent" THEN None
                   ELSE IF n.agent # None THEN n.agent ELSE rootAgent,
         approval_class |-> "Standard", retry_limit |-> n.retry, timeout |-> 600,
         conf |-> [core_kind |-> n.kind, caps |-> n.caps, compensation |-> n.compensation,
                   iterations |-> IF n.loop = None THEN 0 ELSE n.loop.iterations,
                   progress |-> n.loop # None,
                   budget |-> IF n.loop = None THEN None ELSE n.loop.budget,
                   browser |-> surface("browser"), effect |-> surface("server_effect")]]]

RootAgentOk(nodes, root, rootAgent) ==
  \A i \in DOMAIN nodes : nodes[i].node_id = root => nodes[i].agent \in {None, rootAgent}
=============================================================================
