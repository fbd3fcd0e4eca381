--------------------------- MODULE WorkflowGraph ---------------------------
(***************************************************************************)
(* The workflow compiler (orchestration/workflow_graph.py): the admission   *)
(* of browser plans and effect intents, the validation of a graph's rows,   *)
(* its portable definition and its execution manifest.                      *)
(*                                                                         *)
(* Validators raise the first failing check in the code's order; here they  *)
(* return its code, or "ok".  Identifiers are numbers, their alphabetical   *)
(* order the numbers' order; a text that fails its pattern is "bad".  A     *)
(* capability is a family and a kind of action in it.                       *)
(***************************************************************************)
EXTENDS Integers, Sequences, FiniteSets, SequencesExt, FiniteSetsExt, TLC

CONSTANTS
  None,            \* the absent value
  NodeIds,         \* well-formed node identifiers, numbers
  SecretFields,    \* fields whose name is a secret's
  MaxDepth, MaxFanOut, MaxActiveNodes, MaxRetries  \* GraphLimits

ASSUME LimitsAssumption ==
  /\ NodeIds \subseteq Nat \ {0}
  /\ {MaxDepth, MaxFanOut, MaxActiveNodes, MaxRetries} \subseteq Nat \ {0}

(* The first failing check of a sequence <<code, failed>> decides. *)
FirstError(checks) ==
  LET failing == {i \in DOMAIN checks : checks[i][2]} IN
  IF failing = {} THEN "ok" ELSE checks[Min(failing)][1]

-----------------------------------------------------------------------------
(* Browser plans: [budget, actions, crud]; an action is
   [kind, route, doctype, record, target, post, field, value, limit]. *)

BrowserKinds == {"navigate", "click", "fill", "select", "upload", "screenshot", "read_visible"}
Mutating == {"click", "fill", "select", "upload"}
AttendedForm == "attended-form"
DeskRoutes == {"list", "form"}

(* The optional parts an action of each kind must and may have. *)
RequiredParts(kind) ==
  CASE kind = "click" -> {"target", "post"}
    [] kind \in {"fill", "select", "upload"} -> {"target", "post", "field", "value"}
    [] kind = "screenshot" -> {"field", "limit"}
    [] kind = "read_visible" -> {"limit"}
    [] OTHER -> {}
OptionalParts(kind) == IF kind = "read_visible" THEN {"target"} ELSE {}

TargetKinds ==
  {"label", "test_id", "button", "link", "textbox", "combobox", "checkbox", "tab"}
TargetOk(t) == t.kind \in TargetKinds

PostconditionOk(p) ==
  CASE p.kind = "route" -> p.route \in DeskRoutes
    [] p.kind = "target" -> TargetOk(p.target)
    [] p.kind \in {"record_saved", "bind_route"} -> p.doctype # None
    [] OTHER -> FALSE

BrowserActionOk(a) ==
  LET parts == {k \in {"target", "post", "field", "value", "limit"} : a[k] # None} IN
  /\ a.kind \in BrowserKinds
  /\ a.route \in DeskRoutes \cup {AttendedForm}
  /\ a.kind \in Mutating => a.doctype # None
  /\ RequiredParts(a.kind) \subseteq parts
  /\ parts \subseteq RequiredParts(a.kind) \cup OptionalParts(a.kind)
  /\ a.target # None => TargetOk(a.target)
  /\ a.post # None => PostconditionOk(a.post)
  /\ a.field \notin SecretFields
  /\ a.limit # None => a.limit \in 1 .. 10000

(* The form-route token stands for a form that an earlier click has opened. *)
RouteBinds(a) == a.post # None /\ a.post.kind = "bind_route"

RouteBindingOk(plan) ==
  \A i \in DOMAIN plan.actions :
    LET bound == \E j \in 1 .. i - 1 : RouteBinds(plan.actions[j]) IN
    /\ plan.actions[i].route = AttendedForm => bound
    /\ RouteBinds(plan.actions[i]) =>
         /\ ~bound /\ plan.crud.operation = "create"
         /\ plan.actions[i].post.doctype = plan.crud.doctype

PlanFields(plan) == {plan.actions[i].field : i \in DOMAIN plan.actions} \ {None}

AttendedCrudOk(plan) ==
  LET crud == plan.crud IN
  /\ crud.operation \in {"create", "read", "update", "delete"}
  /\ crud.operation \in {"update", "delete"} => crud.record # None
  /\ crud.operation = "create" => crud.record = None
  /\ Cardinality(crud.fields) <= 100
  /\ crud.schema # None
  /\ PlanFields(plan) = crud.fields
  /\ \A i \in DOMAIN plan.actions : plan.actions[i].doctype \in {None, crud.doctype}
  /\ RouteBindingOk(plan)

BrowserPlanOk(plan) ==
  /\ plan.budget \in 1 .. 100
  /\ Len(plan.actions) \in 1 .. plan.budget
  /\ \A i \in DOMAIN plan.actions : BrowserActionOk(plan.actions[i])
  /\ IF plan.crud # None THEN AttendedCrudOk(plan)
     ELSE \A i \in DOMAIN plan.actions : plan.actions[i].route # AttendedForm

BrowserCapabilities(plan) == {<<"browser", plan.actions[i].kind>> : i \in DOMAIN plan.actions}

-----------------------------------------------------------------------------
(* Effect intents: [family, action, capability, doctype, docname, values,
   artifacts, approval, rules]. *)

ExecutableArtifacts ==
  {"doctype", "page", "workspace", "report", "script_report", "print_format", "web_page",
   "web_form", "notification", "assignment_rule", "client_script", "server_script",
   "email_template"}
NativeArtifacts == ExecutableArtifacts \cup {"custom_field", "property_setter"}

EffectCapabilities ==
  ({"record"} \X {"create", "update", "delete"}) \cup ({"native_artifact"} \X NativeArtifacts)

RuleOk(r) ==
  /\ r.operator \in {"equals", "exists", "absent"}
  /\ (r.operator = "equals") <=> (r.expected # None)

EffectIntentOk(e) ==
  /\ e.capability \in EffectCapabilities
  /\ e.approval \in {"single", "dual_control"}
  /\ <<e.family, e.action>> = e.capability
  /\ IF e.family = "record"
     THEN /\ e.action \in {"update", "delete"} <=> e.docname # None
          /\ (e.action = "delete") <=> (e.values = None)
          /\ e.action = "delete" => e.approval = "dual_control"
     ELSE /\ Cardinality(e.artifacts) \in 1 .. 50
          /\ \A a \in e.artifacts :
               a.kind = IF e.action = "report" THEN "query_report" ELSE e.action
          /\ e.action \in ExecutableArtifacts => e.approval = "dual_control"
  /\ Len(e.rules) \in 1 .. 32
  /\ \A i \in DOMAIN e.rules : RuleOk(e.rules[i])

-----------------------------------------------------------------------------
(* The rows of a workflow: nodes are [node_id, node_type, agent, approval_class,
   retry_limit, timeout, conf], edges [from, to, when]. *)

NodeTypes ==
  {"Agent", "Tool", "Approval", "Condition", "Parallel", "Join", "BoundedLoop", "Artifact"}
ApprovalClasses == {"None", "Standard", "Sensitive", "PrivilegedCode", "Destructive"}
CoreNodeKinds ==
  {"plan", "agent", "subworkflow", "command", "transform", "condition", "parallel_map",
   "approval", "wait", "artifact", "verification", "compensation", "loop"}
NodeKind ==
  [Agent |-> "agent", Tool |-> "command", Approval |-> "approval", Condition |-> "condition",
   Parallel |-> "parallel_map", Join |-> "transform", BoundedLoop |-> "loop",
   Artifact |-> "artifact"]

SurfaceError(conf) ==
  FirstError(<<
    <<"invalid_browser_plan", conf.browser # None /\ ~BrowserPlanOk(conf.browser)>>,
    <<"browser_capability_missing",
      conf.browser # None /\ ~(BrowserCapabilities(conf.browser) \subseteq conf.caps)>>,
    <<"multiple_execution_surfaces", conf.browser # None /\ conf.effect # None>>,
    <<"invalid_effect_intent", conf.effect # None /\ ~EffectIntentOk(conf.effect)>>,
    <<"effect_capability_mismatch",
      conf.effect # None /\ conf.caps # {conf.effect.capability}>> >>)

NodeError(nodes, i) ==
  LET n == nodes[i]
      surface == SurfaceError(n.conf)
  IN FirstError(<<
    <<"invalid_node_id", n.node_id \notin NodeIds>>,
    <<"duplicate_node", \E j \in 1 .. i - 1 : nodes[j].node_id = n.node_id>>,
    <<"invalid_node_type", n.node_type \notin NodeTypes>>,
    <<"missing_agent", n.node_type = "Agent" /\ n.agent = None>>,
    <<"invalid_approval_class", n.approval_class \notin ApprovalClasses>>,
    <<"retry_limit", n.retry_limit \notin 0 .. MaxRetries>>,
    <<"timeout_limit", n.timeout \notin 1 .. 86400>>,
    <<"invalid_core_kind", n.conf.core_kind \notin CoreNodeKinds \cup {None}>>,
    <<surface, surface # "ok">>,
    <<"unbounded_loop",
      n.node_type = "BoundedLoop" /\ (n.conf.iterations \notin 1 .. 100 \/ ~n.conf.progress)>> >>)

EdgeError(nodes, edges, i) ==
  LET e == edges[i]
      ids == {nodes[k].node_id : k \in DOMAIN nodes}
  IN FirstError(<<
    <<"unknown_node", ~({e.from, e.to} \subseteq ids)>>,
    <<"self_edge", e.from = e.to>>,
    <<"duplicate_edge", \E j \in 1 .. i - 1 : edges[j].from = e.from /\ edges[j].to = e.to>> >>)

Targets(edges, id) == {edges[i].to : i \in {j \in DOMAIN edges : edges[j].from = id}}
Sources(edges, id) == {edges[i].from : i \in {j \in DOMAIN edges : edges[j].to = id}}
FanOut(edges, ids) == Max({0} \cup {Cardinality(Targets(edges, id)) : id \in ids})
Roots(edges, ids) == {id \in ids : Sources(edges, id) = {}}

(* One round of the topological sort: the queue is kept sorted, its least
   identifier leaves it; distance is the number of agents on the longest way there. *)
Pending(edges, s, current) ==
  [id \in DOMAIN s.pending |->
     s.pending[id] - (IF id \in Targets(edges, current) THEN 1 ELSE 0)]
DistanceOfLast(edges, isAgent, s, current) ==
  [id \in DOMAIN s.distance |->
     IF id \in Targets(edges, current) THEN s.distance[current] + isAgent[id] ELSE s.distance[id]]
Distance(edges, isAgent, s, current) ==
  [id \in DOMAIN s.distance |->
     IF id \in Targets(edges, current)
     THEN Max({s.distance[id], s.distance[current] + isAgent[id]}) ELSE s.distance[id]]

Ready(edges, pending, current) == {id \in Targets(edges, current) : pending[id] = 0}

PopLeast(edges, isAgent, s) ==
  IF s.queue = {} THEN s
  ELSE LET current == Min(s.queue)
           pending == Pending(edges, s, current)
       IN [order    |-> Append(s.order, current),
           pending  |-> pending,
           queue    |-> (s.queue \ {current}) \cup Ready(edges, pending, current),
           distance |-> Distance(edges, isAgent, s, current)]

TopologicalSort(nodes, edges) ==
  LET ids == {nodes[k].node_id : k \in DOMAIN nodes}
      isAgent == [id \in ids |->
                    IF \E k \in DOMAIN nodes : nodes[k].node_id = id /\ nodes[k].node_type = "Agent"
                    THEN 1 ELSE 0]
      roots == Roots(edges, ids)
  IN FoldLeft(LAMBDA s, n : PopLeast(edges, isAgent, s),
              [order    |-> <<>>,
               pending  |-> [id \in ids |-> Cardinality(Sources(edges, id))],
               queue    |-> roots,
               distance |-> [id \in ids |-> IF id \in roots THEN isAgent[id] ELSE 0]],
              nodes)

Refused(code) == [error |-> code]

(* validate_graph: the analysis of an accepted graph, or the first error. *)
ValidateGraph(nodes, edges) ==
  LET ids == {nodes[k].node_id : k \in DOMAIN nodes}
      nodeErrors == [i \in DOMAIN nodes |-> <<NodeError(nodes, i), NodeError(nodes, i) # "ok">>]
      edgeErrors == [i \in DOMAIN edges |->
                       <<EdgeError(nodes, edges, i), EdgeError(nodes, edges, i) # "ok">>]
      rows == FirstError(<< <<"empty_graph", nodes = <<>> >>,
                            <<"node_limit", Len(nodes) > MaxActiveNodes>> >>
                         \o nodeErrors \o edgeErrors)
      sorted == TopologicalSort(nodes, edges)
      depth == Max({0} \cup Range(sorted.distance))
      shape == FirstError(<<
        <<"fan_out_limit", FanOut(edges, ids) > MaxFanOut>>,
        <<"cycle", Len(sorted.order) # Len(nodes)>>,
        <<"root_count", Cardinality(Roots(edges, ids)) # 1>>,
        <<"depth_limit", depth > MaxDepth>> >>)
  IN IF rows # "ok" THEN Refused(rows)
     ELSE IF shape # "ok" THEN Refused(shape)
     ELSE [error |-> "ok", root |-> sorted.order[1], depth |-> depth, order |-> sorted.order]

-----------------------------------------------------------------------------
(* The portable definition and the execution manifest. *)

(* Every limit but time and cost that is zero or absent becomes a default. *)
DefaultBudget ==
  [toolCalls |-> 100, modelCalls |-> 50, tokens |-> 500000, artifactBytes |-> 104857600]
PortableBudget(budget) ==
  [f \in DOMAIN budget |->
     IF f \in DOMAIN DefaultBudget /\ budget[f] = 0 THEN DefaultBudget[f] ELSE budget[f]]

PortableNode(n, budget) ==
  LET kind == IF n.conf.core_kind # None THEN n.conf.core_kind ELSE NodeKind[n.node_type] IN
  [id |-> n.node_id, kind |-> kind, agent |-> n.agent, caps |-> n.conf.caps,
   retry |-> n.retry_limit, compensation |-> n.conf.compensation,
   loop |-> IF kind # "loop" THEN None
            ELSE [iterations |-> n.conf.iterations, progress |-> n.conf.progress,
                  budget |-> IF n.conf.budget # None THEN n.conf.budget ELSE budget]]

(* portable_definition of rows that validate_graph accepts. *)
PortableDefinitionUnsorted(workflow, nodes, edges) ==
  LET budget == PortableBudget(workflow.budget) IN
  [id |-> workflow.name, version |-> workflow.version,
   entry |-> ValidateGraph(nodes, edges).root,
   nodes |-> [i \in DOMAIN nodes |-> PortableNode(nodes[i], budget)],
   edges |-> edges, budget |-> budget]

PortableDefinition(workflow, nodes, edges) ==
  LET budget == PortableBudget(workflow.budget) IN
  [id |-> workflow.name, version |-> workflow.version,
   entry |-> ValidateGraph(nodes, edges).root,
   nodes |-> SortSeq([i \in DOMAIN nodes |-> PortableNode(nodes[i], budget)],
                     LAMBDA a, b : a.id < b.id),
   edges |-> SortSeq(edges, LAMBDA a, b : a.from < b.from \/ (a.from = b.from /\ a.to < b.to)),
   budget |-> budget]

(* What a plan may touch, as the reviewer is shown it. *)
ResourceScope(conf) ==
  IF conf.effect # None
  THEN [routes |-> {},
        doctypes |-> IF conf.effect.family = "record" THEN {conf.effect.doctype}
                     ELSE {a.doctype : a \in conf.effect.artifacts} \ {None},
        records |-> IF conf.effect.family = "record" THEN {conf.effect.docname} \ {None}
                    ELSE {a.docname : a \in conf.effect.artifacts} \ {None},
        fields |-> IF conf.effect.family # "record" THEN UNION {a.fields : a \in conf.effect.artifacts}
                   ELSE IF conf.effect.values = None THEN {} ELSE DOMAIN conf.effect.values]
  ELSE LET part(k) == {conf.browser.actions[i][k] : i \in DOMAIN conf.browser.actions} \ {None}
       IN [routes |-> part("route"), doctypes |-> part("doctype"),
           records |-> part("record"), fields |-> part("field")]

ExecutionManifest(nodes) ==
  LET planned == {i \in DOMAIN nodes : nodes[i].conf.browser # None \/ nodes[i].conf.effect # None}
  IN [id \in {nodes[i].node_id : i \in planned} |->
        LET conf == nodes[CHOOSE i \in planned : nodes[i].node_id = id].conf IN
        [plan |-> IF conf.effect # None THEN conf.effect ELSE conf.browser,
         scope |-> ResourceScope(conf)]]

(* compile_legacy_snapshot: a portable snapshot is kept as it is; rows written
   before the contract are compiled, a "plan" or "verify" node as that kind. *)
LegacyKind(n, legacyNames) ==
  IF n.conf.core_kind = None /\ n.node_id \in DOMAIN legacyNames
  THEN [n EXCEPT !.conf.core_kind = legacyNames[n.node_id]]
  ELSE n

CompileLegacySnapshot(raw, legacyNames) ==
  IF raw.portable THEN raw.definition
  ELSE PortableDefinition(raw.workflow,
         [i \in DOMAIN raw.nodes |-> LegacyKind(raw.nodes[i], legacyNames)], raw.edges)
=============================================================================
