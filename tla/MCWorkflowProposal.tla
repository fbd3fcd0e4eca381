------------------------- MODULE MCWorkflowProposal -------------------------
(* Every small graph, descriptor and attended change, one of them per behaviour:
   it is drawn, and its validators and compilers run over it. *)
EXTENDS WorkflowProposal

VARIABLES input, outcome
mcVars == <<input, outcome>>

Authority == ({"browser"} \X BrowserKinds) \cup ({"record"} \X {"create", "update", "delete"})

-----------------------------------------------------------------------------
(* Graph rows: every graph over at most three nodes, diamonds and cycles over four. *)

Plain == [core_kind |-> None, caps |-> {}, browser |-> None, effect |-> None, iterations |-> 1,
          progress |-> TRUE, budget |-> None, compensation |-> None]
Row(id, type) == [node_id |-> id, node_type |-> type, agent |-> "A", approval_class |-> "Standard",
                  retry_limit |-> 0, timeout |-> 600, conf |-> Plain]
Edge(pair, when) == [from |-> pair[1], to |-> pair[2], when |-> when]
Edges(pairs) == [i \in DOMAIN pairs |-> Edge(pairs[i], None)]
Rows(types) == [i \in DOMAIN types |-> Row(i, types[i])]
Workflow == [name |-> "w", version |-> 1, budget |-> [runtimeMs |-> 1, toolCalls |-> 2]]

SmallRows ==
  UNION {{[nodes |-> Rows(types), edges |-> Edges(pairs)] :
            types \in [1 .. n -> {"Agent", "Tool"}],
            pairs \in SeqOf((1 .. n) \X (1 .. n), 3) \cup {<< <<1, n + 1>> >>}} : n \in 1 .. 3}
FourRows ==
  {[nodes |-> Rows(<<"Agent", "Tool", a, "Agent">>), edges |-> Edges(SetToSeq(pairs))] :
     a \in {"Agent", "Tool"},
     pairs \in UNION {kSubset(k, {p \in (1 .. 4) \X (1 .. 4) : p[1] # p[2]}) : k \in 3 .. 4}}

-----------------------------------------------------------------------------
(* Compiled graphs and the descriptors they came from. *)

Limits == [maxRetries |-> 1, maxActiveNodes |-> 4, maxChildrenPerNode |-> 2, maxSteps |-> 4]
Budgets == [runtimeMs |-> 1, toolCalls |-> 2]
Step(kind, caps, exec, children) ==
  [kind |-> kind, caps |-> caps, exec |-> exec, children |-> children, bounded |-> TRUE]

Values(names) == [i \in DOMAIN names |-> [field |-> names[i], value |-> "x"]]
Intent(action, values) ==
  [capability |-> <<"record", action>>, family |-> "record", action |-> action, doctype |-> "Lead",
   docname |-> IF action = "create" THEN None ELSE "L1",
   values |-> IF action = "delete" THEN None ELSE values, artifacts |-> {},
   approval |-> IF action = "delete" THEN "dual_control" ELSE "single",
   rules |-> << [operator |-> "exists", expected |-> None] >>]
Effect(action, values) == [surface |-> "server_effect", plan |-> Intent(action, values)]
Lead == [doctype |-> "Lead", record |-> None]
ReadPlan == [budget |-> 1, actions |-> << Action("navigate", "list", Lead, None) >>, crud |-> None]
Reading == [surface |-> "browser", plan |-> ReadPlan]

GraphNode(id, kind, exec) ==
  [id |-> id, kind |-> kind, agent |-> None, retry |-> 0, compensation |-> None, exec |-> exec,
   caps |-> IF exec = None THEN {<<"browser", "read_visible">>}
            ELSE IF exec.surface = "browser" THEN BrowserCapabilities(exec.plan)
            ELSE {exec.plan.capability},
   loop |-> IF kind = "loop" THEN [iterations |-> 2, progress |-> TRUE, budget |-> Budgets] ELSE None]
Graph(nodes, edges, entry) ==
  [id |-> "w", nodes |-> nodes, edges |-> edges, entry |-> entry, budget |-> Budgets, limits |-> Limits]

(* The steps the nodes were compiled from, side by side or one under the other. *)
StepOf(n) == Step(IF n.exec # None THEN "execution" ELSE "agent", n.caps, n.exec, <<>>)
Descriptor(nodes, nested) ==
  LET steps == [i \in DOMAIN nodes |-> StepOf(nodes[i])] IN
  [id |-> "w", budget |-> Budgets, limits |-> Limits,
   steps |-> IF nested THEN << Step("phase", {}, None, steps) >> ELSE steps]

Shapes ==
  {<<"agent">>, <<"agent", "plan">>, <<"plan", "agent", "loop">>, <<"agent", "agent", "agent">>,
   <<"verification", "command", "agent">>}
Wirings(n) ==
  SeqOf({Edge(p, None) : p \in {q \in (1 .. n) \X (1 .. n) : q[1] # q[2]}} \cup
          {Edge(<<1, 2>>, "c") : k \in 2 .. n}, 3)
Compiled ==
  UNION {{[d |-> Descriptor(g.nodes, Len(g.edges) = 1), g |-> g] :
            g \in {Graph([i \in DOMAIN shape |->
                            GraphNode(Len(shape) + 1 - i, shape[i],
                                      CASE shape[i] = "command" -> Reading
                                        [] shape[i] = "verification" -> None
                                        [] OTHER -> None)], edges, entry) :
                     edges \in Wirings(Len(shape)), entry \in 1 .. Len(shape)}} :
         shape \in Shapes}

-----------------------------------------------------------------------------
(* Attended changes: the planner's intents over one catalog. *)

Field(name, type, required) ==
  [name |-> name, label |-> name, type |-> type, required |-> required, create |-> TRUE,
   update |-> name # 2, has_default |-> FALSE, options |-> {"x"},
   default |-> IF type = "Link" THEN "x" ELSE None]
Catalog(identity) ==
  [doctype |-> "Lead", record |-> IF identity = "unique" THEN "L1" ELSE None, identity |-> identity,
   actions |-> {"read", "create"} \cup (IF identity = "unique" THEN {"update", "delete"} ELSE {}),
   fields |-> {Field(1, "Data", TRUE), Field(2, "Select", FALSE), Field(3, "Link", FALSE),
               Field(4, "Data", FALSE)},
   schema |-> "s"]

Given(field, value) == [field |-> field, value |-> value]
SomeValues ==
  {<< Given(1, "x") >>, << Given(3, Alias), Given(1, "x") >>, << Given(2, "x"), Given(1, "x") >>,
   << Given(2, "y") >>, << Given(4, "x"), Given(1, "x") >>, << Given(1, "z") >>, <<>>}
Intents ==
  {Effect(action, values) : action \in {"create", "update"}, values \in SomeValues}
    \cup {Effect("delete", None), Reading}
Attended ==
  {[d |-> Descriptor(nodes, TRUE), g |-> Graph(nodes, <<>>, 1),
    r |-> [catalogs |-> {Catalog(identity)}, authority |-> Authority, kind |-> kind,
           action |-> action, words |-> {"x", Alias}]] :
     nodes \in {<<GraphNode(1, "command", e)>> : e \in Intents}
                 \cup {<<GraphNode(1, "command", e), GraphNode(2, "command", f)>> :
                         e \in Intents, f \in Intents},
     identity \in {"unique", "ambiguous"}, kind \in {"governed_change", "attended_browser"},
     action \in {None, "update"}}

-----------------------------------------------------------------------------
Init ==
  /\ outcome = None
  /\ \/ \E x \in SmallRows \cup FourRows : input = [kind |-> "rows", x |-> x]
     \/ \E x \in Compiled : input = [kind |-> "compiled", x |-> x]
     \/ \E x \in Attended : input = [kind |-> "attended", x |-> x]

Validate ==
  /\ input.kind = "rows" /\ outcome = None
  /\ outcome' = ValidateGraph(input.x.nodes, input.x.edges)
  /\ UNCHANGED input

Admit ==
  /\ input.kind = "compiled" /\ outcome = None
  /\ LET rows == NativeRows(input.x.g, "A")
         validated == ValidateGraph(rows, input.x.g.edges)
     IN outcome' = [admitted |-> DescriptorOk(input.x.d, Authority)
                                   /\ CompiledGraphOk(input.x.g, input.x.d, Authority),
                    error |-> validated.error,
                    definition |-> IF validated.error # "ok" THEN None
                                   ELSE PortableDefinition(Workflow, rows, input.x.g.edges),
                    manifest |-> ExecutionManifest(rows)]
  /\ UNCHANGED input

Prepare ==
  /\ input.kind = "attended" /\ outcome = None
  /\ outcome' = Materialize(input.x.d, input.x.g, input.x.r)
  /\ UNCHANGED input

Next == Validate \/ Admit \/ Prepare

-----------------------------------------------------------------------------
(* References: graphs by their paths. *)

Paths(nodes, edges) ==
  LET n == Len(nodes)
      step == {<<edges[i].from, edges[i].to>> : i \in DOMAIN edges}
      walks == UNION {[1 .. k -> 1 .. n] : k \in 1 .. n + 1}
  IN {p \in walks : \A i \in 1 .. Len(p) - 1 : <<p[i], p[i + 1]>> \in step}
Reaches(paths, a, b) == \E p \in paths : p[1] = a /\ Last(p) = b

RowsOf == input.x.nodes
EdgesOf == input.x.edges

(* The order of an accepted graph's analysis lists every node once, after all the
   nodes it depends on, and its depth is that of the deepest chain of agents. *)
OrderIsTopological ==
  LET position(id) == CHOOSE i \in DOMAIN outcome.order : outcome.order[i] = id
      agents(p) == Cardinality({i \in DOMAIN p : RowsOf[p[i]].node_type = "Agent"})
  IN /\ Range(outcome.order) = DOMAIN RowsOf /\ Len(outcome.order) = Len(RowsOf)
     /\ \A i \in DOMAIN EdgesOf : position(EdgesOf[i].from) < position(EdgesOf[i].to)
     /\ outcome.depth = Max({agents(p) : p \in Paths(RowsOf, EdgesOf)})

(* validate_graph accepts exactly the graphs whose edges join distinct known
   nodes once each, without a raw cycle, from one root, with no node fanning out
   and no chain holding more agents than the limits allow; what it says of an
   accepted graph is so. *)
AcceptsExactlyRootedDags ==
  input.kind = "rows" /\ outcome # None =>
    LET paths == Paths(RowsOf, EdgesOf)
        ids == DOMAIN RowsOf
        agents(p) == Cardinality({i \in DOMAIN p : RowsOf[p[i]].node_type = "Agent"})
    IN /\ outcome.error = "ok" <=>
            /\ \A i \in DOMAIN EdgesOf : /\ EdgesOf[i].to \in ids
                                         /\ \A j \in 1 .. i - 1 : EdgesOf[j] # EdgesOf[i]
            /\ \A p \in paths : Len(p) <= Len(RowsOf) /\ agents(p) <= MaxDepth
            /\ \A a \in ids : Cardinality({i \in DOMAIN EdgesOf : EdgesOf[i].from = a}) <= MaxFanOut
            /\ Cardinality({a \in ids : \A b \in ids : Reaches(paths, a, b)}) = 1
       /\ outcome.error = "ok" => OrderIsTopological

(* A published snapshot, and with it its hash, does not depend on the order in
   which the child rows of the workflow happen to be stored, and rows that were
   published before the contract compile to what publishing them now would give,
   a node whose name stands for a kind apart. *)
SnapshotIgnoresRowOrder ==
  input.kind = "rows" /\ outcome # None /\ outcome.error = "ok" =>
    LET definition == PortableDefinition(Workflow, RowsOf, EdgesOf)
        legacy == [portable |-> FALSE, workflow |-> Workflow, nodes |-> Reverse(RowsOf),
                   edges |-> Reverse(EdgesOf)]
        named == CompileLegacySnapshot(legacy, 1 :> "plan")
        others(d) == {n \in Range(d.nodes) : n.id # 1}
    IN /\ definition = PortableDefinition(Workflow, Reverse(RowsOf), Reverse(EdgesOf))
       /\ definition = CompileLegacySnapshot(legacy, <<>>)
       /\ definition = CompileLegacySnapshot([portable |-> TRUE, definition |-> definition], <<>>)
       /\ <<named.entry, named.edges, others(named)>>
             = <<definition.entry, definition.edges, others(definition)>>

(* A compiled graph that proposals admit fails at its publication only for what
   native rows add to it: two edges between the same nodes, a site's own depth
   limit; never for a cycle, an unreachable node or a plan beyond its authority.
   Publication through native rows and back loses nothing that was reviewed: the
   entry, every node with its kind, capabilities and loop bound, every edge, and
   the one plan each executing node runs; the workflow's own validation accepts its
   root agent. *)
AdmittedGraphsPublish ==
  input.kind = "compiled" /\ outcome # None /\ outcome.admitted =>
    LET g == input.x.g
        kept(n) == [id |-> n.id, kind |-> n.kind, caps |-> n.caps, retry |-> n.retry, loop |-> n.loop]
    IN \/ outcome.error \in {"duplicate_edge", "depth_limit"}
       \/ /\ outcome.error = "ok"
          /\ outcome.definition.entry = g.entry
          /\ RootAgentOk(NativeRows(g, "A"), g.entry, "A")
          /\ {kept(n) : n \in Range(outcome.definition.nodes)} = {kept(n) : n \in Range(g.nodes)}
          /\ Range(outcome.definition.edges) = Range(g.edges)
          /\ DOMAIN outcome.manifest = {n.id : n \in {m \in Range(g.nodes) : m.exec # None}}
          /\ \A n \in Range(g.nodes) : n.exec # None => outcome.manifest[n.id].plan = n.exec.plan

(* What the host writes in place of the model's intents passes its own checks:
   descriptor and graph still agree, stay within the caller's authority, and a
   change of one form can be previewed. *)
HostPlansAreAdmitted ==
  input.kind = "attended" /\ outcome # None /\ outcome.verdict = "ok" =>
    LET plans == BrowserPlans(outcome.graph) IN
    /\ DescriptorOk(outcome.descriptor, Authority)
    /\ \A i \in DOMAIN outcome.graph.nodes : GraphNodeOk(outcome.graph.nodes[i], outcome.descriptor, Authority)
    /\ SameEvidence(outcome.graph, outcome.descriptor)
    /\ \A i \in DOMAIN plans :
         plans[i].crud.operation # "read" =>
           \A c \in input.x.r.catalogs : PreviewOk(plans[i], c)

(* A deletion cannot hide among other executions: a proposal that holds one is
   reviewed as a deletion or refused. *)
DeletionsAreReviewed ==
  input.kind = "attended" /\ outcome # None /\ outcome.verdict = "ok" =>
    ((\E n \in Range(outcome.graph.nodes) : n.exec # None /\ OperationOf(n.exec) = "delete")
       => AttendedOperation(outcome.graph) \in {"delete", "error"})
=============================================================================
