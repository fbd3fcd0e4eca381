------------------------- MODULE DispatchAuthority -------------------------
(* What one dispatch may hand to the gateway: gateway_runtime.build_dispatch_envelope
   computes, from the site as it is then, the published version, the capabilities
   of caller, workflow and agents, the scope of the execution manifest and the
   record context.  A capability, a name and a pattern are values; Glob gives the
   texts that fnmatchcase finds a pattern to match.  The sizes of the lists, the
   formats of the rows and the contents of the fields are left out.

   A mission is  [user, workflow, version, scope],  its scope
     [auto (Desk context), doctype, docname, fields, documents],
   a document reference  [doctype, name, fields];  the site is
     [published, versions, workflows, agents (each with its policy), bindings,
      roles, enabled, now, readable (documents), fields (of a DocType, in order)];
   a missing agent has the status None. *)
EXTENDS Integers, Sequences, FiniteSets, SequencesExt

CONSTANTS
  None,           \* an absent value; as a capability: a blank line
  Glob,           \* pattern -> the texts it matches
  Site,           \* this site's name
  SecretFields,   \* field names that look like secrets
  MaxDocuments,   \* most document references of a scope
  MaxContext      \* most fields that fit in the context

Matches(text, pattern) == text \in Glob[pattern]

-----------------------------------------------------------------------------
(* The version that runs: the mission's own, else the workflow's published one,
   submitted, of that workflow, with its evidence hash; None when refused. *)
PublishedVersion(m, s) ==
  LET name == IF m.version = None /\ m.workflow # None THEN s.published[m.workflow] ELSE m.version
      ok(v) == v.submitted /\ m.workflow \in {None, v.workflow} /\ v.intact
  IN IF name # None /\ ok(s.versions[name]) THEN s.versions[name] ELSE None

(* The resources a scope names, beside the site and the workflow themselves; the
   context Desk adds by itself names none. *)
ScopeResources(scope, workflow) ==
  LET named(first, rest) == IF scope.auto THEN {} ELSE ({first} \cup rest) \ {None}
      docs == ToSet(scope.documents)
  IN [Site |-> {Site}, Workflow |-> {workflow}, Agent |-> {},
      DocType |-> named(scope.doctype, {d.doctype : d \in docs}),
      Document |-> named(scope.docname, {d.name : d \in docs})]

RuleMatches(rule, resources) ==
  /\ rule.pattern # None /\ rule.type \in DOMAIN resources
  /\ \E v \in resources[rule.type] : Matches(v, rule.pattern)

ResourcePatternMatches(pattern, resources) ==
  pattern # None /\ \E type \in DOMAIN resources : \E v \in resources[type] : Matches(v, pattern)

(* Mutant of PolicyCapabilities: "everything" survives a specific denial. *)
PolicyKeepingWildcard(policy, resources) ==
  LET rules == {r \in policy.rules : r.capability # None /\ RuleMatches(r, resources)}
      allowed == {r.capability : r \in {x \in rules : x.effect = "Allow"}}
      denied == {r.capability : r \in {x \in rules : x.effect = "Deny"}}
  IN IF policy = None \/ ~policy.enabled \/ "*" \in denied THEN {}
     ELSE {c \in allowed : \A p \in denied : ~Matches(c, p)}

(* What a policy grants on some resources.  A wildcard cannot say "everything
   except": any denial that applies drops it. *)
PolicyCapabilities(policy, resources) ==
  LET rules == {r \in policy.rules : r.capability # None /\ RuleMatches(r, resources)}
      allowed == {r.capability : r \in {x \in rules : x.effect = "Allow"}}
      denied == {r.capability : r \in {x \in rules : x.effect = "Deny"}}
  IN IF policy = None \/ ~policy.enabled \/ "*" \in denied THEN {}
     ELSE {c \in allowed \ (IF denied = {} THEN {} ELSE {"*"}) : \A p \in denied : ~Matches(c, p)}

(* Active, timely role bindings of the user or of one of the user's roles, on the
   whole site or on this workflow. *)
CallerBindings(user, workflow, s) ==
  {b \in s.bindings :
     /\ b.status = "Active"
     /\ \/ b.subject_type = "User" /\ b.subject = user
        \/ b.subject_type = "Role" /\ b.subject \in s.roles
     /\ b.from # None => b.from <= s.now
     /\ b.until # None => s.now <= b.until
     /\ \/ b.scope_type = "Site" /\ b.scope_value \in {Site, "*"}
        \/ b.scope_type = "Workflow" /\ b.scope_value \in {workflow, "*"}}

CallerCapabilities(user, workflow, s) ==
  UNION {b.capabilities : b \in CallerBindings(user, workflow, s)}

Grants(grants, capability) == "*" \in grants \/ capability \in grants

IntersectGrants(left, right) ==
  IF "*" \in left THEN right ELSE IF "*" \in right THEN left ELSE left \cap right

(* The three layers of grants, refused unless every capability a node asks for is
   granted by caller, by workflow, and, where an agent runs the node, by that agent:
   by what it declares on these resources and by its own policy. *)
CapabilityAuthority(m, workflow, nodes, s) ==
  LET resources == ScopeResources(m.scope, workflow)
      agents == {n.agent : n \in nodes} \ {None}
      requested == UNION {n.capabilities : n \in nodes}
      requestedBy(a) == UNION {n.capabilities : n \in {x \in nodes : x.agent = a}}
      declared(a) == {c.capability : c \in {x \in s.agents[a].capabilities :
                                              ResourcePatternMatches(x.pattern, resources)}}
      caller == CallerCapabilities(m.user, workflow, s)
      granted == PolicyCapabilities(s.workflows[workflow].policy, resources)
      grantedTo == [a \in agents |->
        IntersectGrants(declared(a),
          PolicyCapabilities(s.agents[a].policy, [resources EXCEPT !.Agent = {a}]))]
  IN [ok |-> /\ \A a \in agents : s.agents[a].status = "Active"
             /\ None \notin caller \cup requested
             /\ \A c \in requested : Grants(caller, c) /\ Grants(granted, c)
             /\ \A a \in agents : \A c \in requestedBy(a) : Grants(grantedTo[a], c),
      caller |-> caller, workflow |-> granted, agents |-> grantedTo]

-----------------------------------------------------------------------------
(* The plans of the manifest stay within what the scope lists: DocTypes, record
   names and fields are compared each with its own list, an empty list allowing all. *)
ManifestInScope(plans, scope) ==
  LET docs == ToSet(scope.documents)
      doctypes == ({scope.doctype} \cup {d.doctype : d \in docs}) \ {None}
      records == ({scope.docname} \cup {d.name : d \in docs}) \ {None}
      fields == scope.fields \cup UNION {d.fields : d \in docs}
  IN scope.auto \/ \A p \in plans :
       /\ doctypes # {} => p.doctypes \subseteq doctypes
       /\ records # {} => p.records \subseteq records
       /\ fields # {} => p.fields \subseteq fields

(* The submitted plans, each of a node of the graph; a version without a manifest
   has none. *)
ManifestOk(version, scope) ==
  /\ version.manifest_intact
  /\ {p.node : p \in version.plans} \subseteq {n.id : n \in version.nodes}
  /\ ManifestInScope(version.plans, scope)

-----------------------------------------------------------------------------
(* The documents a scope refers to, the first one named by the scope itself. *)
References(scope) ==
  (IF None \in {scope.doctype, scope.docname} THEN <<>>
   ELSE << [doctype |-> scope.doctype, name |-> scope.docname] >>)
    \o [i \in DOMAIN scope.documents |->
          [doctype |-> scope.documents[i].doctype, name |-> scope.documents[i].name]]

ReferencesOk(scope) ==
  /\ scope.docname # None => scope.doctype # None
  /\ Len(References(scope)) <= MaxDocuments
  /\ \A r \in ToSet(References(scope)) : None \notin {r.doctype, r.name}

(* The first of equal references. *)
DistinctReferences(scope) ==
  FoldLeft(LAMBDA refs, r : IF r \in ToSet(refs) THEN refs ELSE Append(refs, r), <<>>, References(scope))

(* Mutant of ReadableFields: every field of the document. *)
AllFields(doctype, s) == s.fields[doctype]

(* The fields of a document that are sent: those the user may read, without the
   secret and the structural ones. *)
ReadableFields(doctype, s) ==
  SelectSeq(s.fields[doctype],
            LAMBDA f : f.permitted /\ f.name \notin SecretFields /\ ~f.structural)

(* The permission-filtered context: every document is read or the dispatch is
   refused; what does not fit is dropped from the end. *)
PermissionFilteredContext(scope, s) ==
  LET refs == DistinctReferences(scope)
      sent(r) == LET readable == ReadableFields(r.doctype, s)
                 IN [k \in DOMAIN readable |-> [document |-> r, field |-> readable[k].name]]
      all == FlattenSeq([i \in DOMAIN refs |-> sent(refs[i])])
  IN IF ReferencesOk(scope) /\ ToSet(refs) \subseteq s.readable
     THEN [ok |-> TRUE, documents |-> refs,
           fields |-> SubSeq(all, 1, IF Len(all) < MaxContext THEN Len(all) ELSE MaxContext)]
     ELSE [ok |-> FALSE]

-----------------------------------------------------------------------------
(* The envelope of a dispatch, or why there is none. *)
Refused(error) == [verdict |-> error]

BuildDispatchEnvelope(m, s) ==
  LET version == PublishedVersion(m, s) IN
  IF version = None THEN Refused("version") ELSE
  LET workflow == s.workflows[version.workflow]
      authority == CapabilityAuthority(m, version.workflow, version.nodes, s)
      context == PermissionFilteredContext(m.scope, s)
  IN CASE workflow.status # "Published" \/ ~workflow.readable -> Refused("workflow")
       [] ~s.enabled -> Refused("requester")
       [] ~authority.ok -> Refused("capability")
       [] ~ManifestOk(version, m.scope) -> Refused("manifest")
       [] ~context.ok -> Refused("context")
       [] OTHER -> [verdict |-> "ok", version |-> version, authority |-> authority,
                    plans |-> version.plans, context |-> context]
-----------------------------------------------------------------------------
(* What an envelope should say: policies read rule by rule. *)

(* A resource that a rule of this type is about, an agent's policy also being about
   the agent itself. *)
About(type, v, scope, workflow, agent) ==
  \/ type = "Site" /\ v = Site
  \/ type = "Workflow" /\ v = workflow
  \/ type = "Agent" /\ v = agent /\ v # None
  \/ ~scope.auto /\ v # None
     /\ \/ type = "DocType" /\ v \in {scope.doctype} \cup {d.doctype : d \in ToSet(scope.documents)}
        \/ type = "Document" /\ v \in {scope.docname} \cup {d.name : d \in ToSet(scope.documents)}

Applies(rule, scope, workflow, agent) ==
  /\ rule.capability # None /\ rule.pattern # None
  /\ \E v \in Glob[rule.pattern] : About(rule.type, v, scope, workflow, agent)

PolicyLets(policy, c, scope, workflow, agent) ==
  /\ policy # None /\ policy.enabled
  /\ \E r \in policy.rules :
       r.effect = "Allow" /\ Applies(r, scope, workflow, agent) /\ r.capability \in {c, "*"}
  /\ \A r \in policy.rules :
       r.effect = "Deny" /\ Applies(r, scope, workflow, agent) => ~Matches(c, r.capability)

(* As far as the gateway's vocabulary can say so: no wildcard beside a denial. *)
PolicyNames(policy, c, scope, workflow, agent) ==
  /\ PolicyLets(policy, c, scope, workflow, agent)
  /\ \/ c # "*" /\ \E r \in policy.rules :
          r.effect = "Allow" /\ Applies(r, scope, workflow, agent) /\ r.capability = c
     \/ \A r \in policy.rules : r.effect = "Deny" => ~Applies(r, scope, workflow, agent)

BindingHolds(c, m, workflow, s) ==
  \E b \in CallerBindings(m.user, workflow, s) : Grants(b.capabilities, c)
AgentDeclares(a, c, scope, workflow, s) ==
  \E d \in s.agents[a].capabilities :
    /\ d.capability \in {c, "*"} /\ d.pattern # None
    /\ \E v \in Glob[d.pattern], type \in {"Site", "Workflow", "DocType", "Document"} :
         About(type, v, scope, workflow, None)

(* The caller's bindings hold a capability for a node, its agent declares it, and
   both policies let it; they also name it. *)
NodeMay(n, c, m, workflow, s) ==
  /\ BindingHolds(c, m, workflow, s)
  /\ PolicyLets(s.workflows[workflow].policy, c, m.scope, workflow, None)
  /\ n.agent # None =>
       /\ AgentDeclares(n.agent, c, m.scope, workflow, s)
       /\ PolicyLets(s.agents[n.agent].policy, c, m.scope, workflow, n.agent)
NodeNamed(n, c, m, workflow, s) ==
  /\ NodeMay(n, c, m, workflow, s)
  /\ PolicyNames(s.workflows[workflow].policy, c, m.scope, workflow, None)
  /\ n.agent # None => PolicyNames(s.agents[n.agent].policy, c, m.scope, workflow, n.agent)

(* The gateway lets a node use what all layers of the envelope grant. *)
Usable(n, c, authority) ==
  /\ Grants(authority.caller, c) /\ Grants(authority.workflow, c)
  /\ n.agent # None => Grants(authority.agents[n.agent], c)

(* What the gateway may let the nodes of an admitted mission do is what they asked
   for and what, rule by rule, the caller's bindings hold and neither the
   workflow's nor the agent's policy denies; and no dispatch is refused for a
   capability that all of these name (_capability_authority). *)
EnvelopeIsAuthorized(m, s, envelope, capabilities) ==
  LET version == PublishedVersion(m, s) IN
  /\ envelope.verdict = "ok" =>
       \A n \in version.nodes :
         /\ \A c \in n.capabilities : Usable(n, c, envelope.authority)
         /\ \A c \in capabilities :
              Usable(n, c, envelope.authority) => NodeMay(n, c, m, version.workflow, s)
  /\ envelope.verdict = "capability" =>
       \/ \E n \in version.nodes : n.agent # None /\ s.agents[n.agent].status # "Active"
       \/ \E b \in s.bindings : None \in b.capabilities
       \/ \E n \in version.nodes : \E c \in n.capabilities :
            c = None \/ ~NodeNamed(n, c, m, version.workflow, s)
=============================================================================
