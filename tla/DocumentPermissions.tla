------------------------ MODULE DocumentPermissions ------------------------
(* Who may read, list and write a document (permissions.py).  The hooks come in
   pairs, written apart: has_permission decides on a document, the permission query
   on a row of a list.  Roles carry their names; the permissions that the DocTypes
   give to roles filter both alike and are left out.

   A document is  [kind, owner, requested_by, assigned_to, requested_from, user,
   status, public];  an artifact and an evidence clip carry the people of their
   mission. *)
EXTENDS FiniteSets

CONSTANTS None

AdminRoles == {"System Manager", "Muster Administrator"}
GlobalReadRoles == AdminRoles \cup {"Muster Automation Manager", "Muster Auditor"}
MissionCreatorRoles == AdminRoles \cup {"Muster Automation Manager", "Muster Operator"}

Has(roles, some) == roles \cap some # {}

Look == {"read", "select"}
Audit == Look \cup {"report", "export", "print"}
Manage == Audit \cup {"write"}

-----------------------------------------------------------------------------
CreatesOwn(doc, user, roles, creators) == Has(roles, creators) /\ doc.requested_by \in {None, user}

MissionHasPermission(doc, user, roles, ptype) ==
  \/ Has(roles, AdminRoles)
  \/ IF ptype = "create" THEN CreatesOwn(doc, user, roles, MissionCreatorRoles)
     ELSE IF "Muster Auditor" \in roles THEN ptype \in Audit
     ELSE IF "Muster Automation Manager" \in roles THEN ptype \in Manage
     ELSE \/ ptype \in Look /\ user \in {doc.owner, doc.requested_by, doc.assigned_to}
          \/ /\ ptype \in {"write", "cancel"}
             /\ user \in {doc.requested_by, doc.assigned_to}
             /\ doc.status \notin {"Completed", "Cancelled"}

WorkflowProposalHasPermission(doc, user, roles, ptype) ==
  \/ Has(roles, AdminRoles)
  \/ IF ptype = "create" THEN CreatesOwn(doc, user, roles, MissionCreatorRoles)
     ELSE IF "Muster Auditor" \in roles THEN ptype \in Audit
     ELSE IF Has(roles, {"Muster Automation Manager", "Muster Approver"}) THEN ptype \in Manage
     ELSE ptype \in Look /\ doc.requested_by = user

AskTurnHasPermission(doc, user, roles, ptype) ==
  \/ Has(roles, AdminRoles)
  \/ IF ptype = "create" THEN user # "Guest" /\ doc.requested_by \in {None, user}
     ELSE IF "Muster Auditor" \in roles THEN ptype \in Audit
     ELSE ptype \in Look /\ doc.requested_by = user

DevelopmentProposalHasPermission(doc, user, roles, ptype) ==
  \/ Has(roles, AdminRoles)
  \/ IF ptype = "create" THEN CreatesOwn(doc, user, roles, {"Muster Automation Manager"})
     ELSE IF "Muster Auditor" \in roles THEN ptype \in Audit
     ELSE ptype \in Look /\ doc.requested_by = user

ApprovalHasPermission(doc, user, roles, ptype) ==
  \/ Has(roles, AdminRoles)
  \/ IF "Muster Auditor" \in roles THEN ptype \in Audit
     ELSE \/ ptype \in Look /\ user \in {doc.requested_from, doc.requested_by}
          \/ ptype = "write" /\ user = doc.requested_from /\ doc.status = "Pending"

ArtifactHasPermission(doc, user, roles, ptype) ==
  ptype \in Look /\ (doc.public \/ MissionHasPermission(doc, user, roles, "read"))

EvidenceClipHasPermission(doc, user, roles, ptype) ==
  \/ user = "Administrator" \/ "Muster Administrator" \in roles
  \/ IF "Muster Automation Manager" \in roles THEN ptype \in Manage \cup {"create", "delete"}
     ELSE IF "Muster Auditor" \in roles THEN ptype \in Audit
     ELSE ptype \in Look /\ MissionHasPermission(doc, user, roles, "read")

ChannelIdentityHasPermission(doc, user, roles, ptype) ==
  \/ Has(roles, AdminRoles)
  \/ IF "Muster Auditor" \in roles THEN ptype \in Audit \ {"print"}
     ELSE /\ doc.user = user
          /\ \/ ptype \in Look
             \/ ptype = "create" /\ doc.status = "Pending"
             \/ ptype = "write" /\ doc.status \in {"Pending", "Verified"}

(* The DocTypes with a hook and a query. *)
Kinds ==
  {"Mission", "Workflow Proposal", "Ask Turn", "Development Proposal", "Approval", "Artifact",
   "Evidence Clip", "Channel Identity"}

HasPermission(doc, user, roles, ptype) ==
  CASE doc.kind = "Mission" -> MissionHasPermission(doc, user, roles, ptype)
    [] doc.kind = "Workflow Proposal" -> WorkflowProposalHasPermission(doc, user, roles, ptype)
    [] doc.kind = "Ask Turn" -> AskTurnHasPermission(doc, user, roles, ptype)
    [] doc.kind = "Development Proposal" -> DevelopmentProposalHasPermission(doc, user, roles, ptype)
    [] doc.kind = "Approval" -> ApprovalHasPermission(doc, user, roles, ptype)
    [] doc.kind = "Artifact" -> ArtifactHasPermission(doc, user, roles, ptype)
    [] doc.kind = "Evidence Clip" -> EvidenceClipHasPermission(doc, user, roles, ptype)
    [] doc.kind = "Channel Identity" -> ChannelIdentityHasPermission(doc, user, roles, ptype)

-----------------------------------------------------------------------------
(* The permission queries. *)

(* Mutant of MissionVisibility: the assignee is forgotten. *)
VisibleToRequester(doc, user, roles) ==
  Has(roles, GlobalReadRoles) \/ user \in {doc.owner, doc.requested_by}

(* mission_query, and of what belongs to a mission. *)
MissionVisibility(doc, user, roles) ==
  Has(roles, GlobalReadRoles) \/ user \in {doc.owner, doc.requested_by, doc.assigned_to}

WorkflowProposalQuery(doc, user, roles) ==
  Has(roles, GlobalReadRoles \cup {"Muster Approver"}) \/ doc.requested_by = user

(* ask_turn_query, development_proposal_query. *)
RequesterQuery(doc, user, roles) == Has(roles, GlobalReadRoles) \/ doc.requested_by = user

ApprovalQuery(doc, user, roles) ==
  Has(roles, GlobalReadRoles) \/ user \in {doc.requested_from, doc.requested_by}

ChannelIdentityQuery(doc, user, roles) == Has(roles, GlobalReadRoles) \/ doc.user = user

Listed(doc, user, roles) ==
  CASE doc.kind \in {"Mission", "Artifact", "Evidence Clip"} -> MissionVisibility(doc, user, roles)
    [] doc.kind = "Workflow Proposal" -> WorkflowProposalQuery(doc, user, roles)
    [] doc.kind \in {"Ask Turn", "Development Proposal"} -> RequesterQuery(doc, user, roles)
    [] doc.kind = "Approval" -> ApprovalQuery(doc, user, roles)
    [] doc.kind = "Channel Identity" -> ChannelIdentityQuery(doc, user, roles)
-----------------------------------------------------------------------------
(* Lists and documents agree: who may write a document may read it, who may read
   it finds it in the list, a public artifact apart, and what a list shows may be
   read, apart from what automation managers see listed and cannot open
   (permission_query_conditions and has_permission of permissions.py). *)
May(doc, user, roles) ==
  {ptype \in Manage \cup {"create", "cancel", "delete"} : HasPermission(doc, user, roles, ptype)}

Overseen == {"Ask Turn", "Development Proposal", "Approval", "Channel Identity"}

ReadersListed(doc, roles, may, listed) ==
  /\ may \cap {"write", "cancel"} # {} => "read" \in may
  /\ "read" \in may => listed \/ (doc.kind = "Artifact" /\ doc.public)
  /\ listed => "read" \in may \/ ("Muster Automation Manager" \in roles /\ doc.kind \in Overseen)
=============================================================================
