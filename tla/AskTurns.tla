------------------------------ MODULE AskTurns ------------------------------
(***************************************************************************)
(* Ask Muster (api/ask.py, muster_ask_turn.py): a prompt becomes a turn with *)
(* the handoffs its route offers; a turn can ask back, once, and the answer  *)
(* becomes a child turn; accepting a handoff plans a proposal.               *)
(*                                                                         *)
(* A request is one transaction in two steps.  _require_user reads the      *)
(* database before the row of the turn is locked, so the snapshot predates   *)
(* the lock and what a request reads may have changed when it gets the lock: *)
(* the lock only delays the writes.  One user and one conversation: requests *)
(* of any other are refused before they read more.                           *)
(***************************************************************************)
EXTENDS Naturals, Sequences, FiniteSets

CONSTANTS
  None,
  Clients,    \* requests under way at once
  TurnKeys,   \* idempotency keys of prompts: the turns there can be
  Keys,       \* idempotency keys of acceptances
  Actions,    \* what prompts ask for: subset of create, update, delete, several
  Records,    \* records of the DocType the page shows
  Scopes,     \* the records a page names, or None when it shows no DocType
  Routes,     \* the sets of handoffs a classification can offer
  MaxChanges  \* bound on expiries and on what others withdraw

ASSUME ActionsAssumption == Actions \subseteq {"create", "update", "delete", "several"}
ASSUME ScopesAssumption == Scopes \subseteq ({None} \cup SUBSET Records)
ASSUME RecordsAssumption == IsFiniteSet(Records)
ASSUME ChangesAssumption == MaxChanges \in Nat

VARIABLES
  turns,      \* Muster Ask Turn rows
  proposals,  \* the proposals planned from turns
  permitted,  \* the records that exist and that the user may read and act on
  requests,   \* what each request is doing
  changes     \* expiries and withdrawals so far

vars == <<turns, proposals, permitted, requests, changes>>

-----------------------------------------------------------------------------
(* Rows *)

HandoffKinds == {"attended_browser", "workflow_proposal", "development_workflow"}
ASSUME RoutesAssumption == Routes \subseteq SUBSET HandoffKinds

(* An answer that is no record; a text is what was asked for, then the answers. *)
Detail == "detail"
Replies == Records \cup {Detail}
Reasons == {"exact", "detail"}
Changing == {"update", "delete"}

(* handoff: what asked, a handoff or the classification itself ("intent"). *)
Clarification ==
  [handoff : HandoffKinds \cup {"intent"}, kind : {"exact_record", "missing_detail"},
   reason : Reasons, late : BOOLEAN]
Linked == [handoff : HandoffKinds, key : Keys]

TurnRow ==
  [text : Seq(Actions \cup Replies), scope : Scopes, handoffs : Routes, asks : Reasons \cup {None},
   parent : TurnKeys \cup {None}, source : HandoffKinds \cup {"intent", None}, reply : Replies \cup {None},
   verified : Records \cup {None}, clarification : Clarification \cup {None},
   child : TurnKeys \cup {None}, status : {"Offered", "Accepted"}, late : BOOLEAN,
   accepted : Linked \cup {None}]

(* record: the one an attended plan changes, None when it creates or reads. *)
ProposalRow ==
  [turn : TurnKeys, handoff : HandoffKinds, key : Keys, record : Records \cup {None}]

(* What a request about the turns rows can read of the database. *)
View(rows) ==
  [turns |-> [t \in TurnKeys |-> IF t \in rows THEN turns[t] ELSE None],
   proposals |-> {p \in proposals : p.turn \in rows}, permitted |-> permitted]
ViewType ==
  [turns : [TurnKeys -> {None} \cup TurnRow], proposals : SUBSET ProposalRow,
   permitted : SUBSET Records]

(* A prompt or an answer, and an acceptance, with their snapshots. *)
Submission ==
  [op : {"submit"}, key : TurnKeys, text : Seq(Actions \cup Replies), scope : Scopes,
   parent : TurnKeys \cup {None}, source : HandoffKinds \cup {"intent", None},
   reply : Replies \cup {None}, view : ViewType]
Acceptance ==
  [op : {"accept"}, turn : TurnKeys, handoff : HandoffKinds, key : Keys, view : ViewType]
Request == Submission \cup Acceptance
ASSUME NoneAssumption ==
  /\ None \notin TurnKeys \cup Records /\ None \notin Reasons \cup Changing
  /\ None \notin Routes /\ None \notin Clarification \cup TurnRow \cup Request

(* A request that its snapshot refuses has no effect and is not followed. *)
Begin(c, r) ==
  /\ requests[c] = None
  /\ requests' = [requests EXCEPT ![c] = r]
  /\ UNCHANGED <<turns, proposals, permitted, changes>>

Return(c) == requests' = [requests EXCEPT ![c] = None] /\ UNCHANGED <<permitted, changes>>

(* A raise, the gateway's refusal or a killed worker: nothing is committed. *)
Abort(c) ==
  /\ requests[c] # None
  /\ Return(c) /\ UNCHANGED <<turns, proposals>>

-----------------------------------------------------------------------------
(* Questions *)

(* The one action a text names; the answers name none. *)
RequestedAction(text) == IF Head(text) = "several" THEN None ELSE Head(text)

(* The question asks for a record of the page's DocType, in exactly these words. *)
AsksForRecord(turn, reason) ==
  turn.scope # None /\ RequestedAction(turn.text) \in Changing /\ reason = "exact"

IssueRefused(turn, handoff, reason) ==
  \/ turn.child # None
  \/ /\ turn.clarification # None
     /\ \/ turn.clarification.handoff # handoff
        \/ turn.clarification.reason # reason
        \/ AsksForRecord(turn, reason) # (turn.clarification.kind = "exact_record")

(* The columns written: a clarification that is pending keeps its token and its time. *)
Issued(turn, handoff, reason) ==
  IF turn.clarification # None THEN turn.clarification
  ELSE [handoff |-> handoff, reason |-> reason, late |-> FALSE,
        kind |-> IF AsksForRecord(turn, reason) THEN "exact_record" ELSE "missing_detail"]

-----------------------------------------------------------------------------
(* Exact records *)

(* The route of the turn that asked for the record, None when it asked for something else. *)
ClassifiedAnew(parent) == None
ContinuationRoute(parent) ==
  IF parent # None /\ parent.clarification # None /\ parent.clarification.kind = "exact_record"
  THEN parent.handoffs ELSE None
ContinuationRefused(parent) ==
  /\ ContinuationRoute(parent) # None
  /\ \/ parent.handoffs = {}
     \/ parent.clarification.handoff \notin {"intent"} \cup parent.handoffs

(* A verified record is checked again, with the route it was verified for. *)
IdentityHolds(view, turn) ==
  turn.verified # None =>
    /\ ContinuationRoute(view.turns[turn.parent]) # None
    /\ ~ContinuationRefused(view.turns[turn.parent])
    /\ turn.reply = turn.verified
    /\ turn.verified \in view.permitted

(* One record, in the page's scope if that names any; the first answer stands. *)
VerifiedRecord(view, parent, reply) ==
  IF parent.clarification.kind = "exact_record" THEN reply ELSE None
RecordVerifiable(view, parent, reply) ==
  parent.clarification.kind = "exact_record" =>
    IF parent.child # None
    THEN /\ view.turns[parent.child].verified = reply
         /\ IdentityHolds(view, view.turns[parent.child])
    ELSE /\ reply \in view.permitted
         /\ parent.scope # {} => reply \in parent.scope

-----------------------------------------------------------------------------
(* Catalogs *)

(* The records a turn identifies: the verified one replaces those of the page. *)
NamedInScope(turn) == IF turn.scope = None THEN {} ELSE turn.scope
NamedRecords(turn) == IF turn.verified # None THEN {turn.verified} ELSE NamedInScope(turn)

IdentifiedFirst(view, turn) ==
  IF NamedInScope(turn) # {} THEN CHOOSE r \in NamedInScope(turn) : TRUE ELSE None
Identified(view, turn) ==
  IF Cardinality(NamedRecords(turn)) = 1 /\ NamedRecords(turn) \subseteq view.permitted
  THEN CHOOSE r \in NamedRecords(turn) : TRUE ELSE None

(* The question put before anything is planned, None when nothing has to be asked. *)
PreflightQuestion(view, turn) ==
  IF RequestedAction(turn.text) \notin Changing \/ Identified(view, turn) # None THEN None
  ELSE IF turn.scope # None THEN "exact" ELSE "detail"

-----------------------------------------------------------------------------
(* Submission *)

Parent(r) == IF r.parent = None THEN None ELSE r.view.turns[r.parent]

Verified(r) == IF r.parent = None THEN None ELSE VerifiedRecord(r.view, Parent(r), r.reply)

SameRequest(turn, r) ==
  /\ turn.text = r.text /\ turn.scope = r.scope /\ turn.parent = r.parent
  /\ turn.source = r.source /\ turn.reply = r.reply /\ turn.verified = Verified(r)

(* _clarification_lineage: a reply that is no reply, comes late or comes again. *)
ReplyAdmitted(r) ==
  LET parent == Parent(r) IN
  r.parent # None =>
    /\ parent.status = "Offered" /\ ~parent.late
    /\ parent.clarification # None /\ ~parent.clarification.late
    /\ RecordVerifiable(r.view, parent, r.reply)
    /\ parent.child # None => /\ parent.child = r.key
                              /\ SameRequest(r.view.turns[r.key], r)

(* A client uses a key again for the same prompt only: for another it is refused. *)
Asks(c, t, action, scope) ==
  /\ turns[t] # None => turns[t].text = <<action>> /\ turns[t].scope = scope
  /\ Begin(c, [op |-> "submit", key |-> t, text |-> <<action>>, scope |-> scope,
               parent |-> None, source |-> None, reply |-> None, view |-> View({t})])

(* The client answers with the reference it was given; text, scope and source follow from it. *)
Answers(c, t, p, reply) ==
  /\ turns[p] # None /\ turns[p].clarification # None /\ t # p
  /\ LET r == [op |-> "submit", key |-> t, text |-> Append(turns[p].text, reply),
               scope |-> turns[p].scope, parent |-> p,
               source |-> turns[p].clarification.handoff, reply |-> reply,
               view |-> View({t, p, turns[p].child})]
     IN ReplyAdmitted(r) /\ Begin(c, r)

(* The parent's columns, written whenever the snapshot shows it unanswered. *)
ConsumedNever(rows, r) == rows
Consumed(rows, r) ==
  IF r.parent # None /\ Parent(r).child = None
  THEN [rows EXCEPT ![r.parent].child = r.key] ELSE rows

NewTurn(r, route, question) ==
  LET row == [text |-> r.text, scope |-> r.scope, handoffs |-> route, asks |-> question,
              parent |-> r.parent, source |-> r.source, reply |-> r.reply,
              verified |-> Verified(r), clarification |-> None, child |-> None,
              status |-> "Offered", late |-> FALSE, accepted |-> None]
  IN IF question = None THEN row
     ELSE [row EXCEPT !.clarification = Issued(row, "intent", question)]

(* A turn found under the key is answered for again; its question is put again. *)
Resubmit(c) ==
  LET r == requests[c] IN
  /\ r # None /\ r.op = "submit"
  /\ r.view.turns[r.key] # None
  /\ LET turn == r.view.turns[r.key] IN
       /\ SameRequest(turn, r)
       /\ turn.asks # None => ~IssueRefused(turn, "intent", turn.asks)
  /\ Return(c)
  /\ turns' = Consumed(turns, r)
  /\ UNCHANGED proposals

(* The route is inherited or the gateway's; request_id is unique. *)
Submit(c) ==
  LET r == requests[c] IN
  /\ r # None /\ r.op = "submit"
  /\ r.view.turns[r.key] = None /\ turns[r.key] = None
  /\ ~ContinuationRefused(Parent(r))
  /\ \E route \in Routes, question \in Reasons \cup {None} :
       /\ ContinuationRoute(Parent(r)) # None =>
            route = ContinuationRoute(Parent(r)) /\ question = None
       /\ turns' = Consumed([turns EXCEPT ![r.key] = NewTurn(r, route, question)], r)
  /\ Return(c)
  /\ UNCHANGED proposals

-----------------------------------------------------------------------------
(* Acceptance *)

(* What accept_handoff lets pass: an accepted turn replays or refuses, neither changes a row. *)
Acceptable(turn) == turn.status = "Offered" /\ turn.child = None /\ ~turn.late

(* The question, if there is one, that is asked instead of a proposal: before planning an
   attended form, or by whoever plans it (the host over the gateway's descriptor, the
   ingestion of a source file). *)
Question(r, turn) ==
  IF r.handoff = "attended_browser" /\ PreflightQuestion(r.view, turn) # None
  THEN {PreflightQuestion(r.view, turn)}
  ELSE IF r.handoff = "workflow_proposal" THEN {} ELSE {"detail"}

(* The plan of a form changes the record its catalog identifies or, as no catalog then
   offers more, creates or reads one; other proposals name no record themselves. *)
PlannedRecords(r, turn) ==
  {None} \cup IF r.handoff = "attended_browser" THEN {Identified(r.view, turn)} ELSE {}

Accepts(c, t, handoff, k) ==
  /\ turns[t] # None /\ handoff \in turns[t].handoffs
  /\ Acceptable(turns[t])
  /\ LET r == [op |-> "accept", turn |-> t, handoff |-> handoff, key |-> k,
               view |-> View({t, turns[t].parent})]
     IN /\ handoff # "development_workflow" => IdentityHolds(r.view, turns[t])
        /\ Begin(c, r)

Known(rows, r) ==
  {p \in rows : p.turn = r.turn /\ p.handoff = r.handoff /\ p.key = r.key}

AskBack(c) ==
  LET r == requests[c] IN
  /\ r # None /\ r.op = "accept"
  /\ LET turn == r.view.turns[r.turn] IN
       /\ Known(r.view.proposals, r) = {}
       /\ \E reason \in Question(r, turn) :
            /\ ~IssueRefused(turn, r.handoff, reason)
            /\ turns' = IF turn.clarification # None THEN turns
                        ELSE [turns EXCEPT ![r.turn].clarification =
                                Issued(turn, r.handoff, reason)]
  /\ Return(c)
  /\ UNCHANGED proposals

Plannable(r) ==
  r.handoff = "attended_browser" => PreflightQuestion(r.view, r.view.turns[r.turn]) = None

(* A proposal known under the key is linked again; the key of a new one is unique. *)
AcceptHandoff(c) ==
  LET r == requests[c] IN
  /\ r # None /\ r.op = "accept"
  /\ IF Known(r.view.proposals, r) # {} THEN UNCHANGED proposals
     ELSE /\ Plannable(r) /\ Known(proposals, r) = {}
          /\ \E record \in PlannedRecords(r, r.view.turns[r.turn]) :
               proposals' = proposals \cup
                 {[turn |-> r.turn, handoff |-> r.handoff, key |-> r.key, record |-> record]}
  /\ turns' = [turns EXCEPT ![r.turn].status = "Accepted",
                            ![r.turn].accepted = [handoff |-> r.handoff, key |-> r.key]]
  /\ Return(c)

-----------------------------------------------------------------------------
(* Time and others *)

Change == changes < MaxChanges /\ changes' = changes + 1 /\ UNCHANGED <<proposals, requests>>

TurnExpires(t) ==
  /\ turns[t] # None /\ ~turns[t].late
  /\ turns' = [turns EXCEPT ![t].late = TRUE]
  /\ Change /\ UNCHANGED permitted
ClarificationExpires(t) ==
  /\ turns[t] # None /\ turns[t].clarification # None /\ ~turns[t].clarification.late
  /\ turns' = [turns EXCEPT ![t].clarification.late = TRUE]
  /\ Change /\ UNCHANGED permitted

(* Others delete records or take permissions away. *)
Withdraw(record) ==
  /\ record \in permitted
  /\ permitted' = permitted \ {record}
  /\ Change /\ UNCHANGED turns

Init ==
  /\ turns = [t \in TurnKeys |-> None]
  /\ proposals = {}
  /\ permitted = Records
  /\ requests = [c \in Clients |-> None]
  /\ changes = 0

Next ==
  \/ \E c \in Clients :
       \/ \E t \in TurnKeys :
            \/ \E action \in Actions, scope \in Scopes : Asks(c, t, action, scope)
            \/ \E p \in TurnKeys, reply \in Replies : Answers(c, t, p, reply)
            \/ \E handoff \in HandoffKinds, k \in Keys : Accepts(c, t, handoff, k)
       \/ Submit(c) \/ Resubmit(c) \/ AskBack(c) \/ AcceptHandoff(c) \/ Abort(c)
  \/ \E t \in TurnKeys : TurnExpires(t) \/ ClarificationExpires(t)
  \/ \E record \in Records : Withdraw(record)

Spec == Init /\ [][Next]_vars

-----------------------------------------------------------------------------
(* Properties *)

TypeOK ==
  /\ turns \in [TurnKeys -> {None} \cup TurnRow]
  /\ proposals \subseteq ProposalRow
  /\ permitted \subseteq Records
  /\ requests \in [Clients -> {None} \cup Request]
  /\ changes \in 0..MaxChanges

Sent(t) == turns[t] # None

(* An answer adds a fact, never authority: the turn that names the record asked for offers
   exactly what the turn that asked had offered, for the same action on the same page
   (_exact_record_continuation_intent). *)
AnswersAddNoAuthority ==
  \A t \in TurnKeys : Sent(t) /\ turns[t].verified # None =>
    LET parent == turns[turns[t].parent] IN
    /\ turns[t].handoffs = parent.handoffs
    /\ RequestedAction(turns[t].text) = RequestedAction(parent.text)
    /\ parent.scope \in {{}} \cup {s \in Scopes : s # None /\ turns[t].verified \in s}

(* A question is answered by the turn it names as its answer, and every turn that answers
   has closed its question: nothing is offered on both sides.  A turn whose record was verified
   is not asked for it again: "asking it to classify the merged prose again can reopen the
   exact-record question indefinitely" (submit, _clarification_lineage).  Rows and requests are
   of their types. *)
AnswersAreLinked ==
  /\ TypeOK
  /\ \A t \in TurnKeys : Sent(t) =>
    /\ turns[t].verified # None /\ turns[t].clarification # None =>
         turns[t].clarification.kind = "missing_detail"
    /\ turns[t].child # None => Sent(turns[t].child) /\ turns[turns[t].child].parent = t
    /\ turns[t].parent # None => turns[turns[t].parent].child # None

(* A form is planned for the record that was verified for its turn, else for the only one
   its page names; never for one of several (request_workflow_proposal, its catalogs). *)
PlansTheRecordNamed ==
  \A p \in proposals : p.record # None =>
    LET turn == turns[p.turn] IN
    IF turn.verified # None THEN p.record = turn.verified ELSE turn.scope = {p.record}
=============================================================================
