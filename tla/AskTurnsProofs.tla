---------------------------- MODULE AskTurnsProofs ----------------------------
(***************************************************************************)
(* Proofs about AskTurns for any turns, records, routes, acceptances and    *)
(* numbers of concurrent requests.                                          *)
(***************************************************************************)
EXTENDS AskTurns, FiniteSetTheorems, SequenceTheorems, TLAPS

USE ActionsAssumption, ScopesAssumption, RoutesAssumption, ChangesAssumption

(* What a turn says of itself: only a changing action on a page of records can have been
   asked for a record, and not once that has been verified. *)
Facts(row) ==
  /\ row.text # <<>>
  /\ (row.clarification # None /\ row.clarification.kind = "exact_record") =>
       row.scope # None /\ RequestedAction(row.text) \in Changing /\ row.verified = None
RowsHold == \A t \in TurnKeys : Sent(t) => Facts(turns[t])

(* What never changes in a turn. *)
Same(old, new) ==
  /\ new.text = old.text /\ new.scope = old.scope /\ new.handoffs = old.handoffs
  /\ new.asks = old.asks /\ new.parent = old.parent /\ new.source = old.source
  /\ new.reply = old.reply /\ new.verified = old.verified

(* The turns of a snapshot are the turns there are, but for what may have changed. *)
Seen(r) ==
  \A t \in TurnKeys : r.view.turns[t] # None =>
    Sent(t) /\ Same(r.view.turns[t], turns[t]) /\ Facts(r.view.turns[t])

(* What the snapshot of a request let pass. *)
Admitted(r) ==
  /\ r.text # <<>>
  /\ r.parent # None =>
       /\ Parent(r) # None /\ Parent(r).clarification # None /\ ReplyAdmitted(r)
       /\ r.text = Append(Parent(r).text, r.reply) /\ r.scope = Parent(r).scope
       /\ Parent(r).child # None => r.view.turns[r.key] # None
AcceptedHere(r) ==
  /\ r.view.turns[r.turn] # None
  /\ r.handoff # "development_workflow" => IdentityHolds(r.view, r.view.turns[r.turn])
RequestsHold ==
  \A c \in Clients : requests[c] # None =>
    /\ Seen(requests[c])
    /\ requests[c].op = "submit" => Admitted(requests[c])
    /\ requests[c].op = "accept" => AcceptedHere(requests[c])

(* A turn that answers names the turn it answers, and one with a record answers. *)
ParentsSent ==
  \A t \in TurnKeys : Sent(t) =>
    /\ turns[t].parent # None => Sent(turns[t].parent)
    /\ turns[t].verified # None => turns[t].parent # None

ProposalsOfTurns == \A p \in proposals : Sent(p.turn)

IInv ==
  /\ AnswersAreLinked /\ AnswersAddNoAuthority /\ PlansTheRecordNamed
  /\ RowsHold /\ RequestsHold /\ ParentsSent /\ ProposalsOfTurns

-----------------------------------------------------------------------------
(* Lemmas *)

LEMMA NotNull ==
  /\ \A t \in TurnKeys : t # None
  /\ \A x \in Records : x # None
  /\ \A x \in Routes : x # None
  /\ \A x \in Reasons : x # None
  /\ \A x \in Changing : x # None
  /\ \A x \in Clarification : x # None
  /\ \A x \in TurnRow : x # None
  /\ \A x \in Request : x # None
BY NoneAssumption

LEMMA TurnFields ==
  ASSUME NEW row \in TurnRow
  PROVE  /\ row # None /\ row.text \in Seq(Actions \cup Replies) /\ row.scope \in Scopes
         /\ row.handoffs \in Routes /\ row.asks \in Reasons \cup {None}
         /\ row.parent \in TurnKeys \cup {None}
         /\ row.source \in HandoffKinds \cup {"intent", None}
         /\ row.reply \in Replies \cup {None} /\ row.verified \in Records \cup {None}
         /\ row.clarification \in Clarification \cup {None} /\ row.child \in TurnKeys \cup {None}
         /\ row.status \in {"Offered", "Accepted"} /\ row.late \in BOOLEAN
         /\ row.accepted \in Linked \cup {None}
BY NotNull DEF TurnRow

LEMMA RequestFields ==
  ASSUME NEW r \in Request
  PROVE  /\ r # None /\ r.view \in ViewType
         /\ r.op = "submit" => r \in Submission
         /\ r.op = "accept" => r \in Acceptance
         /\ r.op \in {"submit", "accept"}
BY NotNull DEF Request, Submission, Acceptance

LEMMA ViewFields ==
  ASSUME NEW v \in ViewType
  PROVE  /\ v.turns \in [TurnKeys -> {None} \cup TurnRow]
         /\ v.proposals \in SUBSET ProposalRow /\ v.permitted \in SUBSET Records
BY DEF ViewType

LEMMA Returned ==
  ASSUME TypeOK, NEW c \in Clients, Return(c)
  PROVE  /\ requests' \in [Clients -> {None} \cup Request] /\ requests'[c] = None
         /\ \A d \in Clients \ {c} : requests'[d] = requests[d]
         /\ UNCHANGED <<permitted, changes>>
BY DEF TypeOK, Return

(* Turns stay what they are, so what was seen of them stays so. *)
TurnsKept ==
  \A t \in TurnKeys : Sent(t) => turns'[t] # None /\ Same(turns[t], turns'[t])

LEMMA SeenKept ==
  ASSUME TurnsKept, NEW r \in Request, Seen(r)
  PROVE  Seen(r)'
<1> SUFFICES ASSUME NEW t \in TurnKeys, r.view.turns[t] # None
             PROVE  Sent(t)' /\ Same(r.view.turns[t], turns'[t]) /\ Facts(r.view.turns[t])
  BY DEF Seen, Same, Facts, AsksForRecord, RequestedAction
<1>1. Sent(t) /\ Same(r.view.turns[t], turns[t]) /\ Facts(r.view.turns[t])
  BY DEF Seen
<1>2. turns'[t] # None /\ Same(turns[t], turns'[t])
  BY <1>1 DEF TurnsKept
<1> QED BY <1>1, <1>2 DEF Sent, Same

LEMMA RequestsKept ==
  ASSUME IInv, TurnsKept,
         \A d \in Clients : requests'[d] = None \/ requests'[d] = requests[d]
  PROVE  RequestsHold'
<1> SUFFICES ASSUME NEW d \in Clients, requests'[d] # None, requests'[d] = requests[d]
             PROVE  /\ Seen(requests[d])'
                    /\ requests[d].op = "submit" => Admitted(requests[d])'
                    /\ requests[d].op = "accept" => AcceptedHere(requests[d])'
  BY DEF RequestsHold
<1>1. PICK r \in Request : r = requests[d]
  BY DEF IInv, AnswersAreLinked, TypeOK
<1>2. Seen(r) /\ (r.op = "submit" => Admitted(r)) /\ (r.op = "accept" => AcceptedHere(r))
  BY <1>1, NotNull DEF IInv, RequestsHold
<1>3. Seen(r)'
  BY <1>2, SeenKept
<1>4. requests'[d] = r
  BY <1>1
<1>5. Seen(requests[d])'
  BY <1>3, <1>4 DEF Seen
<1>6. Admitted(requests[d])' <=> Admitted(r)
  BY <1>4 DEF Admitted, Parent, ReplyAdmitted, RecordVerifiable, IdentityHolds, SameRequest,
              Verified, VerifiedRecord, ContinuationRoute, ContinuationRefused
<1>7. AcceptedHere(requests[d])' <=> AcceptedHere(r)
  BY <1>4 DEF AcceptedHere, IdentityHolds, ContinuationRoute, ContinuationRefused
<1> QED BY <1>1, <1>2, <1>5, <1>6, <1>7

(* What relates one turn to the turn it answers. *)
Authority(t) ==
  turns[t].verified # None =>
    LET parent == turns[turns[t].parent] IN
    /\ turns[t].handoffs = parent.handoffs
    /\ RequestedAction(turns[t].text) = RequestedAction(parent.text)
    /\ parent.scope \in {{}} \cup {s \in Scopes : s # None /\ turns[t].verified \in s}

LEMMA AuthorityKept ==
  ASSUME IInv, TurnsKept, NEW t \in TurnKeys, Sent(t)
  PROVE  Authority(t)'
<1>1. turns[t] \in TurnRow
  BY DEF IInv, AnswersAreLinked, TypeOK, Sent
<1> SUFFICES ASSUME turns'[t].verified # None PROVE Authority(t)'
  BY DEF Authority
<1>2. turns'[t] # None /\ Same(turns[t], turns'[t])
  BY DEF TurnsKept
<1>3. turns[t].verified # None /\ turns[t].parent \in TurnKeys /\ Sent(turns[t].parent)
  BY <1>1, <1>2, TurnFields DEF Same, IInv, ParentsSent
<1>4. PICK p \in TurnKeys : p = turns[t].parent /\ p = turns'[t].parent
  BY <1>2, <1>3 DEF Same
<1>5. Same(turns[p], turns'[p])
  BY <1>3, <1>4 DEF TurnsKept
<1>6. Authority(t)
  BY <1>3 DEF IInv, AnswersAddNoAuthority, Authority
<1> QED BY <1>2, <1>3, <1>4, <1>5, <1>6 DEF Authority, Same, RequestedAction

ParentSent(t) ==
  /\ turns[t].parent # None => Sent(turns[t].parent)
  /\ turns[t].verified # None => turns[t].parent # None

LEMMA ParentsKept ==
  ASSUME IInv, TurnsKept, NEW t \in TurnKeys, Sent(t)
  PROVE  ParentSent(t)'
<1>1. turns[t] \in TurnRow /\ turns'[t] # None /\ Same(turns[t], turns'[t])
  BY DEF IInv, AnswersAreLinked, TypeOK, Sent, TurnsKept
<1>2. turns[t].parent # None => turns[t].parent \in TurnKeys /\ Sent(turns[t].parent)
  BY <1>1, TurnFields DEF IInv, ParentsSent
<1>3. turns[t].parent # None => turns'[turns[t].parent] # None
  BY <1>2 DEF TurnsKept
<1> QED BY <1>1, <1>3 DEF Same, Sent, IInv, ParentsSent, ParentSent

Named(p) ==
  p.record # None =>
    LET turn == turns[p.turn] IN
    IF turn.verified # None THEN p.record = turn.verified ELSE turn.scope = {p.record}

LEMMA ProposalsKept ==
  ASSUME IInv, TurnsKept, NEW p \in proposals
  PROVE  Sent(p.turn)' /\ Named(p)'
<1>1. p.turn \in TurnKeys /\ Sent(p.turn)
  BY DEF IInv, ProposalsOfTurns, AnswersAreLinked, TypeOK, ProposalRow
<1>2. turns'[p.turn] # None /\ Same(turns[p.turn], turns'[p.turn])
  BY <1>1 DEF TurnsKept
<1> QED BY <1>1, <1>2 DEF IInv, PlansTheRecordNamed, Named, Same, Sent

(* The links of one turn. *)
Links(t) ==
  /\ turns[t].child # None => Sent(turns[t].child) /\ turns[turns[t].child].parent = t
  /\ turns[t].parent # None => turns[turns[t].parent].child # None

(* What a step has to show of the turns it changes and of those it adds. *)
LEMMA RowsKeep ==
  ASSUME IInv, TypeOK', TurnsKept,
         \A p \in proposals' : p \in proposals \/ (Sent(p.turn)' /\ Named(p)'),
         \A d \in Clients : requests'[d] = None \/ requests'[d] = requests[d],
         \A t \in TurnKeys : turns'[t] # None =>
           Facts(turns[t])' /\ Links(t)' /\ (Sent(t) \/ (Authority(t)' /\ ParentSent(t)'))
  PROVE  IInv'
<1>1. RequestsHold'
  BY RequestsKept
<1>2. AnswersAddNoAuthority'
  <2>1. \A t \in TurnKeys : turns'[t] # None => Authority(t)'
    BY AuthorityKept
  <2> QED BY <2>1 DEF AnswersAddNoAuthority, Authority, Sent
<1>3. ParentsSent'
  <2>1. \A t \in TurnKeys : turns'[t] # None => ParentSent(t)'
    BY ParentsKept
  <2> QED BY <2>1 DEF ParentsSent, ParentSent, Sent
<1>4. ProposalsOfTurns' /\ PlansTheRecordNamed'
  <2>1. \A p \in proposals' : Sent(p.turn)' /\ Named(p)'
    BY ProposalsKept
  <2> QED BY <2>1 DEF ProposalsOfTurns, PlansTheRecordNamed, Named
<1>5. RowsHold'
  BY DEF RowsHold, Sent
<1>6. AnswersAreLinked'
  <2> SUFFICES ASSUME NEW t \in TurnKeys, turns'[t] # None
               PROVE  /\ turns'[t].verified # None /\ turns'[t].clarification # None =>
                           turns'[t].clarification.kind = "missing_detail"
                      /\ turns'[t].child # None =>
                           turns'[turns'[t].child] # None /\ turns'[turns'[t].child].parent = t
                      /\ turns'[t].parent # None => turns'[turns'[t].parent].child # None
    BY DEF AnswersAreLinked, Sent
  <2>1. turns'[t] \in TurnRow
    BY DEF TypeOK
  <2>2. turns'[t].clarification # None =>
          turns'[t].clarification.kind \in {"exact_record", "missing_detail"}
    BY <2>1, TurnFields DEF Clarification
  <2>3. Facts(turns[t])' /\ Links(t)'
    OBVIOUS
  <2> QED BY <2>2, <2>3 DEF Facts, Links, Sent
<1> QED BY <1>1, <1>2, <1>3, <1>4, <1>5, <1>6 DEF IInv

LEMMA LinksHold ==
  ASSUME IInv, NEW t \in TurnKeys, Sent(t)
  PROVE  /\ Links(t) /\ Facts(turns[t]) /\ turns[t] \in TurnRow
         /\ turns[t].child # None => turns[t].child \in TurnKeys
         /\ turns[t].parent # None => turns[t].parent \in TurnKeys /\ Sent(turns[t].parent)
<1>1. turns[t] \in TurnRow
  BY DEF IInv, AnswersAreLinked, TypeOK, Sent
<1> QED BY <1>1, TurnFields DEF IInv, AnswersAreLinked, Links, RowsHold, ParentsSent

(* One turn changes. *)
LEMMA RowChanges ==
  ASSUME IInv, NEW t \in TurnKeys, Sent(t), NEW row \in TurnRow, Same(turns[t], row), Facts(row),
         \/ row.child = turns[t].child
         \/ row.child \in TurnKeys /\ Sent(row.child) /\ turns[row.child].parent = t,
         turns' = [turns EXCEPT ![t] = row],
         permitted' \subseteq Records, changes' \in 0..MaxChanges, proposals' \subseteq ProposalRow,
         requests' \in [Clients -> {None} \cup Request],
         \A p \in proposals' : p \in proposals \/ (Sent(p.turn)' /\ Named(p)'),
         \A d \in Clients : requests'[d] = None \/ requests'[d] = requests[d]
  PROVE  IInv'
<1>1. /\ turns' \in [TurnKeys -> {None} \cup TurnRow] /\ turns'[t] = row /\ row # None
      /\ \A s \in TurnKeys \ {t} : turns'[s] = turns[s]
  BY NotNull DEF IInv, AnswersAreLinked, TypeOK
<1>2. TypeOK'
  BY <1>1 DEF TypeOK
<1>3. TurnsKept
  BY <1>1 DEF TurnsKept, Same, Sent
<1>4. \A s \in TurnKeys : turns'[s] # None => Sent(s)
  BY <1>1 DEF Sent
<1>5. \A s \in TurnKeys : Sent(s) => /\ turns'[s].parent = turns[s].parent
                                     /\ turns[s].child # None => turns'[s].child # None
  BY <1>1, NotNull DEF Same
<1>6. ASSUME NEW s \in TurnKeys, turns'[s] # None PROVE Facts(turns[s])' /\ Links(s)'
  <2>1. Sent(s) /\ Links(s) /\ Facts(turns[s])
    BY <1>4, <1>6, LinksHold
  <2>2. Facts(turns[s])'
    BY <1>1, <2>1 DEF Facts, RequestedAction
  <2>3. turns'[s].child # None => Sent(turns[s].child)' /\ turns'[turns'[s].child].parent = s
    <3> SUFFICES ASSUME turns'[s].child # None
                 PROVE  Sent(turns[s].child)' /\ turns'[turns'[s].child].parent = s
      OBVIOUS
    <3>1. PICK k : k = turns'[s].child
      OBVIOUS
    <3>2. k \in TurnKeys /\ Sent(k) /\ turns[k].parent = s
      <4>1. CASE k = turns[s].child
        BY <2>1, <3>1, <4>1, LinksHold DEF Links
      <4>2. CASE k # turns[s].child
        <5>1. s = t
          BY <1>1, <3>1, <4>2
        <5> QED BY <1>1, <3>1, <4>2, <5>1
      <4> QED BY <4>1, <4>2
    <3> QED BY <1>3, <1>5, <3>1, <3>2 DEF TurnsKept, Sent
  <2>4. turns'[s].parent # None => turns'[turns'[s].parent].child # None
    <3> SUFFICES ASSUME turns'[s].parent # None PROVE turns'[turns'[s].parent].child # None
      OBVIOUS
    <3>1. PICK k : k = turns[s].parent /\ k = turns'[s].parent
      BY <1>5, <2>1
    <3>2. k \in TurnKeys /\ Sent(k) /\ turns[k].child # None
      BY <2>1, <3>1, LinksHold DEF Links
    <3> QED BY <1>5, <3>1, <3>2
  <2> QED BY <2>2, <2>3, <2>4 DEF Links
<1> QED BY <1>2, <1>3, <1>4, <1>6, RowsKeep

(* No turn changes. *)
LEMMA TurnsUnchanged ==
  ASSUME IInv, UNCHANGED <<turns, proposals>>,
         permitted' \subseteq Records, changes' \in 0..MaxChanges,
         requests' \in [Clients -> {None} \cup Request],
         \A d \in Clients : requests'[d] = None \/ requests'[d] = requests[d]
  PROVE  IInv'
<1>1. TypeOK'
  BY DEF IInv, AnswersAreLinked, TypeOK
<1>2. TurnsKept
  BY DEF TurnsKept, Same, Sent
<1>3. \A s \in TurnKeys : turns'[s] # None => Sent(s) /\ Facts(turns[s])' /\ Links(s)'
  BY LinksHold DEF Sent, Facts, Links
<1> QED BY <1>1, <1>2, <1>3, RowsKeep

-----------------------------------------------------------------------------
(* The steps *)

LEMMA ViewTyped ==
  ASSUME TypeOK, NEW rs
  PROVE  View(rs) \in ViewType
BY DEF TypeOK, View, ViewType

LEMMA ViewSeen ==
  ASSUME IInv, NEW r, NEW rs, r.view = View(rs)
  PROVE  Seen(r) /\ \A t \in TurnKeys : r.view.turns[t] = IF t \in rs THEN turns[t] ELSE None
<1>1. \A t \in TurnKeys : r.view.turns[t] = IF t \in rs THEN turns[t] ELSE None
  BY DEF View
<1> QED BY <1>1, LinksHold DEF Seen, Same, Sent

LEMMA BeginKeeps ==
  ASSUME IInv, NEW c \in Clients, NEW r \in Request, Begin(c, r), Seen(r),
         r.op = "submit" => Admitted(r), r.op = "accept" => AcceptedHere(r)
  PROVE  IInv'
<1>1. /\ requests' \in [Clients -> {None} \cup Request] /\ requests'[c] = r /\ r # None
      /\ \A d \in Clients \ {c} : requests'[d] = requests[d]
      /\ UNCHANGED <<turns, proposals, permitted, changes>>
  BY NotNull DEF Begin, IInv, AnswersAreLinked, TypeOK
<1>2. TypeOK'
  BY <1>1 DEF IInv, AnswersAreLinked, TypeOK
<1>3. RequestsHold'
  <2>1. \A d \in Clients : requests'[d] # None =>
          /\ Seen(requests'[d])
          /\ requests'[d].op = "submit" => Admitted(requests'[d])
          /\ requests'[d].op = "accept" => AcceptedHere(requests'[d])
    BY <1>1 DEF IInv, RequestsHold
  <2>2. \A d \in Clients : Seen(requests'[d]) <=> Seen(requests[d])'
    BY <1>1 DEF Seen, Sent
  <2>3. \A d \in Clients : Admitted(requests[d])' <=> Admitted(requests'[d])
    BY Zenon DEF Admitted, Parent, ReplyAdmitted, RecordVerifiable
  <2>4. \A d \in Clients : AcceptedHere(requests[d])' <=> AcceptedHere(requests'[d])
    BY Zenon DEF AcceptedHere, IdentityHolds
  <2> QED BY <2>1, <2>2, <2>3, <2>4 DEF RequestsHold
<1>4. AnswersAreLinked' /\ AnswersAddNoAuthority' /\ PlansTheRecordNamed'
  BY <1>1, <1>2 DEF IInv, AnswersAreLinked, AnswersAddNoAuthority, PlansTheRecordNamed, Sent
<1>5. RowsHold' /\ ParentsSent' /\ ProposalsOfTurns'
  BY <1>1 DEF IInv, RowsHold, ParentsSent, ProposalsOfTurns, Sent
<1> QED BY <1>3, <1>4, <1>5 DEF IInv

LEMMA AsksKeeps ==
  ASSUME IInv, NEW c \in Clients, NEW t \in TurnKeys, NEW action \in Actions, NEW scope \in Scopes,
         Asks(c, t, action, scope)
  PROVE  IInv'
<1>1. PICK r : r = [op |-> "submit", key |-> t, text |-> <<action>>, scope |-> scope,
               parent |-> None, source |-> None, reply |-> None, view |-> View({t})]
  OBVIOUS
<1>2. Begin(c, r) /\ r.view = View({t}) /\ r.op = "submit"
  BY <1>1 DEF Asks
<1>3. View({t}) \in ViewType /\ <<action>> \in Seq(Actions \cup Replies)
  BY ViewTyped DEF IInv, AnswersAreLinked
<1>4. r \in Submission
  BY <1>1, <1>3 DEF Submission
<1>5. Admitted(r)
  BY <1>1 DEF Admitted
<1> QED BY <1>2, <1>4, <1>5, BeginKeeps, ViewSeen DEF Request

LEMMA AnswersKeeps ==
  ASSUME IInv, NEW c \in Clients, NEW t \in TurnKeys, NEW p \in TurnKeys, NEW reply \in Replies,
         Answers(c, t, p, reply)
  PROVE  IInv'
<1>1. PICK r : r = [op |-> "submit", key |-> t, text |-> Append(turns[p].text, reply),
               scope |-> turns[p].scope, parent |-> p,
               source |-> turns[p].clarification.handoff, reply |-> reply,
               view |-> View({t, p, turns[p].child})]
  OBVIOUS
<1>2. /\ Begin(c, r) /\ ReplyAdmitted(r) /\ r.view = View({t, p, turns[p].child})
      /\ r.op = "submit" /\ turns[p] # None /\ turns[p].clarification # None
  BY <1>1 DEF Answers
<1>3. turns[p] \in TurnRow /\ Links(p) /\ Facts(turns[p])
  BY <1>2, LinksHold DEF Sent
<1>4. /\ View({t, p, turns[p].child}) \in ViewType
      /\ Append(turns[p].text, reply) \in Seq(Actions \cup Replies)
      /\ Append(turns[p].text, reply) # <<>>
      /\ turns[p].clarification.handoff \in HandoffKinds \cup {"intent"}
      /\ turns[p].scope \in Scopes
  BY <1>2, <1>3, ViewTyped, TurnFields, AppendProperties DEF IInv, AnswersAreLinked, Clarification
<1>5. r \in Submission
  BY <1>1, <1>4 DEF Submission
<1>6. Seen(r) /\ r.view.turns[p] = turns[p]
      /\ r.view.turns[t] = turns[t]
  BY <1>2, ViewSeen
<1>7. Parent(r) = turns[p]
  BY <1>1, <1>6, NotNull DEF Parent
<1>8. turns[p].child # None => turns[t] # None
  <2> SUFFICES ASSUME turns[p].child # None PROVE turns[t] # None
    OBVIOUS
  <2>1. turns[p].child = t
    BY <1>1, <1>2, <1>7, NotNull DEF ReplyAdmitted
  <2> QED BY <1>3, <2>1 DEF Links, Sent
<1>9. Admitted(r)
  <2>1. r.text = Append(turns[p].text, r.reply) /\ r.scope = turns[p].scope /\ r.key = t
    BY <1>1
  <2> QED BY <1>2, <1>4, <1>6, <1>7, <1>8, <2>1 DEF Admitted
<1> QED BY <1>2, <1>5, <1>6, <1>9, BeginKeeps DEF Request

LEMMA AcceptsKeeps ==
  ASSUME IInv, NEW c \in Clients, NEW t \in TurnKeys, NEW handoff \in HandoffKinds, NEW k \in Keys,
         Accepts(c, t, handoff, k)
  PROVE  IInv'
<1>1. PICK r : r = [op |-> "accept", turn |-> t, handoff |-> handoff, key |-> k,
               view |-> View({t, turns[t].parent})]
  OBVIOUS
<1>2. /\ Begin(c, r) /\ r.op = "accept" /\ r.view = View({t, turns[t].parent})
      /\ turns[t] # None /\ r.turn = t
      /\ r.handoff # "development_workflow" => IdentityHolds(r.view, turns[t])
  BY <1>1 DEF Accepts
<1>3. View({t, turns[t].parent}) \in ViewType
  BY ViewTyped DEF IInv, AnswersAreLinked
<1>4. r \in Acceptance
  BY <1>1, <1>3 DEF Acceptance
<1>5. Seen(r) /\ r.view.turns[t] = turns[t]
  BY <1>2, ViewSeen
<1>6. AcceptedHere(r)
  BY <1>2, <1>5 DEF AcceptedHere
<1> QED BY <1>2, <1>4, <1>5, <1>6, BeginKeeps DEF Request

(* What a request that is under way knows of its rows. *)
LEMMA SubmissionKnows ==
  ASSUME IInv, NEW c \in Clients, NEW r, r = requests[c], r # None, r.op = "submit"
  PROVE  /\ r \in Submission /\ r.view \in ViewType /\ Seen(r) /\ Admitted(r)
         /\ r.key \in TurnKeys /\ r.scope \in Scopes /\ r.text \in Seq(Actions \cup Replies)
         /\ r.parent \in TurnKeys \cup {None} /\ r.source \in HandoffKinds \cup {"intent", None}
         /\ r.reply \in Replies \cup {None}
         /\ r.parent # None =>
              /\ r.parent \in TurnKeys /\ Sent(r.parent) /\ Parent(r) = r.view.turns[r.parent]
              /\ Parent(r) \in TurnRow /\ Same(Parent(r), turns[r.parent]) /\ Facts(Parent(r))
<1>1. r \in Request
  BY DEF IInv, AnswersAreLinked, TypeOK
<1>2. /\ r \in Submission /\ r.view \in ViewType /\ Seen(r) /\ Admitted(r)
      /\ r.view.turns \in [TurnKeys -> {None} \cup TurnRow]
  BY <1>1, RequestFields, ViewFields DEF IInv, RequestsHold
<1>3. /\ r.key \in TurnKeys /\ r.scope \in Scopes /\ r.text \in Seq(Actions \cup Replies)
      /\ r.parent \in TurnKeys \cup {None} /\ r.source \in HandoffKinds \cup {"intent", None}
      /\ r.reply \in Replies \cup {None}
  BY <1>2 DEF Submission
<1>4. r.parent # None => Parent(r) = r.view.turns[r.parent] /\ Parent(r) # None
  BY <1>2 DEF Parent, Admitted
<1> QED BY <1>2, <1>3, <1>4 DEF Seen

LEMMA AcceptanceKnows ==
  ASSUME IInv, NEW c \in Clients, NEW r, r = requests[c], r # None, r.op = "accept",
         NEW turn, turn = r.view.turns[r.turn]
  PROVE  /\ r.turn \in TurnKeys /\ r.handoff \in HandoffKinds /\ r.key \in Keys
         /\ turn \in TurnRow /\ Sent(r.turn) /\ Same(turn, turns[r.turn]) /\ Facts(turn)
         /\ r.handoff # "development_workflow" => IdentityHolds(r.view, turn)
         /\ r.view.permitted \subseteq Records
<1>1. r \in Request
  BY DEF IInv, AnswersAreLinked, TypeOK
<1>2. /\ r \in Acceptance /\ r.view \in ViewType /\ Seen(r) /\ AcceptedHere(r)
      /\ r.view.turns \in [TurnKeys -> {None} \cup TurnRow] /\ r.view.permitted \subseteq Records
  BY <1>1, RequestFields, ViewFields DEF IInv, RequestsHold
<1>3. r.turn \in TurnKeys /\ r.handoff \in HandoffKinds /\ r.key \in Keys
  BY <1>2 DEF Acceptance
<1> QED BY <1>2, <1>3 DEF Seen, AcceptedHere

LEMMA ChangingRequest ==
  ASSUME IInv, NEW c \in Clients, Return(c)
  PROVE  /\ requests' \in [Clients -> {None} \cup Request]
         /\ \A d \in Clients : requests'[d] = None \/ requests'[d] = requests[d]
         /\ permitted' \subseteq Records /\ changes' \in 0..MaxChanges
BY Returned DEF IInv, AnswersAreLinked, TypeOK

LEMMA AbortKeeps == ASSUME IInv, NEW c \in Clients, Abort(c) PROVE IInv'
BY ChangingRequest, TurnsUnchanged DEF Abort

LEMMA ResubmitKeeps == ASSUME IInv, NEW c \in Clients, Resubmit(c) PROVE IInv'
<1>1. PICK r : r = requests[c]
  OBVIOUS
<1>2. /\ r # None /\ r.op = "submit" /\ r.view.turns[r.key] # None
      /\ SameRequest(r.view.turns[r.key], r) /\ Return(c) /\ turns' = Consumed(turns, r)
      /\ UNCHANGED proposals
  BY <1>1 DEF Resubmit
<1>3. CASE ~(r.parent # None /\ Parent(r).child = None)
  BY <1>2, <1>3, ChangingRequest, TurnsUnchanged DEF Consumed
<1>4. CASE r.parent # None /\ Parent(r).child = None
  <2>1. PICK p, row : p = r.parent /\ row = [turns[p] EXCEPT !.child = r.key]
    OBVIOUS
  <2>2. /\ p \in TurnKeys /\ Sent(p) /\ r.key \in TurnKeys /\ Sent(r.key)
        /\ turns[r.key].parent = p
    <3>1. /\ r.key \in TurnKeys /\ Seen(r)
          /\ p \in TurnKeys /\ Sent(p)
      BY <1>1, <1>2, <1>4, <2>1, SubmissionKnows
    <3>2. Sent(r.key) /\ Same(r.view.turns[r.key], turns[r.key])
      BY <1>2, <3>1 DEF Seen
    <3>3. r.view.turns[r.key].parent = p
      BY <1>2, <2>1 DEF SameRequest
    <3> QED BY <3>1, <3>2, <3>3 DEF Same
  <2>3. turns[p] \in TurnRow /\ Facts(turns[p])
    BY <2>2, LinksHold
  <2>4. row \in TurnRow /\ Same(turns[p], row) /\ Facts(row) /\ row.child = r.key
    <3>1. row.child = r.key /\ row \in TurnRow
      BY <2>1, <2>2, <2>3 DEF TurnRow
    <3>2. Same(turns[p], row) /\ row.clarification = turns[p].clarification
      BY <2>1, <2>3 DEF TurnRow, Same
    <3> QED BY <2>3, <3>1, <3>2 DEF Same, Facts, RequestedAction
  <2>5. turns' = [turns EXCEPT ![p] = row]
    BY <1>2, <1>4, <2>1 DEF Consumed
  <2>6. proposals' \subseteq ProposalRow
    BY <1>2 DEF IInv, AnswersAreLinked, TypeOK
  <2> QED BY <1>2, <2>2, <2>4, <2>5, <2>6, ChangingRequest, RowChanges
<1> QED BY <1>3, <1>4

(* The record of a turn that has one is identified, so it is never asked for again. *)
LEMMA VerifiedIdentified ==
  ASSUME NEW view, NEW turn \in TurnRow, turn.verified # None, IdentityHolds(view, turn)
  PROVE  Identified(view, turn) = turn.verified /\ PreflightQuestion(view, turn) = None
<1>1. NamedRecords(turn) = {turn.verified} /\ turn.verified \in view.permitted
  BY DEF NamedRecords, IdentityHolds
<1>2. Cardinality({turn.verified}) = 1
  BY FS_Singleton
<1>3. Identified(view, turn) = turn.verified
  BY <1>1, <1>2 DEF Identified
<1> QED BY <1>3 DEF PreflightQuestion

LEMMA AskBackKeeps == ASSUME IInv, NEW c \in Clients, AskBack(c) PROVE IInv'
<1>1. PICK r, turn : r = requests[c] /\ turn = r.view.turns[r.turn]
  OBVIOUS
<1>2. /\ r # None /\ r.op = "accept" /\ Return(c) /\ UNCHANGED proposals
      /\ \E reason \in Question(r, turn) :
           turns' = IF turn.clarification # None THEN turns
                    ELSE [turns EXCEPT ![r.turn].clarification = Issued(turn, r.handoff, reason)]
  BY <1>1 DEF AskBack
<1>3. PICK t : t = r.turn
  OBVIOUS
<1>4. /\ t \in TurnKeys /\ r.handoff \in HandoffKinds /\ turn \in TurnRow /\ Sent(t)
      /\ Same(turn, turns[t]) /\ Facts(turn)
      /\ r.handoff # "development_workflow" => IdentityHolds(r.view, turn)
  BY <1>1, <1>2, <1>3, AcceptanceKnows
<1>5. CASE turns' = turns
  BY <1>2, <1>5, ChangingRequest, TurnsUnchanged
<1>6. CASE turns' # turns
  <2>1. PICK reason \in Question(r, turn) :
          /\ turn.clarification = None
          /\ turns' = [turns EXCEPT ![t].clarification = Issued(turn, r.handoff, reason)]
    BY <1>2, <1>3, <1>6
  <2>2. PICK issued : issued = Issued(turn, r.handoff, reason)
    OBVIOUS
  <2>3. reason \in Reasons
    BY DEF Question, PreflightQuestion, Reasons
  <2>4. issued = [handoff |-> r.handoff, reason |-> reason, late |-> FALSE,
                  kind |-> IF AsksForRecord(turn, reason) THEN "exact_record" ELSE "missing_detail"]
    BY <2>1, <2>2 DEF Issued
  <2>5. issued \in Clarification
    BY <1>4, <2>3, <2>4 DEF Clarification
  <2>6. issued.kind = "exact_record" =>
          turn.scope # None /\ RequestedAction(turn.text) \in Changing /\ turn.verified = None
    <3> SUFFICES ASSUME AsksForRecord(turn, reason) PROVE turn.verified = None
      BY <2>4 DEF AsksForRecord
    <3>1. reason = "exact"
      BY DEF AsksForRecord
    <3>2. r.handoff = "attended_browser" /\ PreflightQuestion(r.view, turn) # None
      BY <3>1 DEF Question
    <3> QED BY <1>4, <3>2, VerifiedIdentified
  <2>7. PICK row : row = [turns[t] EXCEPT !.clarification = issued]
    OBVIOUS
  <2>8. turns[t] \in TurnRow /\ Facts(turns[t])
    BY <1>4, LinksHold
  <2>9. /\ row \in TurnRow /\ row.clarification = issued /\ row.child = turns[t].child
        /\ Same(turns[t], row)
    BY <2>5, <2>7, <2>8 DEF TurnRow, Same
  <2>10. Facts(row)
    BY <1>4, <2>6, <2>8, <2>9 DEF Facts, Same, RequestedAction
  <2>11. turns' = [turns EXCEPT ![t] = row]
    BY <2>1, <2>2, <2>7
  <2>12. proposals' \subseteq ProposalRow
    BY <1>2 DEF IInv, AnswersAreLinked, TypeOK
  <2> QED BY <1>2, <1>4, <2>9, <2>10, <2>11, <2>12, ChangingRequest, RowChanges
<1> QED BY <1>5, <1>6

(* Without a verified record, what is identified is the only record of the page. *)
LEMMA IdentifiedNamed ==
  ASSUME NEW view, NEW turn \in TurnRow, turn.verified = None, NEW x, x = Identified(view, turn),
         x # None
  PROVE  turn.scope = {x} /\ x \in Records
<1>1. Cardinality(NamedInScope(turn)) = 1 /\ x = CHOOSE r \in NamedInScope(turn) : TRUE
  BY DEF Identified, NamedRecords
<1>2. turn.scope \in {None} \cup SUBSET Records
  BY TurnFields
<1>3. NamedInScope(turn) \subseteq Records
  BY <1>2 DEF NamedInScope
<1>4. IsFiniteSet(NamedInScope(turn))
  BY <1>3, RecordsAssumption, FS_Subset
<1>5. PICK y : NamedInScope(turn) = {y}
  BY <1>1, <1>4, FS_Singleton
<1>6. x = y
  BY <1>1, <1>5
<1>7. turn.scope # None
  BY <1>5 DEF NamedInScope
<1> QED BY <1>3, <1>5, <1>6, <1>7 DEF NamedInScope

LEMMA AcceptHandoffKeeps == ASSUME IInv, NEW c \in Clients, AcceptHandoff(c) PROVE IInv'
<1>1. PICK r, turn : r = requests[c] /\ turn = r.view.turns[r.turn]
  OBVIOUS
<1>2. PICK t, link : t = r.turn /\ link = [handoff |-> r.handoff, key |-> r.key]
  OBVIOUS
<1>3. PICK row : row = [turns[t] EXCEPT !.status = "Accepted", !.accepted = link]
  OBVIOUS
<1>4. /\ r # None /\ r.op = "accept" /\ Return(c)
      /\ \/ proposals' = proposals
         \/ \E record \in PlannedRecords(r, turn) :
              proposals' = proposals \cup
                {[turn |-> t, handoff |-> r.handoff, key |-> r.key, record |-> record]}
  BY <1>1, <1>2 DEF AcceptHandoff
<1>5. /\ t \in TurnKeys /\ r.handoff \in HandoffKinds /\ r.key \in Keys /\ turn \in TurnRow
      /\ Sent(t) /\ Same(turn, turns[t]) /\ Facts(turn)
      /\ r.handoff # "development_workflow" => IdentityHolds(r.view, turn)
  BY <1>1, <1>2, <1>4, AcceptanceKnows
<1>6. turns[t] \in TurnRow /\ Facts(turns[t])
  BY <1>5, LinksHold
<1>7. link \in Linked
  BY <1>2, <1>5 DEF Linked
<1>8. /\ row \in TurnRow /\ row.child = turns[t].child /\ Same(turns[t], row)
      /\ row.clarification = turns[t].clarification
  BY <1>3, <1>6, <1>7 DEF TurnRow, Same
<1>9. Facts(row)
  BY <1>6, <1>8 DEF Facts, Same, RequestedAction
<1>10. turns' = [turns EXCEPT ![t] = row]
  <2>1. turns \in [TurnKeys -> {None} \cup TurnRow]
    BY DEF IInv, AnswersAreLinked, TypeOK
  <2> QED BY <1>1, <1>2, <1>3, <1>5, <2>1 DEF AcceptHandoff
<1>11. turns'[t] = row /\ row # None
  BY <1>5, <1>8, <1>10, NotNull DEF IInv, AnswersAreLinked, TypeOK
<1>12. ASSUME NEW record \in PlannedRecords(r, turn), NEW p,
              p = [turn |-> t, handoff |-> r.handoff, key |-> r.key, record |-> record]
       PROVE  p \in ProposalRow /\ Sent(p.turn)' /\ Named(p)'
  <2>1. p.turn = t /\ p.record = record
    BY <1>12
  <2>2. CASE record = None
    <3>1. p \in ProposalRow
      BY <1>5, <1>12, <2>2 DEF ProposalRow
    <3> QED BY <1>11, <2>1, <2>2, <3>1 DEF Sent, Named
  <2>3. CASE record # None
    <3>1. r.handoff = "attended_browser" /\ record = Identified(r.view, turn)
      BY <2>3 DEF PlannedRecords
    <3>2. turn.verified # None => record = turn.verified /\ record \in Records
      BY <1>5, <3>1, VerifiedIdentified, TurnFields
    <3>3. turn.verified = None => turn.scope = {record} /\ record \in Records
      BY <1>5, <2>3, <3>1, IdentifiedNamed
    <3>4. p \in ProposalRow
      BY <1>5, <1>12, <3>2, <3>3 DEF ProposalRow
    <3>5. row.verified = turn.verified /\ row.scope = turn.scope
      BY <1>5, <1>8 DEF Same
    <3>6. Named(p)'
      BY <1>11, <2>1, <3>2, <3>3, <3>5 DEF Named
    <3> QED BY <1>11, <2>1, <3>4, <3>6 DEF Sent
  <2> QED BY <2>2, <2>3
<1>13. /\ proposals' \subseteq ProposalRow
       /\ \A p \in proposals' : p \in proposals \/ (Sent(p.turn)' /\ Named(p)')
  <2>1. proposals \subseteq ProposalRow
    BY DEF IInv, AnswersAreLinked, TypeOK
  <2>2. CASE proposals' = proposals
    BY <2>1, <2>2
  <2>3. ASSUME NEW record \in PlannedRecords(r, turn), proposals' = proposals \cup
                {[turn |-> t, handoff |-> r.handoff, key |-> r.key, record |-> record]}
        PROVE  /\ proposals' \subseteq ProposalRow
               /\ \A p \in proposals' : p \in proposals \/ (Sent(p.turn)' /\ Named(p)')
    <3>1. PICK q : q = [turn |-> t, handoff |-> r.handoff, key |-> r.key, record |-> record]
      OBVIOUS
    <3>2. q \in ProposalRow /\ Sent(q.turn)' /\ Named(q)'
      BY <1>12, <3>1
    <3>3. proposals' = proposals \cup {q}
      BY <2>3, <3>1
    <3> QED BY <2>1, <3>2, <3>3
  <2> QED BY <1>4, <2>2, <2>3
<1> QED BY <1>4, <1>5, <1>8, <1>9, <1>10, <1>13, ChangingRequest, RowChanges

(* Time passes and records are withdrawn. *)
LEMMA ChangesKeep ==
  ASSUME IInv,
         \/ \E t \in TurnKeys : TurnExpires(t) \/ ClarificationExpires(t)
         \/ \E record \in Records : Withdraw(record)
  PROVE  IInv'
<1>1. /\ permitted' \subseteq Records /\ changes' \in 0..MaxChanges
      /\ UNCHANGED <<proposals, requests>>
  BY DEF TurnExpires, ClarificationExpires, Withdraw, Change, IInv, AnswersAreLinked, TypeOK
<1>2. /\ proposals' \subseteq ProposalRow /\ requests' \in [Clients -> {None} \cup Request]
      /\ \A d \in Clients : requests'[d] = None \/ requests'[d] = requests[d]
      /\ \A p \in proposals' : p \in proposals
  BY <1>1 DEF IInv, AnswersAreLinked, TypeOK
<1>3. ASSUME NEW t \in TurnKeys, TurnExpires(t) PROVE IInv'
  <2>1. PICK row : row = [turns[t] EXCEPT !.late = TRUE]
    OBVIOUS
  <2>2. Sent(t) /\ turns' = [turns EXCEPT ![t] = row]
    BY <1>3, <2>1 DEF TurnExpires, Sent
  <2>3. turns[t] \in TurnRow /\ Facts(turns[t])
    BY <2>2, LinksHold
  <2>4. /\ row \in TurnRow /\ row.child = turns[t].child /\ Same(turns[t], row)
        /\ row.clarification = turns[t].clarification
    BY <2>1, <2>3 DEF TurnRow, Same
  <2>5. Facts(row)
    BY <2>3, <2>4 DEF Facts, Same, RequestedAction
  <2> QED BY <1>1, <1>2, <2>2, <2>4, <2>5, RowChanges
<1>4. ASSUME NEW t \in TurnKeys, ClarificationExpires(t) PROVE IInv'
  <2>1. PICK late : late = [turns[t].clarification EXCEPT !.late = TRUE]
    OBVIOUS
  <2>2. PICK row : row = [turns[t] EXCEPT !.clarification = late]
    OBVIOUS
  <2>3. Sent(t) /\ turns' = [turns EXCEPT ![t] = row] /\ turns[t].clarification # None
    BY <1>4, <2>1, <2>2 DEF ClarificationExpires, Sent
  <2>4. turns[t] \in TurnRow /\ Facts(turns[t])
    BY <2>3, LinksHold
  <2>5. late \in Clarification /\ late.kind = turns[t].clarification.kind
    <3>1. turns[t].clarification \in Clarification
      BY <2>3, <2>4, TurnFields
    <3>2. late = [handoff |-> turns[t].clarification.handoff, late |-> TRUE,
                  kind |-> turns[t].clarification.kind, reason |-> turns[t].clarification.reason]
      BY <2>1, <3>1 DEF Clarification
    <3> QED BY <3>1, <3>2 DEF Clarification
  <2>6. /\ row \in TurnRow /\ row.child = turns[t].child /\ Same(turns[t], row)
        /\ row.clarification = late
    BY <2>2, <2>4, <2>5 DEF TurnRow, Same
  <2>7. Facts(row)
    BY <2>3, <2>4, <2>5, <2>6 DEF Facts, Same, RequestedAction
  <2> QED BY <1>1, <1>2, <2>3, <2>6, <2>7, RowChanges
<1>5. ASSUME NEW record \in Records, Withdraw(record) PROVE IInv'
  BY <1>1, <1>2, <1>5, TurnsUnchanged DEF Withdraw
<1> QED BY <1>3, <1>4, <1>5

LEMMA HeadKept ==
  ASSUME NEW S, NEW text \in Seq(S), text # <<>>, NEW x \in S
  PROVE  RequestedAction(Append(text, x)) = RequestedAction(text)
<1>1. Head(Append(text, x)) = Head(text)
  BY LenProperties, AppendProperties, EmptySeq
<1> QED BY <1>1 DEF RequestedAction

(* A new turn: the question it was put, and the record that was verified for it. *)
LEMMA NewTurnTyped ==
  ASSUME IInv, NEW c \in Clients, NEW r, r = requests[c], r # None, r.op = "submit",
         NEW route \in Routes, NEW question \in Reasons \cup {None},
         NEW row, row = NewTurn(r, route, question),
         ~ContinuationRefused(Parent(r)), r.view.turns[r.key] = None,
         ContinuationRoute(Parent(r)) # None =>
           route = ContinuationRoute(Parent(r)) /\ question = None
  PROVE  /\ row \in TurnRow /\ Facts(row) /\ row.parent = r.parent /\ row.child = None
         /\ r.parent # None => Parent(r).child = None
         /\ row.verified # None =>
              /\ r.parent # None /\ route = Parent(r).handoffs /\ row.handoffs = route
              /\ RequestedAction(row.text) = RequestedAction(Parent(r).text)
              /\ Parent(r).scope # None /\ (Parent(r).scope # {} => row.verified \in Parent(r).scope)
<1>1. /\ r.view \in ViewType /\ Admitted(r) /\ r.key \in TurnKeys /\ r.scope \in Scopes
      /\ r.text \in Seq(Actions \cup Replies) /\ r.parent \in TurnKeys \cup {None}
      /\ r.source \in HandoffKinds \cup {"intent", None} /\ r.reply \in Replies \cup {None}
      /\ r.parent # None => /\ r.parent \in TurnKeys /\ Parent(r) \in TurnRow /\ Facts(Parent(r))
  BY SubmissionKnows
<1>2. r.parent # None =>
        /\ Parent(r).child = None /\ Parent(r) # None /\ Parent(r).clarification # None
        /\ ReplyAdmitted(r) /\ r.text = Append(Parent(r).text, r.reply)
  BY <1>1 DEF Admitted
<1>3. Verified(r) # None =>
        /\ r.parent # None /\ Parent(r).clarification.kind = "exact_record" /\ Verified(r) = r.reply
        /\ r.reply \in r.view.permitted
        /\ Parent(r).scope # {} => r.reply \in Parent(r).scope
  BY <1>2 DEF Verified, VerifiedRecord, ReplyAdmitted, RecordVerifiable
<1>4. Verified(r) \in Records \cup {None}
  BY <1>1, <1>3, ViewFields
<1>5. Verified(r) # None => route = Parent(r).handoffs /\ question = None
  <2> SUFFICES ASSUME Verified(r) # None PROVE route = Parent(r).handoffs /\ question = None
    OBVIOUS
  <2>1. ContinuationRoute(Parent(r)) = Parent(r).handoffs
    BY <1>2, <1>3 DEF ContinuationRoute
  <2>2. Parent(r).handoffs # None
    BY <1>1, <1>3, TurnFields, NotNull
  <2> QED BY <2>1, <2>2
<1>6. PICK plain : plain = [text |-> r.text, scope |-> r.scope, handoffs |-> route,
        asks |-> question, parent |-> r.parent, source |-> r.source, reply |-> r.reply,
        verified |-> Verified(r), clarification |-> None, child |-> None, status |-> "Offered",
        late |-> FALSE, accepted |-> None]
  OBVIOUS
<1>7. /\ plain.text = r.text /\ plain.scope = r.scope /\ plain.handoffs = route
      /\ plain.parent = r.parent /\ plain.verified = Verified(r)
      /\ plain.clarification = None /\ plain.child = None
  BY <1>6
<1>8. plain \in TurnRow
  BY <1>1, <1>4, <1>6 DEF TurnRow
<1>9. PICK issued : issued = Issued(plain, "intent", question)
  OBVIOUS
<1>10. question # None => row = [plain EXCEPT !.clarification = issued]
  BY <1>6, <1>9 DEF NewTurn
<1>11. question = None => row = plain
  BY <1>6 DEF NewTurn
<1>12. question # None =>
         /\ issued \in Clarification
         /\ issued.kind = "exact_record" =>
              plain.scope # None /\ RequestedAction(plain.text) \in Changing
  <2> SUFFICES ASSUME question # None
               PROVE  /\ issued \in Clarification
                      /\ issued.kind = "exact_record" =>
                           plain.scope # None /\ RequestedAction(plain.text) \in Changing
    OBVIOUS
  <2>1. issued = [handoff |-> "intent", reason |-> question, late |-> FALSE,
          kind |-> IF AsksForRecord(plain, question) THEN "exact_record" ELSE "missing_detail"]
    BY <1>7, <1>9 DEF Issued
  <2> QED BY <2>1 DEF Clarification, AsksForRecord
<1>13. /\ row \in TurnRow /\ row.text = r.text /\ row.scope = r.scope /\ row.handoffs = route
       /\ row.parent = r.parent /\ row.verified = Verified(r) /\ row.child = None
       /\ question # None => row.clarification = issued
       /\ question = None => row.clarification = None
  <2>1. CASE question # None
    BY <1>7, <1>8, <1>10, <1>12, <2>1 DEF TurnRow
  <2>2. CASE question = None
    BY <1>7, <1>8, <1>11, <2>2
  <2> QED BY <2>1, <2>2
<1>14. r.text # <<>>
  BY <1>1 DEF Admitted
<1>15. Facts(row)
  <2>1. row.clarification # None => question # None /\ Verified(r) = None
    BY <1>5, <1>13
  <2> QED BY <1>7, <1>12, <1>13, <1>14, <2>1 DEF Facts
<1>16. Verified(r) # None =>
         /\ RequestedAction(row.text) = RequestedAction(Parent(r).text)
         /\ Parent(r).scope # None
  <2> SUFFICES ASSUME Verified(r) # None
               PROVE  /\ RequestedAction(row.text) = RequestedAction(Parent(r).text)
                      /\ Parent(r).scope # None
    OBVIOUS
  <2>1. Parent(r).scope # None
    BY <1>1, <1>2, <1>3 DEF Facts
  <2>2. Parent(r).text \in Seq(Actions \cup Replies) /\ Parent(r).text # <<>>
    BY <1>1, <1>3, TurnFields DEF Facts
  <2>3. r.reply \in Actions \cup Replies
    BY <1>1, <1>3, ViewFields DEF Replies
  <2>4. RequestedAction(Append(Parent(r).text, r.reply)) = RequestedAction(Parent(r).text)
    BY <2>2, <2>3, HeadKept
  <2> QED BY <1>2, <1>3, <1>13, <2>1, <2>4
<1> QED BY <1>2, <1>3, <1>5, <1>13, <1>15, <1>16

LEMMA SubmitKeeps == ASSUME IInv, NEW c \in Clients, Submit(c) PROVE IInv'
<1>1. PICK r, k, p : r = requests[c] /\ k = r.key /\ p = r.parent
  OBVIOUS
<1>2. /\ r # None /\ r.op = "submit" /\ r.view.turns[r.key] = None /\ turns[k] = None
      /\ ~ContinuationRefused(Parent(r)) /\ Return(c) /\ UNCHANGED proposals
  BY <1>1 DEF Submit
<1>3. PICK route \in Routes, question \in Reasons \cup {None} :
        /\ ContinuationRoute(Parent(r)) # None =>
             route = ContinuationRoute(Parent(r)) /\ question = None
        /\ turns' = Consumed([turns EXCEPT ![k] = NewTurn(r, route, question)], r)
  BY <1>1 DEF Submit
<1>4. PICK row : row = NewTurn(r, route, question)
  OBVIOUS
<1>5. /\ row \in TurnRow /\ Facts(row) /\ row.parent = p /\ row.child = None
      /\ p # None => Parent(r).child = None
      /\ row.verified # None =>
           /\ p # None /\ row.handoffs = Parent(r).handoffs
           /\ RequestedAction(row.text) = RequestedAction(Parent(r).text)
           /\ Parent(r).scope # None /\ (Parent(r).scope # {} => row.verified \in Parent(r).scope)
  <2>1. /\ r = requests[c] /\ r # None /\ r.op = "submit" /\ row = NewTurn(r, route, question)
        /\ ~ContinuationRefused(Parent(r)) /\ r.view.turns[r.key] = None
        /\ ContinuationRoute(Parent(r)) # None =>
             route = ContinuationRoute(Parent(r)) /\ question = None
    BY <1>1, <1>2, <1>3, <1>4, Zenon
  <2>2. /\ row \in TurnRow /\ Facts(row) /\ row.parent = r.parent /\ row.child = None
        /\ r.parent # None => Parent(r).child = None
        /\ row.verified # None =>
             /\ r.parent # None /\ route = Parent(r).handoffs /\ row.handoffs = route
             /\ RequestedAction(row.text) = RequestedAction(Parent(r).text)
             /\ Parent(r).scope # None
             /\ Parent(r).scope # {} => row.verified \in Parent(r).scope
    BY <2>1, NewTurnTyped
  <2> QED BY <2>2, <1>1, Zenon
<1>6. /\ k \in TurnKeys /\ p \in TurnKeys \cup {None}
      /\ p # None => /\ Sent(p) /\ Parent(r) \in TurnRow /\ Same(Parent(r), turns[p])
  BY <1>1, <1>2, SubmissionKnows
<1>7. turns \in [TurnKeys -> {None} \cup TurnRow]
  BY DEF IInv, AnswersAreLinked, TypeOK
<1>8. PICK closed : closed = [turns[p] EXCEPT !.child = k]
  OBVIOUS
<1>9. p # None => /\ turns[p] \in TurnRow /\ Facts(turns[p]) /\ closed \in TurnRow
                  /\ Same(turns[p], closed) /\ closed.child = k /\ Facts(closed)
  <2> SUFFICES ASSUME p # None
               PROVE  /\ turns[p] \in TurnRow /\ Facts(turns[p]) /\ closed \in TurnRow
                      /\ Same(turns[p], closed) /\ closed.child = k /\ Facts(closed)
    OBVIOUS
  <2>1. turns[p] \in TurnRow /\ Facts(turns[p])
    BY <1>6, LinksHold
  <2>2. /\ closed \in TurnRow /\ Same(turns[p], closed) /\ closed.child = k
        /\ closed.clarification = turns[p].clarification
    BY <1>6, <1>8, <2>1 DEF TurnRow, Same
  <2> QED BY <2>1, <2>2 DEF Facts, Same, RequestedAction
<1>10. turns' = [s \in TurnKeys |-> IF s = k THEN row ELSE
                                    IF p # None /\ s = p THEN closed ELSE turns[s]]
  <2>1. p # k
    BY <1>2, <1>6, NotNull DEF Sent
  <2>2. CASE p = None
    BY <1>1, <1>3, <1>4, <1>7, <2>2 DEF Consumed
  <2>3. CASE p # None
    <3>1. turns' = [[turns EXCEPT ![k] = row] EXCEPT ![p].child = k]
      BY <1>1, <1>3, <1>4, <1>5, <2>3 DEF Consumed
    <3>2. [turns EXCEPT ![k] = row][p] = turns[p]
      BY <1>6, <1>7, <2>1, <2>3
    <3> QED BY <1>6, <1>7, <1>8, <2>1, <2>3, <3>1, <3>2
  <2> QED BY <2>2, <2>3
<1>11. /\ turns'[k] = row /\ row # None
       /\ p # None => turns'[p] = closed /\ closed # None
       /\ \A s \in TurnKeys \ {k, p} : turns'[s] = turns[s]
  <2>1. p # None => p # k
    BY <1>2, <1>6 DEF Sent
  <2> QED BY <1>5, <1>6, <1>9, <1>10, <2>1, TurnFields
<1>12. turns' \in [TurnKeys -> {None} \cup TurnRow]
  BY <1>5, <1>7, <1>9, <1>10
<1>13. TypeOK'
  BY <1>2, <1>12, ChangingRequest DEF IInv, AnswersAreLinked, TypeOK
<1>14. TurnsKept
  <2> SUFFICES ASSUME NEW s \in TurnKeys, Sent(s)
               PROVE  turns'[s] # None /\ Same(turns[s], turns'[s])
    BY DEF TurnsKept
  <2>1. s # k
    BY <1>2 DEF Sent
  <2>2. CASE s = p
    BY <1>6, <1>9, <1>11, <2>2, NotNull
  <2>3. CASE s # p
    BY <1>11, <2>1, <2>3 DEF Same, Sent
  <2> QED BY <2>2, <2>3
<1>15. Authority(k)' /\ ParentSent(k)'
  <2>1. p # None => /\ Sent(p)' /\ turns'[p].handoffs = Parent(r).handoffs
                    /\ turns'[p].text = Parent(r).text /\ turns'[p].scope = Parent(r).scope
                    /\ Parent(r).scope \in Scopes
    BY <1>6, <1>9, <1>11, TurnFields DEF Same, Sent
  <2>2. ParentSent(k)'
    BY <1>5, <1>11, <2>1 DEF ParentSent, Sent
  <2> QED BY <1>5, <1>11, <2>1, <2>2 DEF Authority, RequestedAction
<1>16. ASSUME NEW s \in TurnKeys, turns'[s] # None PROVE Facts(turns[s])' /\ Links(s)'
  <2>1. CASE s = k
    <3>1. p # None => turns'[p].child # None
      BY <1>6, <1>9, <1>11, NotNull
    <3>2. Facts(turns[s])'
      BY <1>5, <1>11, <2>1 DEF Facts, RequestedAction
    <3> QED BY <1>5, <1>11, <2>1, <3>1, <3>2 DEF Links, Sent
  <2>2. CASE s # k
    <3>1. Sent(s) /\ Links(s) /\ Facts(turns[s])
      <4>1. Sent(s)
        BY <1>6, <1>11, <1>16, <2>2, NotNull DEF Sent
      <4> QED BY <4>1, LinksHold
    <3>2. Facts(turns[s])'
      <4>1. CASE s = p
        <5>1. turns'[s] = closed /\ Facts(closed)
          BY <1>9, <1>11, <4>1, NotNull
        <5> QED BY <5>1 DEF Facts, RequestedAction
      <4>2. CASE s # p
        <5>1. turns'[s] = turns[s]
          BY <1>11, <2>2, <4>2
        <5> QED BY <3>1, <5>1 DEF Facts, RequestedAction
      <4> QED BY <4>1, <4>2
    <3>3. turns'[s].parent = turns[s].parent
      BY <1>14, <3>1 DEF TurnsKept, Same
    <3>4. \A q \in TurnKeys : (Sent(q) /\ turns[q].child # None) => turns'[q].child # None
      BY <1>2, <1>6, <1>9, <1>11, NotNull DEF Sent
    <3>5. turns'[s].parent # None => turns'[turns'[s].parent].child # None
      <4> SUFFICES ASSUME turns'[s].parent # None PROVE turns'[turns'[s].parent].child # None
        OBVIOUS
      <4>1. PICK q : q = turns[s].parent /\ q = turns'[s].parent
        BY <3>3
      <4>2. q \in TurnKeys /\ Sent(q) /\ turns[q].child # None
        BY <3>1, <4>1, LinksHold DEF Links
      <4> QED BY <3>4, <4>1, <4>2
    <3>6. turns'[s].child # None =>
            turns'[turns'[s].child] # None /\ turns'[turns'[s].child].parent = s
      <4> SUFFICES ASSUME turns'[s].child # None
                   PROVE  turns'[turns'[s].child] # None /\ turns'[turns'[s].child].parent = s
        OBVIOUS
      <4>1. PICK q : q = turns'[s].child
        OBVIOUS
      <4>2. CASE s = p
        <5>1. p # None /\ q = k
          BY <1>9, <1>11, <2>2, <4>1, <4>2, NotNull
        <5> QED BY <1>5, <1>11, <4>1, <4>2, <5>1
      <4>3. CASE s # p
        <5>1. turns'[s] = turns[s]
          BY <1>11, <2>2, <4>3
        <5>2. q \in TurnKeys /\ Sent(q) /\ turns[q].parent = s
          BY <3>1, <4>1, <5>1, LinksHold DEF Links
        <5> QED BY <1>14, <4>1, <5>2 DEF TurnsKept, Same
      <4> QED BY <4>2, <4>3
    <3> QED BY <3>2, <3>5, <3>6 DEF Links, Sent
  <2> QED BY <2>1, <2>2
<1>17. \A s \in TurnKeys : turns'[s] # None => Sent(s) \/ s = k
  BY <1>6, <1>11, NotNull DEF Sent
<1>18. /\ \A q \in proposals' : q \in proposals
       /\ \A d \in Clients : requests'[d] = None \/ requests'[d] = requests[d]
  BY <1>2, ChangingRequest
<1>19. \A s \in TurnKeys : turns'[s] # None =>
         Facts(turns[s])' /\ Links(s)' /\ (Sent(s) \/ (Authority(s)' /\ ParentSent(s)'))
  BY <1>15, <1>16, <1>17
<1> QED BY <1>13, <1>14, <1>18, <1>19, RowsKeep

-----------------------------------------------------------------------------
(* Theorems *)

LEMMA InitIInv == Init => IInv
<1> SUFFICES ASSUME Init PROVE IInv
  OBVIOUS
<1> USE DEF Init, Sent
<1>1. TypeOK
  <2>1. /\ turns \in [TurnKeys -> {None} \cup TurnRow]
        /\ requests \in [Clients -> {None} \cup Request]
    OBVIOUS
  <2>2. 0 \in 0..MaxChanges
    OBVIOUS
  <2> QED BY <2>1, <2>2 DEF TypeOK
<1>2. AnswersAreLinked /\ AnswersAddNoAuthority /\ PlansTheRecordNamed
  BY <1>1 DEF AnswersAreLinked, AnswersAddNoAuthority, PlansTheRecordNamed
<1>3. RowsHold /\ RequestsHold /\ ParentsSent /\ ProposalsOfTurns
  BY DEF RowsHold, RequestsHold, ParentsSent, ProposalsOfTurns
<1> QED BY <1>2, <1>3 DEF IInv

LEMMA NextIInv == IInv /\ [Next]_vars => IInv'
<1> SUFFICES ASSUME IInv, [Next]_vars PROVE IInv'
  OBVIOUS
<1>1. CASE UNCHANGED vars
  <2>1. /\ UNCHANGED <<turns, proposals, permitted, requests, changes>>
    BY <1>1 DEF vars
  <2>2. permitted' \subseteq Records /\ changes' \in 0..MaxChanges
        /\ requests' \in [Clients -> {None} \cup Request]
    BY <2>1 DEF IInv, AnswersAreLinked, TypeOK
  <2> QED BY <2>1, <2>2, TurnsUnchanged
<1>2. ASSUME NEW c \in Clients, NEW t \in TurnKeys,
             \/ \E action \in Actions, scope \in Scopes : Asks(c, t, action, scope)
             \/ \E p \in TurnKeys, reply \in Replies : Answers(c, t, p, reply)
             \/ \E handoff \in HandoffKinds, k \in Keys : Accepts(c, t, handoff, k)
      PROVE  IInv'
  BY <1>2, AsksKeeps, AnswersKeeps, AcceptsKeeps
<1>3. ASSUME NEW c \in Clients,
             Submit(c) \/ Resubmit(c) \/ AskBack(c) \/ AcceptHandoff(c) \/ Abort(c)
      PROVE  IInv'
  BY <1>3, SubmitKeeps, ResubmitKeeps, AskBackKeeps, AcceptHandoffKeeps, AbortKeeps
<1>4. CASE \/ \E t \in TurnKeys : TurnExpires(t) \/ ClarificationExpires(t)
           \/ \E record \in Records : Withdraw(record)
  BY <1>4, ChangesKeep
<1> QED BY <1>1, <1>2, <1>3, <1>4 DEF Next

LEMMA Invariant == Spec => []IInv
BY InitIInv, NextIInv, PTL DEF Spec

(* The turn that names the record a user was asked for offers what the turn that asked had
   offered, for its action and on its page, whatever was submitted, withdrawn and expired in
   between (_exact_record_continuation_intent). *)
THEOREM AnswersAddNoAuthorityCorrect == Spec => []AnswersAddNoAuthority
<1>1. IInv => AnswersAddNoAuthority
  BY DEF IInv
<1> QED BY <1>1, Invariant, PTL

(* Questions and answers name each other, however many answers race, and a turn that has its
   record is never asked for one (submit, _clarification_lineage); rows and requests are of
   their types. *)
THEOREM AnswersAreLinkedCorrect == Spec => []AnswersAreLinked
<1>1. IInv => AnswersAreLinked
  BY DEF IInv
<1> QED BY <1>1, Invariant, PTL

(* A form is planned for the record verified for its turn, else for the only one its page
   names (request_workflow_proposal). *)
THEOREM PlansTheRecordNamedCorrect == Spec => []PlansTheRecordNamed
<1>1. IInv => PlansTheRecordNamed
  BY DEF IInv
<1> QED BY <1>1, Invariant, PTL
=============================================================================
