---------------------- MODULE ProposalLifecycleProofs ----------------------
(***************************************************************************)
(* Proofs about ProposalLifecycle for any proposals, reviewers, numbers of  *)
(* concurrent requests and authorizations, and every bound; and about the   *)
(* validation in WorkflowGraph of the graphs that are published.            *)
(***************************************************************************)
EXTENDS ProposalLifecycle, FiniteSetTheorems, SequenceTheorems, WellFoundedInduction, TLAPS

USE UsersAssumption, BoundsAssumption

(* The requests that have locked a proposal or an authorization. *)
HoldsProposal(c) == requests[c] # None /\ requests[c].endpoint \in {"publish", "start"}
HoldsAuth(c) == requests[c] # None /\ requests[c].endpoint \in {"consume", "verify"}

(* A lock has one holder. *)
Exclusive ==
  \A c, d \in Clients :
    /\ HoldsProposal(c) /\ HoldsProposal(d) /\ requests[c].proposal = requests[d].proposal => c = d
    /\ HoldsAuth(c) /\ HoldsAuth(d) /\ requests[c].auth = requests[d].auth => c = d

(* The snapshot behind a lock shows the locked row as it is: a proposal in every
   field, an authorization in all but its time limit. *)
FreshProposal ==
  \A c \in Clients : HoldsProposal(c) =>
    LET p == requests[c].proposal IN
    proposals[p] # None /\ requests[c].view.proposals[p] = proposals[p]
FreshAuth ==
  \A c \in Clients : HoldsAuth(c) =>
    LET a == requests[c].auth
        seen == requests[c].view.auths[a]
    IN /\ auths[a] # None /\ seen # None
       /\ seen.status = auths[a].status /\ seen.uses = auths[a].uses
       /\ seen.absent = auths[a].absent
       /\ requests[c].endpoint = "verify" => requests[c].token \in Nat

(* A review was begun on a proposal with the operation it still has. *)
ReviewsExist ==
  \A c \in Clients : (requests[c] # None /\ requests[c].endpoint = "review") =>
    LET p == requests[c].proposal
        seen == requests[c].view.proposals[p]
    IN proposals[p] # None /\ seen # None /\ seen.op = proposals[p].op

(* One approval is left for the publication of an approved proposal. *)
Published(p) == {w \in DOMAIN workflows : workflows[w].label[1] = p}
Counted ==
  \A p \in Proposals :
    LET row == proposals[p]
        published == Cardinality(Published(p))
    IN IF row = None THEN published = 0
       ELSE IF row.status = "Approved" THEN published + 1 <= row.decisions
       ELSE published <= row.decisions

(* A published proposal, and a mission, name a version that holds its graph. *)
Names(p, w, v) == v \in DOMAIN versions /\ versions[v] = [workflow |-> w, content |-> p]
Pinned ==
  /\ \A p \in Proposals : (proposals[p] # None /\ proposals[p].status = "Published") =>
       Names(p, proposals[p].workflow, proposals[p].version)
  /\ \A k \in Keys : missions[k] # None =>
       Names(missions[k].proposal, missions[k].workflow, missions[k].version)

(* How often an authorization was consumed, and what a receipt says, is in its status. *)
Receipts ==
  \A a \in Auths : auths[a] # None =>
    /\ auths[a].uses = IF auths[a].status \in {"Issued", "Expired"} THEN 0 ELSE 1
    /\ auths[a].status = "Verified" => auths[a].absent

IInv ==
  /\ ApprovalsAreDual /\ Exclusive /\ FreshProposal /\ FreshAuth /\ ReviewsExist
  /\ Counted /\ Pinned /\ Receipts

-----------------------------------------------------------------------------
(* Requests and locks *)

LEMMA NotNull ==
  /\ \A row \in ProposalRow : row # None
  /\ \A row \in AuthRow : row # None
  /\ \A r \in Request : r # None
BY NoneAssumption

(* The endpoint of a request says which fields it carries and what it locks. *)
LEMMA RequestFields ==
  ASSUME NEW r \in Request
  PROVE  /\ r # None /\ r.proposal \in Proposals /\ r.view \in ViewType
         /\ r.endpoint \in {"plan", "review", "publish", "start", "issue", "consume", "verify"}
         /\ r.endpoint = "plan" => r \in PlanRequest
         /\ r.endpoint = "review" => r \in ReviewRequest
         /\ r.endpoint = "publish" => r \in PublishRequest
         /\ r.endpoint = "start" => r \in StartRequest
         /\ r.endpoint \in {"issue", "consume"} => r \in IssueRequest
         /\ r.endpoint = "verify" => r \in VerifyRequest
BY NotNull DEF Request, PlanRequest, ReviewRequest, PublishRequest, StartRequest, IssueRequest,
               VerifyRequest

LEMMA LockFacts ==
  ASSUME NEW r \in Request
  PROVE  /\ r.endpoint \in {"publish", "start"} => LockOf(r) = {<<"proposal", r.proposal>>}
         /\ r.endpoint \in {"consume", "verify"} => LockOf(r) = {<<"authorization", r.auth>>}
         /\ r.endpoint \in {"plan", "review", "issue"} => LockOf(r) = {}
BY RequestFields DEF LockOf

LEMMA ViewTyped == ASSUME TypeOK PROVE View \in ViewType
BY DEF TypeOK, View, ViewType

(* A lock that nobody holds, or that nobody else holds. *)
LEMMA FreeProposal ==
  ASSUME TypeOK, NEW p \in Proposals, ~Locked(<<"proposal", p>>)
  PROVE  \A d \in Clients : HoldsProposal(d) => requests[d].proposal # p
BY LockFacts DEF TypeOK, Locked, HoldsProposal

LEMMA FreeAuth ==
  ASSUME TypeOK, NEW a \in Auths, ~Locked(<<"authorization", a>>)
  PROVE  \A d \in Clients : HoldsAuth(d) => requests[d].auth # a
BY LockFacts DEF TypeOK, Locked, HoldsAuth

LEMMA OnlyProposalHolder ==
  ASSUME TypeOK, NEW c \in Clients, NEW p \in Proposals, ~LockedByOther(c, <<"proposal", p>>)
  PROVE  \A d \in Clients \ {c} : HoldsProposal(d) => requests[d].proposal # p
BY LockFacts DEF TypeOK, LockedByOther, HoldsProposal

LEMMA OnlyAuthHolder ==
  ASSUME TypeOK, NEW c \in Clients, NEW a \in Auths, ~LockedByOther(c, <<"authorization", a>>)
  PROVE  \A d \in Clients \ {c} : HoldsAuth(d) => requests[d].auth # a
BY LockFacts DEF TypeOK, LockedByOther, HoldsAuth

(* Only the request that returns changes. *)
LEMMA Returned ==
  ASSUME TypeOK, NEW c \in Clients, Return(c)
  PROVE  /\ requests' \in [Clients -> {None} \cup Request] /\ changes' \in 0 .. MaxChanges
         /\ requests'[c] = None /\ \A d \in Clients \ {c} : requests'[d] = requests[d]
BY DEF TypeOK, Return

(* Requests that return leave locks, and what was read behind them, as they are. *)
LEMMA ReturnKeepsLocks ==
  ASSUME IInv, NEW c \in Clients, Return(c)
  PROVE  /\ Exclusive'
         /\ UNCHANGED proposals => FreshProposal' /\ ReviewsExist'
         /\ UNCHANGED auths => FreshAuth'
<1>1. requests'[c] = None /\ \A d \in Clients \ {c} : requests'[d] = requests[d]
  BY Returned DEF IInv, ApprovalsAreDual
<1>2. \A d \in Clients : /\ HoldsProposal(d)' => HoldsProposal(d) /\ requests'[d] = requests[d]
                         /\ HoldsAuth(d)' => HoldsAuth(d) /\ requests'[d] = requests[d]
  BY <1>1 DEF HoldsProposal, HoldsAuth
<1>3. Exclusive'
  BY <1>2 DEF IInv, Exclusive
<1>4. UNCHANGED proposals => FreshProposal' /\ ReviewsExist'
  BY <1>1, <1>2 DEF IInv, FreshProposal, ReviewsExist
<1>5. UNCHANGED auths => FreshAuth'
  BY <1>1, <1>2 DEF IInv, FreshAuth
<1> QED BY <1>3, <1>4, <1>5

(* What a request reads when it begins is what is there. *)
LEMMA BeginKeeps ==
  ASSUME IInv, NEW c \in Clients, NEW r \in Request, Begin(c, r), r.view = View,
         r.endpoint \in {"review", "publish", "start"} => proposals[r.proposal] # None,
         r.endpoint \in {"consume", "verify"} => auths[r.auth] # None
  PROVE  IInv'
<1> USE DEF IInv
<1>1. /\ requests' \in [Clients -> {None} \cup Request]
      /\ requests'[c] = r /\ \A d \in Clients \ {c} : requests'[d] = requests[d]
      /\ UNCHANGED <<proposals, workflows, versions, missions, auths, record, live, changes>>
  BY DEF ApprovalsAreDual, TypeOK, Begin, committed
<1>2. ApprovalsAreDual'
  BY <1>1 DEF ApprovalsAreDual, TypeOK
<1>3. r # None /\ r.proposal \in Proposals
  BY RequestFields
<1>4. r.endpoint \in {"publish", "start"} =>
        \A d \in Clients : HoldsProposal(d) => requests[d].proposal # r.proposal
  BY <1>3, FreeProposal, LockFacts DEF Begin, ApprovalsAreDual
<1>5. r.endpoint \in {"consume", "verify"} =>
        /\ r.auth \in Auths
        /\ \A d \in Clients : HoldsAuth(d) => requests[d].auth # r.auth
  <2>1. r.endpoint \in {"consume", "verify"} => r.auth \in Auths
    BY RequestFields DEF IssueRequest, VerifyRequest
  <2> QED BY <2>1, FreeAuth, LockFacts DEF Begin, ApprovalsAreDual
<1>6. Exclusive'
  BY <1>1, <1>4, <1>5 DEF Exclusive, HoldsProposal, HoldsAuth
<1>7. FreshProposal'
  BY <1>1 DEF FreshProposal, HoldsProposal, View
<1>8. FreshAuth'
  <2>1. r.endpoint = "verify" => r.token \in Nat
    BY RequestFields DEF VerifyRequest
  <2> QED BY <1>1, <2>1 DEF FreshAuth, HoldsAuth, View
<1>9. ReviewsExist'
  BY <1>1 DEF ReviewsExist, View
<1>10. Counted' /\ Pinned' /\ Receipts'
  BY <1>1 DEF Counted, Published, Pinned, Names, Receipts
<1> QED BY <1>2, <1>6, <1>7, <1>8, <1>9, <1>10

-----------------------------------------------------------------------------
(* What the actions keep *)

(* The workflows of a proposal are finitely many, and one more is one more. *)
LEMMA PublishedFinite ==
  ASSUME workflows \in Seq(WorkflowRow), NEW p \in Proposals
  PROVE  IsFiniteSet(Published(p)) /\ Cardinality(Published(p)) \in Nat
<1>1. Published(p) \subseteq 1 .. Len(workflows) /\ Len(workflows) \in Nat
  BY LenProperties DEF Published
<1>2. IsFiniteSet(1 .. Len(workflows))
  BY <1>1, FS_Interval
<1>3. IsFiniteSet(Published(p))
  BY <1>1, <1>2, FS_Subset
<1> QED BY <1>3, FS_CardinalityType

(* Requests that begin *)
LEMMA BeginRequestKeeps == ASSUME IInv, NEW c \in Clients, BeginRequest(c) PROVE IInv'
<1> View \in ViewType
  BY ViewTyped DEF IInv, ApprovalsAreDual
<1>1. ASSUME NEW p \in Proposals, NEW o \in Operations, Plans(c, p, o) PROVE IInv'
  <2> DEFINE r == [endpoint |-> "plan", proposal |-> p, op |-> o, auth |-> None, view |-> View]
  <2>1. r \in PlanRequest
    BY DEF PlanRequest
  <2>2. r \in Request
    BY <2>1 DEF Request
  <2> QED BY <1>1, <2>2, BeginKeeps DEF Plans
<1>2. ASSUME NEW p \in Proposals, NEW u \in Reviewers \cup {Requester}, NEW approve \in BOOLEAN,
             Reviews(c, u, p, approve)
      PROVE  IInv'
  <2> DEFINE r == [endpoint |-> "review", proposal |-> p, user |-> u, approve |-> approve,
                   auth |-> None, view |-> View]
  <2>1. r \in ReviewRequest
    BY DEF ReviewRequest
  <2>2. r \in Request
    BY <2>1 DEF Request
  <2> QED BY <1>2, <2>2, BeginKeeps DEF Reviews
<1>3. ASSUME NEW p \in Proposals, Publishes(c, p) PROVE IInv'
  <2> DEFINE r == [endpoint |-> "publish", proposal |-> p, auth |-> None, view |-> View]
  <2>1. r \in PublishRequest
    BY DEF PublishRequest
  <2>2. r \in Request
    BY <2>1 DEF Request
  <2> QED BY <1>3, <2>2, BeginKeeps DEF Publishes
<1>4. ASSUME NEW p \in Proposals, NEW k \in Keys, Starts(c, p, k) PROVE IInv'
  <2> DEFINE r == [endpoint |-> "start", proposal |-> p, key |-> k, auth |-> None, view |-> View]
  <2>1. r \in StartRequest
    BY DEF StartRequest
  <2>2. r \in Request
    BY <2>1 DEF Request
  <2> QED BY <1>4, <2>2, BeginKeeps DEF Starts
<1>5. ASSUME NEW p \in Proposals, NEW a \in Auths, Issues(c, p, a) PROVE IInv'
  <2> DEFINE r == [endpoint |-> "issue", proposal |-> p, auth |-> a, view |-> View]
  <2>1. r \in IssueRequest
    BY DEF IssueRequest
  <2>2. r \in Request
    BY <2>1 DEF Request
  <2> QED BY <1>5, <2>2, BeginKeeps DEF Issues
<1>6. ASSUME NEW a \in Auths, Consumes(c, a) PROVE IInv'
  <2> DEFINE r == [endpoint |-> "consume", proposal |-> auths[a].proposal, auth |-> a,
                   view |-> View]
  <2>1. auths[a] \in AuthRow
    BY <1>6 DEF Consumes, IInv, ApprovalsAreDual, TypeOK
  <2>2. r \in IssueRequest
    BY <2>1 DEF IssueRequest, AuthRow
  <2>3. r \in Request
    BY <2>2 DEF Request
  <2> QED BY <1>6, <2>3, BeginKeeps DEF Consumes
<1>7. ASSUME NEW a \in Auths, NEW t \in 1 .. Cardinality(Clients), Verifies(c, a, t) PROVE IInv'
  <2> DEFINE r == [endpoint |-> "verify", proposal |-> auths[a].proposal, auth |-> a,
                   token |-> t, view |-> View]
  <2>1. auths[a] \in AuthRow
    BY <1>7 DEF Verifies, IInv, ApprovalsAreDual, TypeOK
  <2>2. t \in Nat
    BY <1>7, <2>1 DEF Verifies, AuthRow
  <2>3. r \in VerifyRequest
    BY <2>1, <2>2 DEF VerifyRequest, AuthRow
  <2>4. r \in Request
    BY <2>3 DEF Request
  <2> QED BY <1>7, <2>4, BeginKeeps DEF Verifies
<1> QED BY <1>1, <1>2, <1>3, <1>4, <1>5, <1>6, <1>7 DEF BeginRequest

(* A request that returns without writing *)
LEMMA ReturnKeeps ==
  ASSUME IInv, NEW c \in Clients, Return(c), UNCHANGED committed
  PROVE  IInv'
<1>1. UNCHANGED <<proposals, workflows, versions, missions, auths, record, live>>
  BY DEF committed
<1>2. ApprovalsAreDual'
  BY <1>1, Returned DEF IInv, ApprovalsAreDual, TypeOK
<1>3. Exclusive' /\ FreshProposal' /\ FreshAuth' /\ ReviewsExist'
  BY <1>1, ReturnKeepsLocks
<1>4. Counted' /\ Pinned' /\ Receipts'
  BY <1>1 DEF IInv, Counted, Published, Pinned, Names, Receipts
<1> QED BY <1>2, <1>3, <1>4 DEF IInv

(* A planned proposal is new: nobody has locked, reviewed or published it. *)
(* A request that returns leaves the locked rows of the others as they are. *)
LEMMA FreshAuthKept ==
  ASSUME FreshAuth, NEW c \in Clients, requests'[c] = None,
         \A d \in Clients \ {c} : requests'[d] = requests[d],
         \A d \in Clients \ {c} : HoldsAuth(d) => auths'[requests[d].auth] = auths[requests[d].auth]
  PROVE  FreshAuth'
<1>1. \A d \in Clients : HoldsAuth(d)' =>
        d \in Clients \ {c} /\ requests'[d] = requests[d] /\ HoldsAuth(d)
  BY DEF HoldsAuth
<1> QED BY <1>1 DEF FreshAuth

LEMMA FreshProposalKept ==
  ASSUME FreshProposal, NEW c \in Clients, requests'[c] = None,
         \A d \in Clients \ {c} : requests'[d] = requests[d],
         \A d \in Clients \ {c} : HoldsProposal(d) =>
           proposals'[requests[d].proposal] = proposals[requests[d].proposal]
  PROVE  FreshProposal'
<1>1. \A d \in Clients : HoldsProposal(d)' =>
        d \in Clients \ {c} /\ requests'[d] = requests[d] /\ HoldsProposal(d)
  BY DEF HoldsProposal
<1> QED BY <1>1 DEF FreshProposal

LEMMA InsertProposalKeeps == ASSUME IInv, NEW c \in Clients, InsertProposal(c) PROVE IInv'
<1> DEFINE r == requests[c]
           p == r.proposal
           row == [op |-> r.op, schema |-> r.view.live.schema, status |-> "Proposed",
                   reviewer |-> None, proof |-> None, workflow |-> 0, version |-> 0,
                   decisions |-> 0]
<1>1. Return(c) /\ UNCHANGED <<workflows, versions, missions, auths, record, live>>
  BY DEF InsertProposal
<1>2. CASE proposals[p] # None
  BY <1>1, <1>2, ReturnKeeps DEF InsertProposal, committed
<1>3. CASE proposals[p] = None
  <2>1. r \in Request /\ p \in Proposals /\ r \in PlanRequest
    BY RequestFields DEF InsertProposal, IInv, ApprovalsAreDual, TypeOK
  <2>2. row \in ProposalRow
    BY <2>1 DEF PlanRequest, ViewType, LiveType, ProposalRow
  <2>3. /\ proposals' \in [Proposals -> {None} \cup ProposalRow]
        /\ proposals'[p] = row /\ row # None
        /\ \A q \in Proposals \ {p} : proposals'[q] = proposals[q]
    BY <1>3, <2>1, <2>2, NotNull DEF InsertProposal, IInv, ApprovalsAreDual, TypeOK
  <2>4. ApprovalsAreDual'
    <3>1. TypeOK'
      BY <1>1, <2>3, Returned DEF IInv, ApprovalsAreDual, TypeOK
    <3>2. row.status = "Proposed"
      OBVIOUS
    <3> HIDE DEF row
    <3> QED BY <1>1, <2>1, <2>3, <3>1, <3>2 DEF IInv, ApprovalsAreDual
  <2>5. Exclusive' /\ FreshAuth'
    BY <1>1, ReturnKeepsLocks
  <2>6. requests'[c] = None /\ \A d \in Clients \ {c} : requests'[d] = requests[d]
    BY <1>1, Returned DEF IInv, ApprovalsAreDual
  <2>7. FreshProposal' /\ ReviewsExist'
    <3>1. \A d \in Clients : requests[d] # None => requests[d].proposal \in Proposals
      BY RequestFields DEF IInv, ApprovalsAreDual, TypeOK
    <3>2. \A d \in Clients \ {c} : HoldsProposal(d) =>
            proposals'[requests[d].proposal] = proposals[requests[d].proposal]
      BY <1>3, <2>3, <3>1 DEF IInv, FreshProposal, HoldsProposal
    <3>3. FreshProposal'
      BY <2>6, <3>2, FreshProposalKept DEF IInv
    <3>4. ReviewsExist'
      <4> HIDE DEF row
      <4> QED BY <1>3, <2>3, <2>6, <3>1 DEF IInv, ReviewsExist
    <3> QED BY <3>3, <3>4
  <2>8. Counted'
    BY <1>1, <1>3, <2>1, <2>3 DEF IInv, Counted, Published
  <2>9. Pinned' /\ Receipts'
    BY <1>1, <2>1, <2>3 DEF IInv, Pinned, Names, Receipts
  <2> QED BY <2>4, <2>5, <2>7, <2>8, <2>9 DEF IInv
<1> QED BY <1>2, <1>3

(* What a review writes, whatever it saw. *)
LEMMA DecisionTyped ==
  ASSUME NEW row \in ProposalRow, NEW user \in Reviewers \cup {Requester}, NEW approve \in BOOLEAN,
         NEW view, view.record.rev \in Nat, user \in Reviewers \/ row.op # "delete" \/ ~approve,
         NEW new, new = Decision(view, row, user, approve)
  PROVE  /\ new \in ProposalRow /\ new # None /\ new.op = row.op /\ new.reviewer = user
         /\ approve => new.status = "Approved" /\ new.decisions = row.decisions + 1
         /\ ~approve => new.status = "Rejected" /\ new.decisions = row.decisions
<1>1. CASE ~approve
  <2>1. new = [row EXCEPT !.status = "Rejected", !.reviewer = user]
    BY <1>1 DEF Decision
  <2>2. new = [op |-> row.op, schema |-> row.schema, status |-> "Rejected", reviewer |-> user,
               proof |-> row.proof, workflow |-> row.workflow, version |-> row.version,
               decisions |-> row.decisions]
    BY <2>1 DEF ProposalRow
  <2>3. new \in ProposalRow
    BY <2>2 DEF ProposalRow
  <2> QED BY <1>1, <2>2, <2>3, NotNull
<1>2. CASE approve
  <2>1. PICK proof \in {None} \cup Evidence :
          new = [row EXCEPT !.status = "Approved", !.reviewer = user, !.decisions = @ + 1,
                            !.proof = proof]
    <3>1. row.proof \in {None} \cup Evidence
      BY DEF ProposalRow
    <3> QED BY <1>2, <3>1 DEF Decision, Evidence
  <2>2. new = [op |-> row.op, schema |-> row.schema, status |-> "Approved", reviewer |-> user,
               proof |-> proof, workflow |-> row.workflow, version |-> row.version,
               decisions |-> row.decisions + 1]
    BY <2>1 DEF ProposalRow
  <2>3. new \in ProposalRow
    BY <2>2 DEF ProposalRow
  <2>4. new # None
    BY <2>3, NotNull
  <2>5. new.op = row.op /\ new.reviewer = user /\ new.status = "Approved"
    BY <2>2
  <2>6. new.decisions = row.decisions + 1
    BY <2>2
  <2> QED BY <1>2, <2>3, <2>4, <2>5, <2>6
<1> QED BY <1>1, <1>2

(* A review is written over the row as it is, and a publication waits for it. *)
LEMMA DecideKeeps == ASSUME IInv, NEW c \in Clients, Decide(c) PROVE IInv'
<1> DEFINE r == requests[c]
           p == r.proposal
           seen == r.view.proposals[p]
<1>0. PICK row : row = Decision(r.view, proposals[p], r.user, r.approve)
  OBVIOUS
<1>1. Return(c) /\ UNCHANGED <<workflows, versions, missions, auths, record, live>>
  BY DEF Decide
<1>2. CASE ~DecisionAllowed(r.view, seen, r.user, r.approve)
  BY <1>1, <1>2, ReturnKeeps DEF Decide, committed
<1>3. CASE DecisionAllowed(r.view, seen, r.user, r.approve)
  <2>1. r \in Request /\ p \in Proposals /\ r \in ReviewRequest /\ r # None /\ r.endpoint = "review"
    BY RequestFields DEF Decide, IInv, ApprovalsAreDual, TypeOK
  <2>2. proposals[p] \in ProposalRow /\ seen # None /\ seen.op = proposals[p].op
    BY <2>1 DEF IInv, ReviewsExist, ApprovalsAreDual, TypeOK
  <2>3. r.user \in Reviewers \cup {Requester} /\ r.user # None /\ r.approve \in BOOLEAN
    BY <2>1 DEF ReviewRequest
  <2>4. r.view.record.rev \in Nat /\ r.view.live.roles \subseteq Reviewers \cup {Requester}
    BY <2>1 DEF ReviewRequest, ViewType, RecordType, LiveType
  <2>5. r.approve => (seen.op \in {"update", "delete"} => r.user # Requester)
    BY <1>3 DEF DecisionAllowed, MayReview
  <2>6. r.user \in Reviewers \/ proposals[p].op # "delete" \/ ~r.approve
    BY <2>2, <2>3, <2>5
  <2>7. /\ row \in ProposalRow /\ row # None /\ row.op = proposals[p].op
        /\ row.reviewer = r.user
        /\ r.approve => row.status = "Approved" /\ row.decisions = proposals[p].decisions + 1
        /\ ~r.approve => row.status = "Rejected" /\ row.decisions = proposals[p].decisions
    <3>1. PICK view, user, approve, old :
            view = r.view /\ user = r.user /\ approve = r.approve /\ old = proposals[p]
      OBVIOUS
    <3> QED BY <1>0, <2>2, <2>3, <2>4, <2>6, <3>1, DecisionTyped
  <2>8. /\ proposals' \in [Proposals -> {None} \cup ProposalRow]
        /\ proposals'[p] = row /\ \A q \in Proposals \ {p} : proposals'[q] = proposals[q]
    BY <1>0, <1>3, <2>1, <2>7 DEF Decide, IInv, ApprovalsAreDual, TypeOK
  <2>9. ApprovalsAreDual'
    <3>1. TypeOK'
      BY <1>1, <2>8, Returned DEF IInv, ApprovalsAreDual, TypeOK
    <3>2. (row.op \in {"update", "delete"} /\ row.status \in {"Approved", "Published"})
            => row.reviewer \notin {Requester, None}
      BY <2>2, <2>3, <2>5, <2>7
    <3> QED BY <1>1, <2>1, <2>8, <3>1, <3>2 DEF IInv, ApprovalsAreDual
  <2>10. Exclusive' /\ FreshAuth'
    BY <1>1, ReturnKeepsLocks
  <2>11. requests'[c] = None /\ \A d \in Clients \ {c} : requests'[d] = requests[d]
    BY <1>1, Returned DEF IInv, ApprovalsAreDual
  <2>12. \A d \in Clients : requests[d] # None => requests[d].proposal \in Proposals
    BY RequestFields DEF IInv, ApprovalsAreDual, TypeOK
  <2>13. FreshProposal'
    <3>1. \A d \in Clients \ {c} : HoldsProposal(d) => requests[d].proposal # p
      BY <2>1, OnlyProposalHolder DEF Decide, IInv, ApprovalsAreDual
    <3>2. \A d \in Clients \ {c} : HoldsProposal(d) =>
            proposals'[requests[d].proposal] = proposals[requests[d].proposal]
      BY <2>8, <2>12, <3>1 DEF HoldsProposal
    <3> QED BY <2>11, <3>2, FreshProposalKept DEF IInv
  <2>14. ReviewsExist'
    BY SMTT(30), <2>7, <2>8, <2>11, <2>12 DEF IInv, ReviewsExist
  <2>15. Counted'
    <3>1. \A q \in Proposals : Published(q)' = Published(q)
      BY <1>1 DEF Published
    <3>2. Cardinality(Published(p)) \in Nat
      BY <2>1, PublishedFinite DEF IInv, ApprovalsAreDual, TypeOK
    <3>3. row.decisions \in Nat /\ proposals[p].decisions \in Nat
      BY <2>2, <2>7 DEF ProposalRow
    <3>4. /\ proposals'[p] # None
          /\ \/ /\ proposals'[p].status = "Approved"
                /\ proposals'[p].decisions = proposals[p].decisions + 1
             \/ /\ proposals'[p].status = "Rejected"
                /\ proposals'[p].decisions = proposals[p].decisions
      BY <2>7, <2>8
    <3>5. proposals[p] # None /\ Cardinality(Published(p)) <= proposals[p].decisions
      BY <2>1, <2>2, <3>2, <3>3, NotNull DEF IInv, Counted
    <3> QED BY <2>1, <2>8, <3>1, <3>2, <3>3, <3>4, <3>5 DEF IInv, Counted
  <2>16. Pinned' /\ Receipts'
    BY <1>1, <2>7, <2>8 DEF IInv, Pinned, Names, Receipts
  <2> QED BY <2>9, <2>10, <2>13, <2>14, <2>15, <2>16 DEF IInv
<1> QED BY <1>2, <1>3

(* A new workflow counts for the proposal its label names, and for no other. *)
LEMMA LabelAppended ==
  ASSUME workflows \in Seq(WorkflowRow), NEW p \in Proposals, NEW row \in WorkflowRow,
         row.label[1] = p, workflows' = Append(workflows, row)
  PROVE  /\ \A q \in Proposals \ {p} : Published(q)' = Published(q)
         /\ Published(p)' = Published(p) \cup {Len(workflows) + 1}
         /\ Len(workflows) + 1 \notin Published(p)
<1>1. /\ Len(workflows) \in Nat /\ DOMAIN workflows = 1 .. Len(workflows)
      /\ DOMAIN workflows' = 1 .. Len(workflows) + 1
      /\ workflows'[Len(workflows) + 1] = row
      /\ \A i \in 1 .. Len(workflows) : workflows'[i] = workflows[i]
  BY AppendProperties, LenProperties
<1> QED BY <1>1 DEF Published

(* A publication was approved, and its version is the next one. *)
LEMMA PublishProposalKeeps ==
  ASSUME IInv, NEW c \in Clients, PublishProposal(c),
         NEW p \in Proposals, p = requests[c].proposal,
         NEW w \in Nat, w = Len(workflows) + 1, NEW v \in Nat, v = Len(versions) + 1
  PROVE  IInv'
<1> DEFINE r == requests[c]
           label == UniqueLabel(r.view, p)
           workflow == [label |-> label, content |-> p, status |-> "Published", published |-> v]
           version == [workflow |-> w, content |-> p]
<1>0. PICK row : row = [proposals[p] EXCEPT !.status = "Published", !.workflow = w, !.version = v]
  OBVIOUS
<1>1. Return(c) /\ UNCHANGED <<missions, auths, record, live>>
  BY DEF PublishProposal
<1>2. CASE ~(Publishable(r.view, p) /\ label \notin Labels(workflows))
  BY <1>1, <1>2, ReturnKeeps DEF PublishProposal, committed
<1>3. CASE Publishable(r.view, p) /\ label \notin Labels(workflows)
  <2>1. r \in Request /\ HoldsProposal(c)
    BY RequestFields DEF PublishProposal, IInv, ApprovalsAreDual, TypeOK, HoldsProposal
  <2>2. /\ workflows' = Append(workflows, workflow) /\ versions' = Append(versions, version)
        /\ proposals' = [proposals EXCEPT ![p].status = "Published", ![p].workflow = w,
                                          ![p].version = v]
    BY <1>3 DEF PublishProposal
  <2>3. proposals[p] \in ProposalRow /\ proposals[p].status = "Approved"
    BY <1>3, <2>1 DEF Publishable, IInv, FreshProposal, ApprovalsAreDual, TypeOK
  <2>5. workflow \in WorkflowRow /\ version \in VersionRow
    BY DEF UniqueLabel, WorkflowRow, VersionRow
  <2>6. /\ row \in ProposalRow /\ row # None /\ row.op = proposals[p].op
        /\ row.status = "Published" /\ row.reviewer = proposals[p].reviewer
        /\ row.workflow = w /\ row.version = v /\ row.decisions = proposals[p].decisions
    <3>1. row = [op |-> proposals[p].op, schema |-> proposals[p].schema, status |-> "Published",
                 reviewer |-> proposals[p].reviewer, proof |-> proposals[p].proof,
                 workflow |-> w, version |-> v, decisions |-> proposals[p].decisions]
      BY <1>0, <2>3 DEF ProposalRow
    <3>2. row \in ProposalRow
      BY <2>3, <3>1 DEF ProposalRow
    <3> QED BY <3>1, <3>2, NotNull
  <2>7. /\ proposals' \in [Proposals -> {None} \cup ProposalRow]
        /\ proposals'[p] = row /\ \A q \in Proposals \ {p} : proposals'[q] = proposals[q]
    BY <1>0, <2>1, <2>2, <2>6 DEF IInv, ApprovalsAreDual, TypeOK
  <2>8. ApprovalsAreDual'
    <3>1. workflows' \in Seq(WorkflowRow) /\ versions' \in Seq(VersionRow)
      BY <2>2, <2>5, AppendProperties DEF IInv, ApprovalsAreDual, TypeOK
    <3>2. TypeOK'
      BY <1>1, <2>7, <3>1, Returned DEF IInv, ApprovalsAreDual, TypeOK
    <3> QED BY <1>1, <2>1, <2>3, <2>6, <2>7, <3>2, NotNull DEF IInv, ApprovalsAreDual
  <2>9. Exclusive' /\ FreshAuth'
    BY <1>1, ReturnKeepsLocks
  <2>10. requests'[c] = None /\ \A d \in Clients \ {c} : requests'[d] = requests[d]
    BY <1>1, Returned DEF IInv, ApprovalsAreDual
  <2>11. \A d \in Clients : requests[d] # None => requests[d].proposal \in Proposals
    BY RequestFields DEF IInv, ApprovalsAreDual, TypeOK
  <2>12. FreshProposal'
    <3>1. \A d \in Clients \ {c} : HoldsProposal(d) => requests[d].proposal # p
      BY <2>1, OnlyProposalHolder DEF PublishProposal, IInv, ApprovalsAreDual
    <3> QED BY <2>7, <2>10, <2>11, <3>1 DEF IInv, FreshProposal, HoldsProposal
  <2>13. ReviewsExist'
    BY SMTT(30), <2>6, <2>7, <2>10, <2>11 DEF IInv, ReviewsExist
  <2>14. Counted'
    <3>1. /\ \A q \in Proposals \ {p} : Published(q)' = Published(q)
          /\ Published(p)' = Published(p) \cup {w} /\ w \notin Published(p)
      <4>1. workflow.label[1] = p
        BY DEF UniqueLabel
      <4>2. workflows \in Seq(WorkflowRow)
        BY DEF IInv, ApprovalsAreDual, TypeOK
      <4> HIDE DEF workflow
      <4> QED BY <2>1, <2>2, <2>5, <4>1, <4>2, LabelAppended
    <3>2. IsFiniteSet(Published(p)) /\ Cardinality(Published(p)) \in Nat
      BY <2>1, PublishedFinite DEF IInv, ApprovalsAreDual, TypeOK
    <3>3. Cardinality(Published(p))' = Cardinality(Published(p)) + 1
      BY <3>1, <3>2, FS_AddElement
    <3>4. Cardinality(Published(p)) + 1 <= proposals[p].decisions
      BY <2>1, <2>3, NotNull DEF IInv, Counted
    <3>5. \A q \in Proposals \ {p} : proposals'[q] = proposals[q]
                                     /\ Cardinality(Published(q))' = Cardinality(Published(q))
      BY <2>7, <3>1
    <3>6. /\ proposals'[p] # None /\ proposals'[p].status = "Published"
          /\ Cardinality(Published(p))' <= proposals'[p].decisions
      BY <2>6, <2>7, <3>3, <3>4
    <3> QED BY <2>1, <3>5, <3>6 DEF IInv, Counted
  <2>15. Pinned' /\ Receipts'
    <3>1. /\ versions \in Seq(VersionRow)
          /\ DOMAIN versions' = DOMAIN versions \cup {v} /\ versions'[v] = version
          /\ \A i \in DOMAIN versions : versions'[i] = versions[i]
      <4> HIDE DEF version
      <4> QED BY <2>2, <2>5, AppendProperties, LenProperties DEF IInv, ApprovalsAreDual, TypeOK
    <3>2. v \in DOMAIN versions' /\ versions'[v] = [workflow |-> w, content |-> p]
      BY <3>1
    <3> QED BY <1>1, <2>1, <2>6, <2>7, <3>1, <3>2 DEF IInv, Pinned, Names, Receipts
  <2> QED BY <2>8, <2>9, <2>12, <2>13, <2>14, <2>15 DEF IInv
<1> QED BY <1>2, <1>3

(* A mission that starts is pinned to the version its published proposal names. *)
LEMMA StartMissionKeeps ==
  ASSUME IInv, NEW c \in Clients, StartMission(c),
         NEW p \in Proposals, p = requests[c].proposal
  PROVE  IInv'
<1> DEFINE r == requests[c]
           k == r.key
           mission == [proposal |-> p, workflow |-> proposals[p].workflow,
                       version |-> proposals[p].version]
<1>1. Return(c) /\ UNCHANGED <<proposals, workflows, versions, auths, record, live>>
  BY DEF StartMission
<1>2. r \in StartRequest /\ HoldsProposal(c) /\ r.view \in ViewType
  BY RequestFields DEF StartMission, IInv, ApprovalsAreDual, TypeOK, HoldsProposal
<1>3. k \in Keys /\ r.view.proposals[p] = proposals[p] /\ proposals[p] \in ProposalRow
  BY SMTT(30), <1>2 DEF StartRequest, IInv, FreshProposal, ApprovalsAreDual, TypeOK
<1>4. \/ missions' = missions
      \/ missions' = [missions EXCEPT ![k] = mission] /\ proposals[p].status = "Published"
  BY <1>3 DEF StartMission, Startable, PinnedVersion
<1>5. mission \in MissionRow
  BY <1>3 DEF MissionRow, ProposalRow
<1>6. TypeOK'
  BY <1>1, <1>3, <1>4, <1>5, Returned DEF IInv, ApprovalsAreDual, TypeOK
<1>7. ApprovalsAreDual'
  BY <1>1, <1>6 DEF IInv, ApprovalsAreDual
<1>8. Exclusive' /\ FreshProposal' /\ FreshAuth' /\ ReviewsExist'
  BY <1>1, ReturnKeepsLocks
<1>9. Counted' /\ Receipts'
  BY <1>1 DEF IInv, Counted, Published, Receipts
<1>10. Pinned'
  <2>1. proposals[p].status = "Published" => Names(p, proposals[p].workflow, proposals[p].version)
    BY <1>3, NotNull DEF IInv, Pinned
  <2>2. \A j \in Keys : missions'[j] = missions[j]
                        \/ (missions'[j] = mission /\ proposals[p].status = "Published")
    BY <1>3, <1>4 DEF IInv, ApprovalsAreDual, TypeOK
  <2>3. \A j \in Keys : missions'[j] # None =>
          Names(missions'[j].proposal, missions'[j].workflow, missions'[j].version)
    BY <2>1, <2>2 DEF IInv, Pinned
  <2> QED BY <1>1, <2>3 DEF IInv, Pinned, Names
<1> QED BY <1>7, <1>8, <1>9, <1>10 DEF IInv

(* The evidence of an authorization is the second person's who reviewed. *)
LEMMA EvidenceIsDual ==
  ASSUME NEW view \in ViewType, NEW p \in Proposals, DeleteEvidence(view, p) # None
  PROVE  /\ DeleteEvidence(view, p) \in Evidence
         /\ DeleteEvidence(view, p)[1] # Requester
<1> DEFINE row == view.proposals[p]
<1>1. /\ DeleteEvidence(view, p) = <<row.reviewer, view.record.rev>>
      /\ row.op = "delete" /\ MayReview(view, row, row.reviewer)
  BY DEF DeleteEvidence
<1>2. row.reviewer # Requester /\ row.reviewer \in view.live.roles
  BY <1>1 DEF MayReview
<1>3. view.live.roles \subseteq Reviewers \cup {Requester} /\ view.record.rev \in Nat
  BY DEF ViewType, LiveType, RecordType
<1> QED BY <1>1, <1>2, <1>3 DEF Evidence

LEMMA InsertAuthorizationKeeps ==
  ASSUME IInv, NEW c \in Clients, InsertAuthorization(c) PROVE IInv'
<1> DEFINE r == requests[c]
           a == r.auth
           proof == DeleteEvidence(r.view, r.proposal)
           row == [proposal |-> r.proposal, status |-> "Issued", proof |-> proof,
                   late |-> FALSE, uses |-> 0, absent |-> FALSE]
<1>1. Return(c) /\ UNCHANGED <<proposals, workflows, versions, missions, record, live>>
  BY DEF InsertAuthorization
<1>2. CASE proof = None \/ auths[a] # None \/ r.view.auths[a] # None
  BY <1>1, <1>2, ReturnKeeps DEF InsertAuthorization, committed
<1>3. CASE proof # None /\ auths[a] = None /\ r.view.auths[a] = None
  <2>1. r \in IssueRequest /\ r.proposal \in Proposals /\ r.view \in ViewType /\ a \in Auths
    BY RequestFields DEF InsertAuthorization, IInv, ApprovalsAreDual, TypeOK, IssueRequest
  <2>2. proof \in Evidence /\ proof[1] # Requester
    BY <1>3, <2>1, EvidenceIsDual
  <2>3. row \in AuthRow /\ row # None
    BY <2>1, <2>2, NotNull DEF AuthRow
  <2>4. auths' = [auths EXCEPT ![a] = row]
    BY <1>3 DEF InsertAuthorization
  <2>5. /\ auths' \in [Auths -> {None} \cup AuthRow]
        /\ auths'[a] = row /\ \A b \in Auths \ {a} : auths'[b] = auths[b]
    BY <2>1, <2>3, <2>4 DEF IInv, ApprovalsAreDual, TypeOK
  <2>6. TypeOK'
    BY <1>1, <2>5, Returned DEF IInv, ApprovalsAreDual, TypeOK
  <2>7. ApprovalsAreDual'
    BY <1>1, <2>1, <2>2, <2>5, <2>6 DEF IInv, ApprovalsAreDual
  <2>8. Exclusive' /\ FreshProposal' /\ ReviewsExist'
    BY <1>1, ReturnKeepsLocks
  <2>9. FreshAuth'
    <3>1. requests'[c] = None /\ \A d \in Clients \ {c} : requests'[d] = requests[d]
      BY <1>1, Returned DEF IInv, ApprovalsAreDual
    <3>2. \A d \in Clients : HoldsAuth(d) => requests[d].auth \in Auths /\ requests[d].auth # a
      BY <1>3, RequestFields DEF IInv, ApprovalsAreDual, TypeOK, FreshAuth, HoldsAuth,
                                 IssueRequest, VerifyRequest
    <3>3. \A d \in Clients \ {c} :
            HoldsAuth(d) => auths'[requests[d].auth] = auths[requests[d].auth]
      BY <2>5, <3>2
    <3> QED BY <3>1, <3>3, FreshAuthKept DEF IInv
  <2>10. Counted' /\ Pinned'
    BY <1>1 DEF IInv, Counted, Published, Pinned, Names
  <2>11. Receipts'
    BY <2>1, <2>5 DEF IInv, Receipts
  <2> QED BY <2>7, <2>8, <2>9, <2>10, <2>11 DEF IInv
<1> QED BY <1>2, <1>3

(* A change of one authorization that keeps its receipt consistent; its holder, if
   any, is the request that returns. *)
LEMMA AuthorizationKeeps ==
  ASSUME IInv, NEW c \in Clients, NEW a \in Auths, NEW row \in AuthRow,
         Return(c), ~LockedByOther(c, <<"authorization", a>>),
         auths[a] # None, auths' = [auths EXCEPT ![a] = row], row.proof = auths[a].proof,
         row.uses = (IF row.status \in {"Issued", "Expired"} THEN 0 ELSE 1),
         row.status = "Verified" => row.absent,
         UNCHANGED <<proposals, workflows, versions, missions, record, live>>
  PROVE  IInv'
<1>1. /\ auths' \in [Auths -> {None} \cup AuthRow]
      /\ auths'[a] = row /\ \A b \in Auths \ {a} : auths'[b] = auths[b]
  BY DEF IInv, ApprovalsAreDual, TypeOK
<1>2. TypeOK'
  BY <1>1, Returned DEF IInv, ApprovalsAreDual, TypeOK
<1>3. ApprovalsAreDual'
  BY <1>1, <1>2 DEF IInv, ApprovalsAreDual
<1>4. Exclusive' /\ FreshProposal' /\ ReviewsExist'
  BY ReturnKeepsLocks
<1>5. FreshAuth'
  <2>1. requests'[c] = None /\ \A d \in Clients \ {c} : requests'[d] = requests[d]
    BY Returned DEF IInv, ApprovalsAreDual
  <2>2. \A d \in Clients \ {c} : HoldsAuth(d) => requests[d].auth \in Auths /\ requests[d].auth # a
    BY OnlyAuthHolder, RequestFields DEF IInv, ApprovalsAreDual, TypeOK, HoldsAuth,
                                         IssueRequest, VerifyRequest
  <2>3. \A d \in Clients \ {c} :
          HoldsAuth(d) => auths'[requests[d].auth] = auths[requests[d].auth]
    BY <1>1, <2>2
  <2> QED BY <2>1, <2>3, FreshAuthKept DEF IInv
<1>6. Counted' /\ Pinned'
  BY DEF IInv, Counted, Published, Pinned, Names
<1>7. Receipts'
  BY <1>1 DEF IInv, Receipts
<1> QED BY <1>3, <1>4, <1>5, <1>6, <1>7 DEF IInv

(* What a consumption finds and leaves: nothing happens, or an issued authorization
   expires unused, or it is consumed for the first time. *)
LEMMA ConsumeStep ==
  ASSUME IInv, NEW c \in Clients, ConsumeAuthorization(c),
         NEW a \in Auths, a = requests[c].auth
  PROVE  \/ UNCHANGED auths
         \/ /\ auths[a] \in AuthRow /\ auths[a].status = "Issued" /\ auths[a].uses = 0
            /\ \E row \in AuthRow :
                 /\ auths' = [auths EXCEPT ![a] = row] /\ row.proof = auths[a].proof
                 /\ \/ row.status = "Expired" /\ row.uses = 0
                    \/ row.status = "Consumed" /\ row.uses = 1
<1> DEFINE r == requests[c]
           seen == r.view.auths[a]
<1>1. r \in IssueRequest /\ r.view \in ViewType /\ HoldsAuth(c)
  BY RequestFields DEF ConsumeAuthorization, IInv, ApprovalsAreDual, TypeOK, HoldsAuth
<1>2. /\ auths[a] \in AuthRow /\ seen \in AuthRow
      /\ seen.status = auths[a].status /\ seen.uses = auths[a].uses
  BY SMTT(30), <1>1 DEF IInv, FreshAuth, ApprovalsAreDual, TypeOK, ViewType
<1>3. CASE seen.status # "Issued"
  BY <1>3 DEF ConsumeAuthorization, Consumed
<1>4. CASE seen.status = "Issued"
  <2>1. auths[a].uses = 0 /\ seen.uses = 0
    BY <1>2, <1>4, NotNull DEF IInv, Receipts
  <2>2. PICK new : new = Consumed(r.view, seen)
    OBVIOUS
  <2>3. CASE new = seen
    BY <2>2, <2>3 DEF ConsumeAuthorization
  <2>4. CASE new # seen
    <3>1. auths' = [auths EXCEPT ![a].status = new.status, ![a].late = new.late,
                                 ![a].uses = @ + (new.uses - seen.uses)]
      BY <2>2, <2>4 DEF ConsumeAuthorization
    <3>2. \/ new = [seen EXCEPT !.status = "Expired"]
          \/ new = [seen EXCEPT !.status = "Consumed", !.late = FALSE, !.uses = @ + 1]
      BY <1>4, <2>2, <2>4 DEF Consumed
    <3>3. /\ new.late \in BOOLEAN
          /\ \/ new.status = "Expired" /\ new.uses = 0
             \/ new.status = "Consumed" /\ new.uses = 1
      <4>1. CASE new = [seen EXCEPT !.status = "Expired"]
        BY <1>2, <2>1, <4>1 DEF AuthRow
      <4>2. CASE new = [seen EXCEPT !.status = "Consumed", !.late = FALSE, !.uses = @ + 1]
        <5>1. new.status = "Consumed" /\ new.late = FALSE
          BY <1>2, <4>2 DEF AuthRow
        <5>2. new.uses = 1
          BY <1>2, <2>1, <4>2 DEF AuthRow
        <5> QED BY <5>1, <5>2
      <4> QED BY <3>2, <4>1, <4>2
    <3>4. PICK row : row = [auths[a] EXCEPT !.status = new.status, !.late = new.late,
                                            !.uses = new.uses]
      OBVIOUS
    <3>5. row = [proposal |-> auths[a].proposal, status |-> new.status, proof |-> auths[a].proof,
                 late |-> new.late, uses |-> new.uses, absent |-> auths[a].absent]
      BY <1>2, <3>4 DEF AuthRow
    <3>6. row \in AuthRow
      BY <1>2, <3>3, <3>5 DEF AuthRow
    <3>7. auths[a].uses + (new.uses - seen.uses) = new.uses
      BY <2>1, <3>3
    <3>8. auths' = [auths EXCEPT ![a] = row]
      BY <1>2, <2>1, <3>1, <3>4, <3>7 DEF IInv, ApprovalsAreDual, TypeOK
    <3> QED BY <1>2, <1>4, <2>1, <3>3, <3>5, <3>6, <3>8, ZenonT(40)
  <2> QED BY <2>3, <2>4
<1> QED BY SMTT(30), <1>3, <1>4

LEMMA ConsumeAuthorizationKeeps ==
  ASSUME IInv, NEW c \in Clients, ConsumeAuthorization(c) PROVE IInv'
<1>1. PICK a \in Auths : a = requests[c].auth
  BY SMTT(30), RequestFields DEF ConsumeAuthorization, IInv, ApprovalsAreDual, TypeOK, IssueRequest
<1>2. /\ Return(c) /\ ~LockedByOther(c, <<"authorization", a>>)
      /\ UNCHANGED <<proposals, workflows, versions, missions, record, live>>
  BY <1>1 DEF ConsumeAuthorization
<1>3. CASE UNCHANGED auths
  BY <1>2, <1>3, ReturnKeeps DEF committed
<1>4. CASE ~UNCHANGED auths
  <2>1. PICK row \in AuthRow :
          /\ auths[a] \in AuthRow /\ auths' = [auths EXCEPT ![a] = row]
          /\ row.proof = auths[a].proof
          /\ \/ row.status = "Expired" /\ row.uses = 0
             \/ row.status = "Consumed" /\ row.uses = 1
    BY <1>1, <1>4, ConsumeStep
  <2> QED BY <1>2, <2>1, NotNull, AuthorizationKeeps
<1> QED BY <1>3, <1>4

(* A verification seals a consumed authorization, or leaves it as it is. *)
LEMMA SealStep ==
  ASSUME IInv, NEW c \in Clients, SealReceipt(c),
         NEW a \in Auths, a = requests[c].auth
  PROVE  \/ UNCHANGED auths
         \/ /\ auths[a] \in AuthRow /\ auths[a].status = "Consumed" /\ auths[a].uses = 1
            /\ \E row \in AuthRow :
                 /\ auths' = [auths EXCEPT ![a] = row] /\ row.proof = auths[a].proof
                 /\ row.uses = 1
                 /\ row.status = "Failed" \/ (row.status = "Verified" /\ row.absent)
<1> DEFINE r == requests[c]
           seen == r.view.auths[a]
<1>1. r \in VerifyRequest /\ r.view \in ViewType /\ HoldsAuth(c)
  BY RequestFields DEF SealReceipt, IInv, ApprovalsAreDual, TypeOK, HoldsAuth
<1>2. /\ auths[a] \in AuthRow /\ seen \in AuthRow /\ seen.status = auths[a].status
  BY <1>1 DEF IInv, FreshAuth, ApprovalsAreDual, TypeOK, ViewType
<1>3. PICK new : new = Receipt(r.view, seen, r.token)
  OBVIOUS
<1>4. CASE new = seen
  BY <1>3, <1>4 DEF SealReceipt
<1>5. CASE new # seen
  <2>1. /\ seen.status = "Consumed"
        /\ \/ new = [seen EXCEPT !.status = "Failed"]
           \/ new = [seen EXCEPT !.status = "Verified", !.absent = TRUE]
    BY <1>3, <1>5 DEF Receipt
  <2>2. auths[a].status = "Consumed" /\ auths[a].uses = 1
    BY <1>2, <2>1, NotNull DEF IInv, Receipts
  <2>3. /\ new.absent \in BOOLEAN
        /\ new.status = "Failed" \/ (new.status = "Verified" /\ new.absent)
    <3>1. CASE new = [seen EXCEPT !.status = "Failed"]
      BY <1>2, <3>1 DEF AuthRow
    <3>2. CASE new = [seen EXCEPT !.status = "Verified", !.absent = TRUE]
      BY <1>2, <3>2 DEF AuthRow
    <3> QED BY <2>1, <3>1, <3>2
  <2>4. PICK row : row = [auths[a] EXCEPT !.status = new.status, !.absent = new.absent]
    OBVIOUS
  <2>5. row = [proposal |-> auths[a].proposal, status |-> new.status, proof |-> auths[a].proof,
               late |-> auths[a].late, uses |-> auths[a].uses, absent |-> new.absent]
    BY <1>2, <2>4 DEF AuthRow
  <2>6. row \in AuthRow
    BY <1>2, <2>3, <2>5 DEF AuthRow
  <2>7. auths' = [auths EXCEPT ![a].status = new.status, ![a].absent = new.absent]
    BY <1>3, <1>5 DEF SealReceipt
  <2>8. auths' = [auths EXCEPT ![a] = row]
    BY <1>2, <2>4, <2>7 DEF IInv, ApprovalsAreDual, TypeOK
  <2> QED BY <1>2, <2>2, <2>3, <2>5, <2>6, <2>8
<1> QED BY <1>4, <1>5

LEMMA SealReceiptKeeps == ASSUME IInv, NEW c \in Clients, SealReceipt(c) PROVE IInv'
<1>1. PICK a \in Auths : a = requests[c].auth
  BY RequestFields DEF SealReceipt, IInv, ApprovalsAreDual, TypeOK, VerifyRequest
<1>2. /\ Return(c) /\ ~LockedByOther(c, <<"authorization", a>>)
      /\ UNCHANGED <<proposals, workflows, versions, missions, record, live>>
  BY <1>1 DEF SealReceipt
<1>3. CASE UNCHANGED auths
  BY <1>2, <1>3, ReturnKeeps DEF committed
<1>4. CASE ~UNCHANGED auths
  <2>1. PICK row \in AuthRow :
          /\ auths[a] \in AuthRow /\ auths' = [auths EXCEPT ![a] = row]
          /\ row.proof = auths[a].proof /\ row.uses = 1
          /\ row.status = "Failed" \/ (row.status = "Verified" /\ row.absent)
    BY <1>1, <1>4, SealStep
  <2> QED BY <1>2, <2>1, NotNull, AuthorizationKeeps
<1> QED BY <1>3, <1>4

(* A limit passes under a holder of the lock: what it read stays true but for that. *)
LEMMA PassLimitStep ==
  ASSUME IInv, NEW a \in Auths, PassLimit(a)
  PROVE  /\ auths[a] \in AuthRow /\ auths[a].status \in {"Issued", "Consumed"}
         /\ auths' \in [Auths -> {None} \cup AuthRow] /\ auths'[a] # None
         /\ auths'[a].status = auths[a].status /\ auths'[a].uses = auths[a].uses
         /\ auths'[a].proof = auths[a].proof /\ auths'[a].absent = auths[a].absent
         /\ \A b \in Auths \ {a} : auths'[b] = auths[b]
<1>1. auths[a] \in AuthRow
  BY DEF PassLimit, IInv, ApprovalsAreDual, TypeOK
<1>2. PICK row : row = [auths[a] EXCEPT !.late = TRUE]
  OBVIOUS
<1>3. row = [proposal |-> auths[a].proposal, status |-> auths[a].status, proof |-> auths[a].proof,
             late |-> TRUE, uses |-> auths[a].uses, absent |-> auths[a].absent]
  BY <1>1, <1>2 DEF AuthRow
<1>4. row \in AuthRow
  BY <1>1, <1>3 DEF AuthRow
<1>5. auths' = [auths EXCEPT ![a] = row]
  BY <1>2 DEF PassLimit
<1>6. /\ auths' \in [Auths -> {None} \cup AuthRow] /\ auths'[a] = row
      /\ \A b \in Auths \ {a} : auths'[b] = auths[b]
  BY <1>4, <1>5 DEF IInv, ApprovalsAreDual, TypeOK
<1>7. auths'[a] # None
  BY <1>4, <1>6, NotNull
<1>8. /\ row.status = auths[a].status /\ row.uses = auths[a].uses
      /\ row.proof = auths[a].proof /\ row.absent = auths[a].absent
  BY <1>3
<1>9. auths[a].status \in {"Issued", "Consumed"}
  BY DEF PassLimit
<1> QED BY <1>1, <1>6, <1>7, <1>8, <1>9

LEMMA PassLimitKeeps == ASSUME IInv, NEW a \in Auths, PassLimit(a) PROVE IInv'
<1>0. /\ auths[a] # None /\ auths' \in [Auths -> {None} \cup AuthRow] /\ auths'[a] # None
      /\ auths'[a].status = auths[a].status /\ auths'[a].uses = auths[a].uses
      /\ auths'[a].proof = auths[a].proof /\ auths'[a].absent = auths[a].absent
      /\ \A b \in Auths \ {a} : auths'[b] = auths[b]
  BY PassLimitStep, NotNull
<1>1. UNCHANGED <<proposals, workflows, versions, missions, record, live, requests, changes>>
  BY DEF PassLimit
<1>2. ApprovalsAreDual'
  <2>1. TypeOK'
    BY <1>0, <1>1 DEF IInv, ApprovalsAreDual, TypeOK
  <2> QED BY <1>0, <1>1, <2>1 DEF IInv, ApprovalsAreDual
<1>3. Exclusive' /\ FreshProposal' /\ ReviewsExist' /\ Counted' /\ Pinned'
  BY <1>1 DEF IInv, Exclusive, HoldsProposal, HoldsAuth, FreshProposal, ReviewsExist, Counted,
              Published, Pinned, Names
<1>4. FreshAuth'
  <2>1. \A d \in Clients : HoldsAuth(d) => requests[d].auth \in Auths
    BY RequestFields DEF IInv, ApprovalsAreDual, TypeOK, HoldsAuth, IssueRequest, VerifyRequest
  <2>2. \A d \in Clients : HoldsAuth(d)' <=> HoldsAuth(d)
    BY <1>1 DEF HoldsAuth
  <2>3. \A b \in Auths : /\ auths[b] # None => auths'[b] # None
                         /\ auths'[b].status = auths[b].status /\ auths'[b].uses = auths[b].uses
                         /\ auths'[b].absent = auths[b].absent
    BY <1>0
  <2> QED BY <1>1, <2>1, <2>2, <2>3 DEF IInv, FreshAuth
<1>5. Receipts'
  BY <1>0 DEF IInv, Receipts
<1> QED BY <1>2, <1>3, <1>4, <1>5 DEF IInv

(* Studio: a workflow is edited or published again under its old label; versions
   are only added. *)
LEMMA StudioKeeps ==
  ASSUME IInv, NEW w \in DOMAIN workflows, EditWorkflow(w) \/ PublishWorkflow(w)
  PROVE  IInv'
<1>1. UNCHANGED <<proposals, missions, auths, record, live, requests>>
  BY DEF EditWorkflow, PublishWorkflow
<1>2. workflows[w] \in WorkflowRow /\ w \in 1 .. Len(workflows) /\ Len(versions) \in Nat
  BY ElementOfSeq, LenProperties DEF IInv, ApprovalsAreDual, TypeOK
<1>3. PICK row \in WorkflowRow : workflows' = [workflows EXCEPT ![w] = row]
                                /\ row.label = workflows[w].label
  <2>1. CASE EditWorkflow(w)
    <3>1. PICK row : row = [workflows[w] EXCEPT !.content = "edited", !.status = "Draft"]
      OBVIOUS
    <3>2. row = [label |-> workflows[w].label, content |-> "edited", status |-> "Draft",
                 published |-> workflows[w].published]
      BY <1>2, <3>1 DEF WorkflowRow
    <3>3. row \in WorkflowRow
      BY <1>2, <3>2 DEF WorkflowRow
    <3>4. workflows' = [workflows EXCEPT ![w] = row]
      BY <2>1, <3>1 DEF EditWorkflow
    <3> QED BY <3>2, <3>3, <3>4
  <2>2. CASE PublishWorkflow(w)
    <3>1. PICK row :
            row = [workflows[w] EXCEPT !.status = "Published", !.published = Len(versions) + 1]
      OBVIOUS
    <3>2. row = [label |-> workflows[w].label, content |-> workflows[w].content,
                 status |-> "Published", published |-> Len(versions) + 1]
      BY <1>2, <3>1 DEF WorkflowRow
    <3>3. row \in WorkflowRow
      BY <1>2, <3>2 DEF WorkflowRow
    <3>4. workflows' = [workflows EXCEPT ![w] = row]
      BY <2>2, <3>1 DEF PublishWorkflow
    <3> QED BY <3>2, <3>3, <3>4
  <2> QED BY <2>1, <2>2
<1>4. /\ workflows' \in Seq(WorkflowRow) /\ DOMAIN workflows' = DOMAIN workflows
      /\ \A i \in DOMAIN workflows : workflows'[i].label = workflows[i].label
  <2>1. workflows' \in Seq(WorkflowRow)
    BY <1>2, <1>3, ExceptSeq DEF IInv, ApprovalsAreDual, TypeOK
  <2> QED BY <1>3, <2>1
<1>5. /\ versions' \in Seq(VersionRow) /\ changes' \in 0 .. MaxChanges
      /\ \A v \in DOMAIN versions : v \in DOMAIN versions' /\ versions'[v] = versions[v]
  <2>1. CASE EditWorkflow(w)
    BY <2>1 DEF EditWorkflow, IInv, ApprovalsAreDual, TypeOK
  <2>2. CASE PublishWorkflow(w)
    <3>1. PICK version : version = [workflow |-> w, content |-> workflows[w].content]
      OBVIOUS
    <3>2. version \in VersionRow
      BY <1>2, <3>1 DEF VersionRow, WorkflowRow
    <3>3. versions' = Append(versions, version) /\ UNCHANGED changes
      BY <2>2, <3>1 DEF PublishWorkflow
    <3> QED BY <3>2, <3>3, AppendProperties, LenProperties DEF IInv, ApprovalsAreDual, TypeOK
  <2> QED BY <2>1, <2>2
<1>6. ApprovalsAreDual'
  BY <1>1, <1>4, <1>5 DEF IInv, ApprovalsAreDual, TypeOK
<1>7. Exclusive' /\ FreshProposal' /\ FreshAuth' /\ ReviewsExist' /\ Receipts'
  BY <1>1 DEF IInv, Exclusive, HoldsProposal, HoldsAuth, FreshProposal, FreshAuth, ReviewsExist,
              Receipts
<1>8. Counted'
  <2>1. \A p \in Proposals : Published(p)' = Published(p)
    BY <1>4 DEF Published
  <2> QED BY <1>1, <2>1 DEF IInv, Counted
<1>9. Pinned'
  BY <1>1, <1>5 DEF IInv, Pinned, Names
<1> QED BY <1>6, <1>7, <1>8, <1>9 DEF IInv

(* Changes of the record, of roles, of authority and of forms touch no row. *)
LEMMA OthersKeep ==
  ASSUME IInv, NEW newRecord \in RecordType, NEW newLive \in LiveType, Others(newRecord, newLive)
  PROVE  IInv'
<1>1. /\ UNCHANGED <<proposals, workflows, versions, missions, auths, requests>>
      /\ record' \in RecordType /\ live' \in LiveType /\ changes' \in 0 .. MaxChanges
  BY DEF Others, IInv, ApprovalsAreDual, TypeOK
<1>2. ApprovalsAreDual'
  BY <1>1 DEF IInv, ApprovalsAreDual, TypeOK
<1>3. Exclusive'
  BY <1>1 DEF IInv, Exclusive, HoldsProposal, HoldsAuth
<1>4. FreshProposal' /\ FreshAuth'
  BY <1>1 DEF IInv, FreshProposal, FreshAuth, HoldsProposal, HoldsAuth
<1>5. ReviewsExist' /\ Counted'
  BY <1>1 DEF IInv, ReviewsExist, Counted, Published
<1>6. Pinned' /\ Receipts'
  BY <1>1 DEF IInv, Pinned, Names, Receipts
<1> QED BY <1>2, <1>3, <1>4, <1>5, <1>6 DEF IInv

LEMMA EnvironmentKeeps ==
  ASSUME IInv,
         EditRecord \/ DeleteRecord \/ ChangeSchema \/ RevokeAuthority
           \/ \E u \in Reviewers : RevokeRole(u)
  PROVE  IInv'
<1>1. record \in RecordType /\ live \in LiveType
  BY DEF IInv, ApprovalsAreDual, TypeOK
<1>2. PICK edited, gone :
        edited = [record EXCEPT !.rev = @ + 1] /\ gone = [record EXCEPT !.present = FALSE]
  OBVIOUS
<1>3. edited = [rev |-> record.rev + 1, present |-> record.present]
      /\ gone = [rev |-> record.rev, present |-> FALSE]
  BY <1>1, <1>2 DEF RecordType
<1>4. edited \in RecordType /\ gone \in RecordType
  BY <1>1, <1>3 DEF RecordType
<1>5. CASE EditRecord \/ DeleteRecord
  BY <1>1, <1>2, <1>4, <1>5, OthersKeep DEF EditRecord, DeleteRecord
<1>6. CASE ChangeSchema
  <2>1. PICK new : new = [live EXCEPT !.schema = @ + 1]
    OBVIOUS
  <2>2. new = [authorized |-> live.authorized, roles |-> live.roles, schema |-> live.schema + 1]
    BY <1>1, <2>1 DEF LiveType
  <2>3. new \in LiveType
    BY <1>1, <2>2 DEF LiveType
  <2> QED BY <1>1, <1>6, <2>1, <2>3, OthersKeep DEF ChangeSchema
<1>7. CASE RevokeAuthority
  <2>1. PICK new : new = [live EXCEPT !.authorized = FALSE]
    OBVIOUS
  <2>2. new = [authorized |-> FALSE, roles |-> live.roles, schema |-> live.schema]
    BY <1>1, <2>1 DEF LiveType
  <2>3. new \in LiveType
    BY <1>1, <2>2 DEF LiveType
  <2> QED BY <1>1, <1>7, <2>1, <2>3, OthersKeep DEF RevokeAuthority
<1>8. ASSUME NEW u \in Reviewers, RevokeRole(u) PROVE IInv'
  <2>1. PICK new : new = [live EXCEPT !.roles = @ \ {u}]
    OBVIOUS
  <2>2. new = [authorized |-> live.authorized, roles |-> live.roles \ {u}, schema |-> live.schema]
    BY <1>1, <2>1 DEF LiveType
  <2>3. new \in LiveType
    BY <1>1, <2>2 DEF LiveType
  <2> QED BY <1>1, <1>8, <2>1, <2>3, OthersKeep DEF RevokeRole
<1> QED BY <1>5, <1>6, <1>7, <1>8

LEMMA InitIInv == Init => IInv
<1> SUFFICES ASSUME Init PROVE IInv
  OBVIOUS
<1>1. record \in RecordType /\ live \in LiveType
  BY DEF Init, RecordType, LiveType
<1>2. TypeOK
  BY <1>1, EmptySeq DEF Init, TypeOK
<1>3. ApprovalsAreDual
  BY <1>2 DEF Init, ApprovalsAreDual
<1>4. Exclusive /\ FreshProposal /\ FreshAuth /\ ReviewsExist
  BY DEF Init, Exclusive, FreshProposal, FreshAuth, ReviewsExist, HoldsProposal, HoldsAuth
<1>5. Counted
  <2>1. \A p \in Proposals : Published(p) = {}
    BY EmptySeq DEF Init, Published
  <2> QED BY <2>1, FS_EmptySet DEF Init, Counted
<1>6. Pinned /\ Receipts
  BY DEF Init, Pinned, Receipts
<1> QED BY <1>3, <1>4, <1>5, <1>6 DEF IInv

LEMMA NextIInv == IInv /\ [Next]_vars => IInv'
<1> SUFFICES ASSUME IInv, [Next]_vars PROVE IInv'
  OBVIOUS
<1>1. ASSUME NEW c \in Clients, BeginRequest(c) PROVE IInv'
  BY <1>1, BeginRequestKeeps
<1>2. ASSUME NEW c \in Clients, EndRequest(c) PROVE IInv'
  <2>1. requests[c] # None => requests[c].proposal \in Proposals
    BY RequestFields DEF IInv, ApprovalsAreDual, TypeOK
  <2>2. CASE InsertProposal(c)
    BY <2>2, InsertProposalKeeps
  <2>3. CASE Decide(c)
    BY <2>3, DecideKeeps
  <2>4. CASE PublishProposal(c)
    <3>1. Len(workflows) + 1 \in Nat /\ Len(versions) + 1 \in Nat
      BY LenProperties DEF IInv, ApprovalsAreDual, TypeOK
    <3> QED BY <2>1, <2>4, <3>1, PublishProposalKeeps DEF PublishProposal
  <2>5. CASE StartMission(c)
    BY <2>1, <2>5, StartMissionKeeps DEF StartMission
  <2>6. CASE InsertAuthorization(c)
    BY <2>6, InsertAuthorizationKeeps
  <2>7. CASE ConsumeAuthorization(c)
    BY <2>7, ConsumeAuthorizationKeeps
  <2>8. CASE SealReceipt(c)
    BY <2>8, SealReceiptKeeps
  <2>9. CASE Abort(c)
    BY <2>9, ReturnKeeps DEF Abort
  <2> QED BY <1>2, <2>2, <2>3, <2>4, <2>5, <2>6, <2>7, <2>8, <2>9 DEF EndRequest
<1>3. ASSUME NEW w \in DOMAIN workflows, EditWorkflow(w) \/ PublishWorkflow(w) PROVE IInv'
  BY <1>3, StudioKeeps
<1>4. ASSUME NEW a \in Auths, PassLimit(a) PROVE IInv'
  BY <1>4, PassLimitKeeps
<1>5. CASE EditRecord \/ DeleteRecord \/ ChangeSchema \/ RevokeAuthority
             \/ \E u \in Reviewers : RevokeRole(u)
  BY <1>5, EnvironmentKeeps
<1>6. CASE UNCHANGED vars
  <2>1. UNCHANGED <<proposals, workflows, versions, missions, auths, record, live, requests, changes>>
    BY <1>6 DEF vars
  <2>2. ApprovalsAreDual'
    BY <2>1 DEF IInv, ApprovalsAreDual, TypeOK
  <2>3. Exclusive'
    BY <2>1 DEF IInv, Exclusive, HoldsProposal, HoldsAuth
  <2>4. FreshProposal' /\ FreshAuth'
    BY <2>1 DEF IInv, FreshProposal, FreshAuth, HoldsProposal, HoldsAuth
  <2>5. ReviewsExist' /\ Counted'
    BY <2>1 DEF IInv, ReviewsExist, Counted, Published
  <2>6. Pinned' /\ Receipts'
    BY <2>1 DEF IInv, Pinned, Names, Receipts
  <2> QED BY <2>2, <2>3, <2>4, <2>5, <2>6 DEF IInv
<1> QED BY <1>1, <1>2, <1>3, <1>4, <1>5, <1>6 DEF Next

LEMMA Invariant == Spec => []IInv
BY InitIInv, NextIInv, PTL DEF Spec

(* A row of an authorization changes only while it is issued or consumed. *)
LEMMA AuthStep ==
  ASSUME IInv, [Next]_vars, NEW a \in Auths, auths[a] # None
  PROVE  \/ auths'[a] = auths[a]
         \/ auths'[a] # None /\ auths[a].status \in {"Issued", "Consumed"}
<1>1. CASE UNCHANGED auths
  BY <1>1
<1>2. ASSUME NEW c \in Clients, InsertAuthorization(c)
      PROVE  auths'[a] = auths[a]
  <2>1. requests[c].auth \in Auths
    BY <1>2, RequestFields DEF InsertAuthorization, IInv, ApprovalsAreDual, TypeOK, IssueRequest
  <2> QED BY <1>2, <2>1 DEF InsertAuthorization, IInv, ApprovalsAreDual, TypeOK
<1>3. ASSUME NEW c \in Clients, ConsumeAuthorization(c)
      PROVE  \/ auths'[a] = auths[a]
             \/ auths'[a] # None /\ auths[a].status \in {"Issued", "Consumed"}
  <2>1. PICK b \in Auths : b = requests[c].auth
    BY <1>3, RequestFields DEF ConsumeAuthorization, IInv, ApprovalsAreDual, TypeOK, IssueRequest
  <2>2. \/ UNCHANGED auths
        \/ auths[b].status = "Issued" /\ \E row \in AuthRow : auths' = [auths EXCEPT ![b] = row]
    BY <1>3, <2>1, ConsumeStep
  <2> QED BY SMTT(30), <2>2, NotNull DEF IInv, ApprovalsAreDual, TypeOK
<1>4. ASSUME NEW c \in Clients, SealReceipt(c)
      PROVE  \/ auths'[a] = auths[a]
             \/ auths'[a] # None /\ auths[a].status \in {"Issued", "Consumed"}
  <2>1. PICK b \in Auths : b = requests[c].auth
    BY <1>4, RequestFields DEF SealReceipt, IInv, ApprovalsAreDual, TypeOK, VerifyRequest
  <2>2. \/ UNCHANGED auths
        \/ auths[b].status = "Consumed" /\ \E row \in AuthRow : auths' = [auths EXCEPT ![b] = row]
    BY <1>4, <2>1, SealStep
  <2> QED BY <2>2, NotNull DEF IInv, ApprovalsAreDual, TypeOK
<1>5. ASSUME NEW b \in Auths, PassLimit(b)
      PROVE  \/ auths'[a] = auths[a]
             \/ auths'[a] # None /\ auths[a].status \in {"Issued", "Consumed"}
  BY <1>5, PassLimitStep
<1>6. CASE UNCHANGED vars
  BY <1>6 DEF vars
<1>7. ASSUME NEW c \in Clients, BeginRequest(c) PROVE UNCHANGED auths
  BY <1>7 DEF BeginRequest, Plans, Reviews, Publishes, Starts, Issues, Consumes, Verifies, Begin,
              committed
<1>8. ASSUME NEW c \in Clients,
             InsertProposal(c) \/ Decide(c) \/ PublishProposal(c) \/ StartMission(c) \/ Abort(c)
      PROVE  UNCHANGED auths
  BY <1>8 DEF InsertProposal, Decide, PublishProposal, StartMission, Abort, committed
<1>9. ASSUME NEW w \in DOMAIN workflows, EditWorkflow(w) \/ PublishWorkflow(w) PROVE UNCHANGED auths
  BY <1>9 DEF EditWorkflow, PublishWorkflow
<1>10. CASE EditRecord \/ DeleteRecord \/ ChangeSchema \/ RevokeAuthority
              \/ \E u \in Reviewers : RevokeRole(u)
  BY <1>10 DEF EditRecord, DeleteRecord, ChangeSchema, RevokeAuthority, RevokeRole, Others
<1> QED BY <1>1, <1>2, <1>3, <1>4, <1>5, <1>6, <1>7, <1>8, <1>9, <1>10 DEF Next, EndRequest

-----------------------------------------------------------------------------
(* Theorems *)

(* Rows and requests keep their types, and no approval of a change of an exact record,
   and no delete authorization, rests on the requester's own word, however the reviews,
   publications and issues of a proposal interleave (review_proposal,
   trusted_attended_delete_snapshot). *)
THEOREM ApprovalsAreDualCorrect == Spec => []ApprovalsAreDual
<1>1. IInv => ApprovalsAreDual
  BY DEF IInv
<1> QED BY <1>1, Invariant, PTL

(* However many publications, reviews and aborted requests interleave, every workflow
   published from a proposal has an approval of its own (publish_proposal). *)
THEOREM PublicationsAreApprovedCorrect == Spec => []PublicationsAreApproved
<1>1. IInv => PublicationsAreApproved
  <2> SUFFICES ASSUME IInv, NEW p \in Proposals
               PROVE  Cardinality(Published(p))
                        <= IF proposals[p] = None THEN 0 ELSE proposals[p].decisions
    BY DEF PublicationsAreApproved, Published
  <2>1. Cardinality(Published(p)) \in Nat
    BY PublishedFinite DEF IInv, ApprovalsAreDual, TypeOK
  <2>2. proposals[p] # None => proposals[p].decisions \in Nat
    BY DEF IInv, ApprovalsAreDual, TypeOK, ProposalRow
  <2> QED BY <2>1, <2>2 DEF IInv, Counted
<1> QED BY <1>1, Invariant, PTL

(* Whatever is edited or published after the review, a mission is pinned to a version of
   its proposal's own workflow that holds its proposal's own graph (create_from_proposal). *)
THEOREM MissionsRunTheReviewedGraphCorrect == Spec => []MissionsRunTheReviewedGraph
<1>1. IInv => MissionsRunTheReviewedGraph
  <2> SUFFICES ASSUME IInv, NEW k \in Keys, missions[k] # None
               PROVE  /\ versions[missions[k].version].content = missions[k].proposal
                      /\ versions[missions[k].version].workflow = missions[k].workflow
    BY DEF MissionsRunTheReviewedGraph
  <2>1. versions[missions[k].version]
          = [workflow |-> missions[k].workflow, content |-> missions[k].proposal]
    BY DEF IInv, Pinned, Names
  <2> QED BY <2>1
<1> QED BY <1>1, Invariant, PTL

(* However many consumptions and verifications race for it, a delete authorization is
   consumed at most once, changes no more once it is sealed or expired, and is verified
   only with the record absent (consume_delete_authorization, verify_delete_receipt). *)
THEOREM ReceiptsAreFinalCorrect == Spec => ReceiptsAreFinal
<1> DEFINE Final ==
      \A a \in Auths :
        auths[a] # None =>
          /\ auths'[a].uses <= 1
          /\ auths[a].status \in {"Verified", "Failed", "Expired"} => auths'[a] = auths[a]
          /\ auths'[a].status = "Verified" => auths'[a].uses > 0 /\ auths'[a].absent
<1>1. ASSUME IInv, [Next]_vars PROVE Final
  <2> SUFFICES ASSUME NEW a \in Auths, auths[a] # None
               PROVE  /\ auths'[a].uses <= 1
                      /\ auths[a].status \in {"Verified", "Failed", "Expired"} => auths'[a] = auths[a]
                      /\ auths'[a].status = "Verified" => auths'[a].uses > 0 /\ auths'[a].absent
    OBVIOUS
  <2>1. IInv'
    BY <1>1, NextIInv
  <2>2. auths'[a] = auths[a] \/ (auths'[a] # None /\ auths[a].status \in {"Issued", "Consumed"})
    BY <1>1, AuthStep
  <2>3. auths'[a] # None
    BY <2>2
  <2>4. /\ auths'[a].uses = IF auths'[a].status \in {"Issued", "Expired"} THEN 0 ELSE 1
        /\ auths'[a].status = "Verified" => auths'[a].absent
    BY <2>1, <2>3 DEF IInv, Receipts
  <2> QED BY <2>2, <2>4
<1>2. IInv /\ [Next]_vars => [Final]_vars
  BY <1>1
<1> QED BY <1>2, Invariant, PTL DEF Spec, ReceiptsAreFinal

-----------------------------------------------------------------------------
(* The graphs that are published: what the workflow compiler accepts, for all rows of
   nodes and edges and all limits. *)

CONSTANTS NodeIds, SecretFields, MaxDepth, MaxFanOut, MaxActiveNodes, MaxRetries

Graph == INSTANCE WorkflowGraph

LEMMA NatMin ==
  ASSUME NEW T, T \subseteq Nat, T # {}
  PROVE  \E x \in T : \A y \in T : x <= y
<1>1. IsWellFoundedOn(OpToRel(<, Nat), Nat)
  BY NatLessThanWellFounded
<1>2. PICK x \in T : \A y \in T : ~(<<y, x>> \in OpToRel(<, Nat))
  BY <1>1, WFMin
<1>3. ASSUME NEW y \in T PROVE x <= y
  <2>1. ~(y < x)
    BY <1>2 DEF OpToRel
  <2> QED BY <2>1
<1> QED BY <1>3

LEMMA SameCardinality == \A S : Graph!Cardinality(S) = Cardinality(S)
BY Zenon DEF Graph!Cardinality, Cardinality, Graph!IsFiniteSet, IsFiniteSet

NodeSet(nodes) == {nodes[k].node_id : k \in DOMAIN nodes}
Agency(nodes) ==
  [id \in NodeSet(nodes) |->
     IF \E k \in DOMAIN nodes : nodes[k].node_id = id /\ nodes[k].node_type = "Agent" THEN 1 ELSE 0]

(* The state that the sort starts from, and the states it goes through. *)
StartOf(nodes, edges) ==
  LET ids == NodeSet(nodes)
      roots == Graph!Roots(edges, ids)
  IN [order    |-> <<>>,
      pending  |-> [id \in ids |-> Graph!Cardinality(Graph!Sources(edges, id))],
      queue    |-> roots,
      distance |-> [id \in ids |-> IF id \in roots THEN Agency(nodes)[id] ELSE 0]]

Rounds(g, nodes, edges, n) ==
  /\ g[0] = StartOf(nodes, edges)
  /\ \A k \in 1..n : g[k] = Graph!PopLeast(edges, Agency(nodes), g[k - 1])

LEMMA GraphMaxIs ==
  ASSUME NEW n \in Nat, NEW S, S \subseteq 0..n, S # {}
  PROVE  Graph!Max(S) \in S /\ \A i \in S : i <= Graph!Max(S)
<1> DEFINE T == {n - i : i \in S}
<1>1. T \subseteq Nat /\ T # {}
  <2>1. \A i \in S : i \in 0..n /\ n - i \in Nat
    OBVIOUS
  <2>2. PICK i : i \in S
    OBVIOUS
  <2>3. n - i \in T
    BY <2>2
  <2> QED BY <2>1, <2>3
<1>2. PICK t \in T : \A u \in T : t <= u
  BY <1>1, NatMin
<1>3. PICK m \in S : t = n - m
  BY <1>2
<1>4. \A i \in S : n - m <= n - i
  BY <1>2, <1>3
<1>5. \A i \in S : i \in 0..n
  OBVIOUS
<1>6. \A i \in S : m >= i
  BY <1>4, <1>5
<1>7. Graph!Max(S) \in S /\ \A i \in S : Graph!Max(S) >= i
  BY <1>6 DEF Graph!Max
<1> HIDE DEF T
<1>8. PICK x : x = Graph!Max(S)
  OBVIOUS
<1>9. x \in 0..n /\ \A i \in S : i \in 0..n /\ i <= x
  BY <1>5, <1>7, <1>8
<1> QED BY <1>7, <1>8, <1>9

LEMMA GraphMinIs ==
  ASSUME NEW S, S \subseteq Nat, S # {}
  PROVE  Graph!Min(S) \in S
<1>1. PICK x \in S : \A y \in S : x <= y
  BY NatMin
<1> QED BY <1>1 DEF Graph!Min

LEMMA IntervalTop ==
  ASSUME NEW k \in Nat, k # 0
  PROVE  Graph!Max(1..k) = k /\ (1..k) \ {k} = 1..(k - 1) /\ 1..k # {}
<1>1. 1..k \subseteq 0..k /\ 1..k # {} /\ k \in 1..k
  OBVIOUS
<1>2. PICK m : m = Graph!Max(1..k)
  OBVIOUS
<1>3. m \in 1..k /\ k <= m
  BY <1>1, <1>2, GraphMaxIs
<1>4. m = k
  BY <1>3
<1> QED BY <1>1, <1>2, <1>4

(* One round of the sort upon those before it, as the fold takes them. *)
SortedFrom(nodes, edges, rounds, before) ==
  IF rounds = {} THEN StartOf(nodes, edges)
  ELSE Graph!PopLeast(edges, Agency(nodes), before[rounds \ {Graph!Max(rounds)}])

Folding(f, nodes, edges, n) ==
  f = [rounds \in SUBSET (1..n) |-> SortedFrom(nodes, edges, rounds, f)]

LEMMA SortExists ==
  ASSUME NEW nodes, NEW edges, NEW n \in Nat
  PROVE  \E f : Folding(f, nodes, edges, n)
<1> DEFINE Bad == {m \in Nat : \A f : ~Folding(f, nodes, edges, m)}
<1> SUFFICES ASSUME Bad # {} PROVE FALSE
  OBVIOUS
<1>1. PICK m \in Bad : \A k \in Bad : m <= k
  <2> HIDE DEF Bad
  <2> QED BY NatMin DEF Bad
<1>2. m \in Nat /\ \A f : ~Folding(f, nodes, edges, m)
  BY <1>1
<1>3. PICK f : m # 0 => Folding(f, nodes, edges, m - 1)
  <2>1. CASE m = 0
    BY <2>1
  <2>2. CASE m # 0
    <3>1. m - 1 \in Nat /\ ~(m <= m - 1)
      BY <1>2, <2>2
    <3>2. m - 1 \notin Bad
      BY <3>1, <1>1
    <3> QED BY <3>1, <3>2
  <2> QED BY <2>1, <2>2
<1> DEFINE g == [rounds \in SUBSET (1..m) |-> SortedFrom(nodes, edges, rounds, f)]
<1>4. ASSUME NEW rounds \in SUBSET (1..m)
      PROVE  SortedFrom(nodes, edges, rounds, g) = SortedFrom(nodes, edges, rounds, f)
  <2>1. CASE rounds = {}
    BY <2>1 DEF SortedFrom
  <2>2. CASE rounds # {}
    <3> DEFINE less == rounds \ {Graph!Max(rounds)}
    <3>1. m # 0 /\ less \in SUBSET (1..m - 1) /\ less \in SUBSET (1..m)
      <4>1. rounds \subseteq 0..m /\ \A i \in rounds : i \in 1..m
        BY <1>2
      <4>2. PICK x : x = Graph!Max(rounds)
        OBVIOUS
      <4>3. x \in rounds /\ \A i \in rounds : i <= x
        BY <4>1, <4>2, <1>2, <2>2, GraphMaxIs
      <4>4. \A i \in rounds \ {x} : i \in 1..m - 1
        BY <4>1, <4>3, <1>2
      <4>5. m # 0
        BY <4>1, <4>3, <1>2
      <4> QED BY <4>2, <4>4, <4>5
    <3>2. f[less] = SortedFrom(nodes, edges, less, f)
      BY <3>1, <1>3 DEF Folding
    <3>3. g[less] = SortedFrom(nodes, edges, less, f)
      BY <3>1
    <3>4. g[less] = f[less]
      BY <3>2, <3>3
    <3> HIDE DEF g
    <3> QED BY <3>4 DEF SortedFrom
  <2> QED BY <2>1, <2>2
<1>5. Folding(g, nodes, edges, m)
  <2> HIDE DEF g
  <2>1. g = [rounds \in SUBSET (1..m) |-> SortedFrom(nodes, edges, rounds, f)]
    BY DEF g
  <2> QED BY <2>1, <1>4 DEF Folding
<1> HIDE DEF g
<1> QED BY <1>5, <1>2

LEMMA SortUnfolds ==
  ASSUME NEW nodes, NEW edges, NEW n \in Nat, DOMAIN nodes = 1..n
  PROVE  \E g : Rounds(g, nodes, edges, n) /\ Graph!TopologicalSort(nodes, edges) = g[n]
<1> DEFINE f == CHOOSE g : g = [rounds \in SUBSET DOMAIN nodes |-> SortedFrom(nodes, edges, rounds, g)]
<1>1. \E g : g = [rounds \in SUBSET DOMAIN nodes |-> SortedFrom(nodes, edges, rounds, g)]
  <2>1. PICK g : Folding(g, nodes, edges, n)
    BY SortExists
  <2>2. g = [rounds \in SUBSET DOMAIN nodes |-> SortedFrom(nodes, edges, rounds, g)]
    BY <2>1 DEF Folding
  <2> QED BY <2>2
<1>2. f = [rounds \in SUBSET DOMAIN nodes |-> SortedFrom(nodes, edges, rounds, f)]
  BY <1>1, Zenon
<1>3. Graph!TopologicalSort(nodes, edges) = f[DOMAIN nodes]
  BY Zenon DEF Graph!TopologicalSort, Graph!FoldLeft, Graph!MapThenFoldSet, SortedFrom, StartOf,
       Agency, NodeSet
<1>4. \A rounds \in SUBSET (1..n) : f[rounds] = SortedFrom(nodes, edges, rounds, f)
  <2> HIDE DEF f
  <2> QED BY <1>2
<1> HIDE DEF f
<1> DEFINE g == [k \in 0..n |-> f[1..k]]
<1>5. g[0] = StartOf(nodes, edges)
  <2>1. 1..0 = {} /\ {} \in SUBSET (1..n) /\ 0 \in 0..n
    OBVIOUS
  <2> QED BY <2>1, <1>4 DEF SortedFrom
<1>6. ASSUME NEW k \in 1..n PROVE g[k] = Graph!PopLeast(edges, Agency(nodes), g[k - 1])
  <2>1. k \in Nat /\ k # 0 /\ k \in 0..n /\ k - 1 \in 0..n /\ 1..k \in SUBSET (1..n)
    OBVIOUS
  <2>2. f[1..k] = Graph!PopLeast(edges, Agency(nodes), f[1..(k - 1)])
    <3>1. Graph!Max(1..k) = k /\ (1..k) \ {k} = 1..(k - 1) /\ 1..k # {}
      BY <2>1, IntervalTop
    <3>2. f[1..k] = SortedFrom(nodes, edges, 1..k, f)
      BY <2>1, <1>4
    <3> QED BY <3>1, <3>2 DEF SortedFrom
  <2> QED BY <2>1, <2>2
<1>7. g[n] = f[DOMAIN nodes]
  OBVIOUS
<1> HIDE DEF g
<1> QED BY <1>3, <1>5, <1>6, <1>7 DEF Rounds
-----------------------------------------------------------------------------
(* What the sort has listed, and what holds of each of its states: what it lists
   comes after all its sources, and what is not listed waits for its own. *)

Joins(edges, ids) == \A i \in DOMAIN edges : edges[i].from \in ids /\ edges[i].to \in ids
Listed(s) == {s.order[i] : i \in 1..Len(s.order)}

SortTyped(ids, s) ==
  /\ s.order \in Seq(ids) /\ s.queue \in SUBSET ids
  /\ s.pending \in [ids -> Nat] /\ s.distance \in [ids -> Nat]

InOrderOf(edges, s) ==
  /\ \A i, j \in 1..Len(s.order) : s.order[i] = s.order[j] => i = j
  /\ \A i \in 1..Len(s.order) :
       \A a \in Graph!Sources(edges, s.order[i]) : \E j \in 1..i - 1 : s.order[j] = a

Waiting(edges, ids, s) ==
  /\ s.queue \cap Listed(s) = {}
  /\ \A id \in ids : s.pending[id] = Cardinality(Graph!Sources(edges, id) \ Listed(s))
  /\ \A id \in ids : id \in s.queue \cup Listed(s) <=> Graph!Sources(edges, id) \subseteq Listed(s)

(* The chains of a graph, and the agents on one. *)
Chains(edges, ids) ==
  {p \in Seq(ids) : p # <<>> /\ \A i \in 1..Len(p) - 1 : p[i] \in Graph!Sources(edges, p[i + 1])}
AgentsOn(agent, p) == Cardinality({i \in 1..Len(p) : agent[p[i]] = 1})
Reaching(edges, ids, agent, id, n) ==
  \E p \in Chains(edges, ids) : p[Len(p)] = id /\ AgentsOn(agent, p) = n

(* A distance is that of a chain, and no chain from what is listed is longer. *)
Measured(edges, ids, agent, s) ==
  /\ \A id \in ids : s.distance[id] <= Len(s.order) + 1
  /\ \A id \in s.queue \cup Listed(s) : s.distance[id] >= agent[id]
  /\ \A a \in Listed(s), b \in ids :
       a \in Graph!Sources(edges, b) => s.distance[b] >= s.distance[a] + agent[b]
  /\ \A id \in ids : id \in s.queue \cup Listed(s) \/ s.distance[id] # 0
       => Reaching(edges, ids, agent, id, s.distance[id])

SortInv(edges, ids, agent, s) ==
  /\ SortTyped(ids, s)
  /\ InOrderOf(edges, s)
  /\ Waiting(edges, ids, s)
  /\ Measured(edges, ids, agent, s)

(* One round that takes current from the queue. *)
Popped(edges, ids, agent, s, t, current) ==
  /\ t.order = Append(s.order, current)
  /\ t.pending = [id \in ids |->
       s.pending[id] - (IF current \in Graph!Sources(edges, id) THEN 1 ELSE 0)]
  /\ t.queue = (s.queue \ {current})
               \cup {id \in ids : current \in Graph!Sources(edges, id) /\ t.pending[id] = 0}
  /\ t.distance = [id \in ids |-> t.distance[id]]
  /\ \A id \in ids :
       IF current \in Graph!Sources(edges, id)
       THEN /\ t.distance[id] \in {s.distance[id], s.distance[current] + agent[id]}
            /\ t.distance[id] >= s.distance[id]
            /\ t.distance[id] >= s.distance[current] + agent[id]
       ELSE t.distance[id] = s.distance[id]

LEMMA SourcesAndTargets ==
  ASSUME NEW edges, NEW ids, Joins(edges, ids)
  PROVE  /\ \A a, b : a \in Graph!Sources(edges, b) <=> b \in Graph!Targets(edges, a)
         /\ \A a : Graph!Sources(edges, a) \subseteq ids /\ Graph!Targets(edges, a) \subseteq ids
<1>1. \A a, b : a \in Graph!Sources(edges, b) <=> b \in Graph!Targets(edges, a)
  BY Zenon DEF Graph!Sources, Graph!Targets
<1>2. \A a : Graph!Sources(edges, a) \subseteq ids /\ Graph!Targets(edges, a) \subseteq ids
  BY DEF Graph!Sources, Graph!Targets, Joins
<1> QED BY <1>1, <1>2

LEMMA GraphMaxOfTwo ==
  ASSUME NEW x \in Nat, NEW y \in Nat
  PROVE  Graph!Max({x, y}) \in {x, y} /\ Graph!Max({x, y}) >= x /\ Graph!Max({x, y}) >= y
<1>1. {x, y} \subseteq 0..x + y /\ {x, y} # {}
  OBVIOUS
<1>2. PICK m : m = Graph!Max({x, y})
  OBVIOUS
<1>3. m \in {x, y} /\ \A i \in {x, y} : i <= m
  BY <1>1, <1>2, GraphMaxIs
<1> QED BY <1>2, <1>3

LEMMA RoundPops ==
  ASSUME NEW edges, NEW ids, NEW agent \in [ids -> {0, 1}], NEW s,
         Joins(edges, ids), ids \subseteq Nat, SortTyped(ids, s), s.queue # {}
  PROVE  \E current \in s.queue :
           Popped(edges, ids, agent, s, Graph!PopLeast(edges, agent, s), current)
<1> DEFINE current == Graph!Min(s.queue)
           pending == Graph!Pending(edges, s, current)
           distance == Graph!Distance(edges, agent, s, current)
           t == Graph!PopLeast(edges, agent, s)
<1>1. current \in s.queue /\ current \in ids
  BY GraphMinIs DEF SortTyped
<1>2. t = [order |-> Append(s.order, current), pending |-> pending,
           queue |-> (s.queue \ {current}) \cup Graph!Ready(edges, pending, current),
           distance |-> distance]
  BY DEF Graph!PopLeast
<1>3. /\ t.order = Append(s.order, current) /\ t.pending = pending
      /\ t.queue = (s.queue \ {current}) \cup Graph!Ready(edges, pending, current)
      /\ t.distance = distance
  <2> HIDE DEF current, pending, distance, t
  <2> QED BY <1>2
<1>4. /\ \A a, b : a \in Graph!Sources(edges, b) <=> b \in Graph!Targets(edges, a)
      /\ \A a : Graph!Targets(edges, a) \subseteq ids
  BY SourcesAndTargets
<1>5. DOMAIN s.pending = ids /\ DOMAIN s.distance = ids
  BY DEF SortTyped
<1> HIDE DEF current
<1>6. pending = [id \in ids |->
        s.pending[id] - (IF current \in Graph!Sources(edges, id) THEN 1 ELSE 0)]
  BY <1>4, <1>5 DEF Graph!Pending
<1>7. Graph!Ready(edges, pending, current)
        = {id \in ids : current \in Graph!Sources(edges, id) /\ pending[id] = 0}
  <2> HIDE DEF pending
  <2> QED BY <1>4 DEF Graph!Ready
<1>8. distance = [id \in ids |-> distance[id]]
  BY <1>5 DEF Graph!Distance
<1>9. ASSUME NEW id \in ids
      PROVE  IF current \in Graph!Sources(edges, id)
             THEN /\ distance[id] \in {s.distance[id], s.distance[current] + agent[id]}
                  /\ distance[id] >= s.distance[id]
                  /\ distance[id] >= s.distance[current] + agent[id]
             ELSE distance[id] = s.distance[id]
  <2>1. distance[id] = IF id \in Graph!Targets(edges, current)
                       THEN Graph!Max({s.distance[id], s.distance[current] + agent[id]})
                       ELSE s.distance[id]
    BY <1>5 DEF Graph!Distance
  <2>2. s.distance[id] \in Nat /\ s.distance[current] + agent[id] \in Nat
    <3>1. s.distance \in [ids -> Nat]
      BY DEF SortTyped
    <3>2. s.distance[id] \in Nat /\ s.distance[current] \in Nat /\ agent[id] \in {0, 1}
      BY <3>1, <1>1
    <3> QED BY <3>2
  <2> HIDE DEF distance
  <2> QED BY <2>1, <2>2, <1>4, GraphMaxOfTwo
<1> HIDE DEF pending, distance, t
<1>10. Popped(edges, ids, agent, s, t, current)
  BY <1>3, <1>6, <1>7, <1>8, <1>9 DEF Popped
<1> QED BY <1>1, <1>10 DEF t

LEMMA AppendIs ==
  ASSUME NEW S, NEW seq \in Seq(S), NEW e \in S
  PROVE  /\ Append(seq, e) \in Seq(S) /\ Append(seq, e) # <<>>
         /\ Len(seq) \in Nat /\ Len(Append(seq, e)) = Len(seq) + 1
         /\ \A i \in 1..Len(seq) : Append(seq, e)[i] = seq[i]
         /\ Append(seq, e)[Len(seq) + 1] = e
BY AppendProperties

LEMMA OrderGrows ==
  ASSUME NEW edges, NEW ids, NEW agent, NEW s, NEW t, NEW e \in s.queue,
         SortTyped(ids, s), Popped(edges, ids, agent, s, t, e)
  PROVE  /\ t.order \in Seq(ids) /\ Len(t.order) = Len(s.order) + 1 /\ Len(s.order) \in Nat
         /\ \A i \in 1..Len(s.order) : t.order[i] = s.order[i]
         /\ t.order[Len(s.order) + 1] = e
<1>1. s.order \in Seq(ids) /\ t.order = Append(s.order, e) /\ e \in ids
  BY DEF SortTyped, Popped
<1> QED BY <1>1, AppendIs

LEMMA ListedGrows ==
  ASSUME NEW edges, NEW ids, NEW agent, NEW s, NEW t, NEW e \in s.queue,
         SortTyped(ids, s), Popped(edges, ids, agent, s, t, e)
  PROVE  Listed(t) = Listed(s) \cup {e}
<1>1. /\ t.order \in Seq(ids) /\ Len(t.order) = Len(s.order) + 1 /\ Len(s.order) \in Nat
      /\ \A i \in 1..Len(s.order) : t.order[i] = s.order[i]
      /\ t.order[Len(s.order) + 1] = e
  BY OrderGrows
<1>2. \A i \in 1..Len(t.order) : i \in 1..Len(s.order) \/ i = Len(s.order) + 1
  BY <1>1
<1>3. \A i \in 1..Len(s.order) : i \in 1..Len(t.order)
  BY <1>1
<1>4. Len(s.order) + 1 \in 1..Len(t.order)
  BY <1>1
<1> QED BY <1>1, <1>2, <1>3, <1>4 DEF Listed

LEMMA PopKeepsTyped ==
  ASSUME NEW edges, NEW ids, NEW agent \in [ids -> {0, 1}], NEW s, NEW t, NEW current \in s.queue,
         IsFiniteSet(ids), Joins(edges, ids), SortTyped(ids, s), Waiting(edges, ids, s),
         Popped(edges, ids, agent, s, t, current)
  PROVE  SortTyped(ids, t)
<1>1. current \in ids /\ current \notin Listed(s)
  BY DEF SortTyped, Waiting
<1>2. t.order \in Seq(ids)
  BY OrderGrows
<1>3. t.pending \in [ids -> Nat]
  <2>1. ASSUME NEW id \in ids
        PROVE  s.pending[id] - (IF current \in Graph!Sources(edges, id) THEN 1 ELSE 0) \in Nat
    <3>1. s.pending[id] \in Nat
      BY DEF SortTyped
    <3>2. CASE current \in Graph!Sources(edges, id)
      <4> DEFINE W == Graph!Sources(edges, id) \ Listed(s)
      <4>1. current \in W /\ W \in SUBSET ids
        BY <3>2, <1>1, SourcesAndTargets
      <4>2. IsFiniteSet(W)
        BY <4>1, FS_Subset
      <4>3. s.pending[id] = Cardinality(W)
        BY DEF Waiting
      <4> HIDE DEF W
      <4>4. s.pending[id] # 0
        BY <4>1, <4>2, <4>3, FS_EmptySet
      <4> QED BY <3>1, <3>2, <4>4
    <3>3. CASE current \notin Graph!Sources(edges, id)
      BY <3>1, <3>3
    <3> QED BY <3>2, <3>3
  <2> QED BY <2>1 DEF Popped
<1>4. t.queue \in SUBSET ids
  BY DEF Popped, SortTyped
<1>5. t.distance \in [ids -> Nat]
  <2>1. t.distance = [id \in ids |-> t.distance[id]]
    BY DEF Popped
  <2>2. ASSUME NEW id \in ids PROVE t.distance[id] \in Nat
    <3>1. s.distance[id] \in Nat /\ s.distance[current] \in Nat
      BY <1>1 DEF SortTyped
    <3>2. agent[id] \in {0, 1}
      OBVIOUS
    <3>3. t.distance[id] \in {s.distance[id], s.distance[current] + agent[id]}
      BY DEF Popped
    <3> QED BY <3>1, <3>2, <3>3
  <2> QED BY <2>1, <2>2
<1> QED BY <1>2, <1>3, <1>4, <1>5 DEF SortTyped

LEMMA PopKeepsOrder ==
  ASSUME NEW edges, NEW ids, NEW agent, NEW s, NEW t, NEW current \in s.queue,
         SortTyped(ids, s), InOrderOf(edges, s), Waiting(edges, ids, s),
         Popped(edges, ids, agent, s, t, current)
  PROVE  InOrderOf(edges, t)
<1>1. current \in ids /\ current \notin Listed(s) /\ Graph!Sources(edges, current) \subseteq Listed(s)
  BY DEF SortTyped, Waiting
<1>2. /\ Len(t.order) = Len(s.order) + 1 /\ Len(s.order) \in Nat
      /\ \A i \in 1..Len(s.order) : t.order[i] = s.order[i]
      /\ t.order[Len(s.order) + 1] = current
  BY OrderGrows
<1>3. \A i \in 1..Len(t.order) : i \in 1..Len(s.order) \/ i = Len(s.order) + 1
  BY <1>2
<1>4. ASSUME NEW i \in 1..Len(t.order), NEW j \in 1..Len(t.order), t.order[i] = t.order[j]
      PROVE  i = j
  <2>1. \A k \in 1..Len(s.order) : t.order[k] \in Listed(s) /\ t.order[k] = s.order[k]
    BY <1>2 DEF Listed
  <2>2. CASE i \in 1..Len(s.order) /\ j \in 1..Len(s.order)
    BY <2>1, <2>2, <1>4 DEF InOrderOf
  <2>3. CASE i = Len(s.order) + 1 /\ j \in 1..Len(s.order)
    BY <2>1, <2>3, <1>1, <1>2, <1>4
  <2>4. CASE j = Len(s.order) + 1 /\ i \in 1..Len(s.order)
    BY <2>1, <2>4, <1>1, <1>2, <1>4
  <2> QED BY <1>3, <2>2, <2>3, <2>4
<1>5. ASSUME NEW i \in 1..Len(t.order), NEW a \in Graph!Sources(edges, t.order[i])
      PROVE  \E j \in 1..i - 1 : t.order[j] = a
  <2>1. CASE i \in 1..Len(s.order)
    <3>1. a \in Graph!Sources(edges, s.order[i])
      BY <2>1, <1>2
    <3>2. PICK j \in 1..i - 1 : s.order[j] = a
      BY <2>1, <3>1 DEF InOrderOf
    <3>3. j \in 1..Len(s.order)
      BY <2>1, <1>2
    <3> QED BY <3>2, <3>3, <1>2
  <2>2. CASE i = Len(s.order) + 1
    <3>1. a \in Listed(s)
      BY <2>2, <1>1, <1>2
    <3>2. PICK j \in 1..Len(s.order) : s.order[j] = a
      BY <3>1 DEF Listed
    <3>3. j \in 1..i - 1 /\ t.order[j] = s.order[j]
      BY <2>2, <1>2
    <3> QED BY <3>2, <3>3
  <2> QED BY <1>3, <2>1, <2>2
<1> QED BY <1>4, <1>5 DEF InOrderOf

LEMMA PopKeepsWaiting ==
  ASSUME NEW edges, NEW ids, NEW agent, NEW s, NEW t, NEW current \in s.queue,
         IsFiniteSet(ids), Joins(edges, ids),
         SortTyped(ids, s), InOrderOf(edges, s), Waiting(edges, ids, s), SortTyped(ids, t),
         Popped(edges, ids, agent, s, t, current)
  PROVE  Waiting(edges, ids, t)
<1>1. current \in ids /\ current \notin Listed(s) /\ Graph!Sources(edges, current) \subseteq Listed(s)
  BY DEF SortTyped, Waiting
<1>2. Listed(t) = Listed(s) \cup {current}
  BY ListedGrows
<1>3. ASSUME NEW id \in ids
      PROVE  /\ IsFiniteSet(Graph!Sources(edges, id) \ Listed(s))
             /\ IsFiniteSet(Graph!Sources(edges, id) \ Listed(t))
  <2>1. /\ Graph!Sources(edges, id) \ Listed(s) \in SUBSET ids
        /\ Graph!Sources(edges, id) \ Listed(t) \in SUBSET ids
    BY SourcesAndTargets
  <2> QED BY <2>1, FS_Subset
<1>4. ASSUME NEW id \in ids
      PROVE  t.pending[id] = Cardinality(Graph!Sources(edges, id) \ Listed(t))
  <2> DEFINE W == Graph!Sources(edges, id) \ Listed(s)
  <2>1. Graph!Sources(edges, id) \ Listed(t) = W \ {current}
    BY <1>2
  <2>2. s.pending[id] = Cardinality(W) /\ IsFiniteSet(W)
    BY <1>3 DEF Waiting
  <2>3. current \in W <=> current \in Graph!Sources(edges, id)
    BY <1>1
  <2>4. t.pending[id] = s.pending[id] - (IF current \in Graph!Sources(edges, id) THEN 1 ELSE 0)
    BY DEF Popped
  <2>5. s.pending[id] \in Nat
    BY DEF SortTyped
  <2> HIDE DEF W
  <2>6. Cardinality(W \ {current}) = IF current \in W THEN Cardinality(W) - 1 ELSE Cardinality(W)
    BY <2>2, FS_RemoveElement
  <2>7. CASE current \in W
    <3>1. t.pending[id] = s.pending[id] - 1 /\ Cardinality(W \ {current}) = Cardinality(W) - 1
      BY <2>3, <2>4, <2>6, <2>7
    <3>2. t.pending[id] = Cardinality(W \ {current})
      BY <3>1, <2>2
    <3> QED BY <3>2, <2>1, Zenon
  <2>8. CASE current \notin W
    <3>1. t.pending[id] = s.pending[id] - 0 /\ Cardinality(W \ {current}) = Cardinality(W)
      BY <2>3, <2>4, <2>6, <2>8
    <3>2. t.pending[id] = Cardinality(W \ {current})
      BY <3>1, <2>2, <2>5
    <3> QED BY <3>2, <2>1, Zenon
  <2> QED BY <2>7, <2>8
<1>5. \A id \in ids : t.pending[id] = 0 <=> Graph!Sources(edges, id) \subseteq Listed(t)
  <2>1. ASSUME NEW id \in ids PROVE t.pending[id] = 0 <=> Graph!Sources(edges, id) \ Listed(t) = {}
    BY <1>3, <1>4, FS_EmptySet
  <2> QED BY <2>1
<1>6. \A id \in ids : id \in t.queue <=>
        \/ id \in s.queue /\ id # current
        \/ current \in Graph!Sources(edges, id) /\ t.pending[id] = 0
  <2>1. t.queue = (s.queue \ {current})
                  \cup {id \in ids : current \in Graph!Sources(edges, id) /\ t.pending[id] = 0}
    BY DEF Popped
  <2> QED BY <2>1
<1>7. t.queue \cap Listed(t) = {}
  <2>1. ASSUME NEW id \in t.queue, id \in Listed(t) PROVE FALSE
    <3>1. id \in ids
      BY DEF SortTyped
    <3>2. CASE id \in s.queue /\ id # current
      BY <3>2, <2>1, <1>2 DEF Waiting
    <3>3. CASE current \in Graph!Sources(edges, id)
      <4>1. id \in s.queue \cup Listed(s)
        BY <2>1, <1>2
      <4>2. Graph!Sources(edges, id) \subseteq Listed(s)
        BY <3>1, <4>1 DEF Waiting
      <4> QED BY <4>2, <3>3, <1>1
    <3> QED BY <3>1, <3>2, <3>3, <1>6
  <2> QED BY <2>1
<1>8. ASSUME NEW id \in ids
      PROVE  id \in t.queue \cup Listed(t) <=> Graph!Sources(edges, id) \subseteq Listed(t)
  <2>1. id \in s.queue \cup Listed(s) <=> Graph!Sources(edges, id) \subseteq Listed(s)
    BY DEF Waiting
  <2>2. CASE current \in Graph!Sources(edges, id)
    <3>1. ~(id \in s.queue \cup Listed(s))
      BY <2>1, <2>2, <1>1
    <3>2. id # current
      BY <3>1
    <3> QED BY <2>2, <3>1, <3>2, <1>2, <1>5, <1>6
  <2>3. CASE current \notin Graph!Sources(edges, id)
    <3>1. Graph!Sources(edges, id) \subseteq Listed(t) <=> Graph!Sources(edges, id) \subseteq Listed(s)
      BY <2>3, <1>2
    <3>2. id \in t.queue <=> id \in s.queue /\ id # current
      BY <2>3, <1>6
    <3>3. id \in t.queue \cup Listed(t) <=> id \in s.queue \cup Listed(s)
      BY <3>2, <1>2, Zenon
    <3> QED BY <2>1, <3>1, <3>3
  <2> QED BY <2>2, <2>3
<1> QED BY <1>4, <1>7, <1>8 DEF Waiting

LEMMA ChainOfOne ==
  ASSUME NEW edges, NEW ids, NEW agent \in [ids -> {0, 1}], NEW id \in ids
  PROVE  Reaching(edges, ids, agent, id, agent[id])
<1> DEFINE p == <<id>>
<1>1. p \in Seq(ids) /\ Len(p) = 1 /\ p[1] = id /\ p # <<>>
  OBVIOUS
<1>2. 1..Len(p) = {1} /\ 1..Len(p) - 1 = {}
  BY <1>1
<1> HIDE DEF p
<1>3. p \in Chains(edges, ids)
  BY <1>1, <1>2 DEF Chains
<1>4. AgentsOn(agent, p) = agent[id]
  <2> DEFINE A == {i \in 1..Len(p) : agent[p[i]] = 1}
  <2>1. agent[id] \in {0, 1}
    OBVIOUS
  <2>2. CASE agent[id] = 1
    <3>1. A = {1}
      BY <2>2, <1>1, <1>2
    <3>2. Cardinality(A) = 1
      BY <3>1, FS_Singleton, Zenon
    <3> QED BY <2>2, <3>2 DEF AgentsOn
  <2>3. CASE agent[id] = 0
    <3>1. A = {}
      BY <2>3, <1>1, <1>2
    <3>2. Cardinality(A) = 0
      BY <3>1, FS_EmptySet, Zenon
    <3> QED BY <2>3, <3>2 DEF AgentsOn
  <2> QED BY <2>1, <2>2, <2>3
<1> QED BY <1>1, <1>3, <1>4 DEF Reaching

LEMMA AgentsAppended ==
  ASSUME NEW ids, NEW agent \in [ids -> {0, 1}], NEW p \in Seq(ids), NEW b \in ids
  PROVE  AgentsOn(agent, p) \in Nat /\ AgentsOn(agent, Append(p, b)) = AgentsOn(agent, p) + agent[b]
<1> DEFINE q == Append(p, b)
           A == {i \in 1..Len(p) : agent[p[i]] = 1}
           B == {i \in 1..Len(q) : agent[q[i]] = 1}
<1>1. /\ Len(p) \in Nat /\ Len(q) = Len(p) + 1
      /\ \A i \in 1..Len(p) : q[i] = p[i]
      /\ q[Len(p) + 1] = b
  BY AppendIs
<1>2. AgentsOn(agent, p) = Cardinality(A) /\ AgentsOn(agent, Append(p, b)) = Cardinality(B)
  BY Zenon DEF AgentsOn
<1>3. \A i : i \in 1..Len(q) <=> i \in 1..Len(p) \/ i = Len(p) + 1
  BY <1>1
<1>4. Len(p) + 1 \notin 1..Len(p)
  BY <1>1
<1>5. IsFiniteSet(A)
  <2>1. A \in SUBSET (1..Len(p))
    OBVIOUS
  <2>2. 1 \in Int /\ Len(p) \in Int
    BY <1>1
  <2>3. IsFiniteSet(1..Len(p))
    BY <2>2, FS_Interval
  <2> HIDE DEF A
  <2> QED BY <2>1, <2>3, FS_Subset
<1>6. Cardinality(A) \in Nat
  BY <1>5, FS_CardinalityType
<1>7. agent[b] \in {0, 1}
  OBVIOUS
<1> HIDE DEF q
<1>8. \A i : i \in B <=> i \in A \/ (i = Len(p) + 1 /\ agent[b] = 1)
  BY <1>1, <1>3, <1>4
<1>9. Len(p) + 1 \notin A
  BY <1>4
<1> DEFINE m == Len(p) + 1
<1> HIDE DEF A, B, m
<1>10. CASE agent[b] = 1
  <2>1. B = A \cup {m}
    BY <1>8, <1>10, Zenon DEF m
  <2>2. m \notin A
    BY <1>9 DEF m
  <2>3. Cardinality(A \cup {m}) = IF m \in A THEN Cardinality(A) ELSE Cardinality(A) + 1
    BY <1>5, FS_AddElement, Zenon
  <2>4. Cardinality(B) = Cardinality(A) + 1
    BY <2>1, <2>2, <2>3, Zenon
  <2> QED BY <1>6, <2>4, <1>10, <1>2
<1>11. CASE agent[b] = 0
  <2>1. B = A
    BY <1>8, <1>11, ~(0 = 1), Zenon
  <2> QED BY <1>6, <2>1, <1>11, <1>2
<1> QED BY <1>7, <1>10, <1>11

LEMMA ChainExtends ==
  ASSUME NEW edges, NEW ids, NEW p \in Chains(edges, ids), NEW b \in ids,
         p[Len(p)] \in Graph!Sources(edges, b)
  PROVE  /\ Append(p, b) \in Chains(edges, ids)
         /\ Append(p, b)[1] = p[1] /\ Append(p, b)[Len(Append(p, b))] = b
<1>1. p \in Seq(ids) /\ p # <<>> /\ \A i \in 1..Len(p) - 1 : p[i] \in Graph!Sources(edges, p[i + 1])
  BY DEF Chains
<1> DEFINE q == Append(p, b)
<1>2. /\ q \in Seq(ids) /\ q # <<>> /\ Len(p) \in Nat /\ Len(q) = Len(p) + 1
      /\ \A i \in 1..Len(p) : q[i] = p[i]
      /\ q[Len(p) + 1] = b
  BY <1>1, AppendIs
<1>3. Len(p) # 0
  BY <1>1, EmptySeq
<1> HIDE DEF q
<1>4. ASSUME NEW i \in 1..Len(q) - 1 PROVE q[i] \in Graph!Sources(edges, q[i + 1])
  <2>1. i \in 1..Len(p) /\ q[i] = p[i]
    BY <1>2
  <2>2. CASE i = Len(p)
    BY <2>1, <2>2, <1>2
  <2>3. CASE i # Len(p)
    <3>1. i \in 1..Len(p) - 1 /\ i + 1 \in 1..Len(p)
      BY <2>1, <2>3, <1>2
    <3> QED BY <3>1, <2>1, <1>1, <1>2
  <2> QED BY <2>2, <2>3
<1>5. q \in Chains(edges, ids)
  BY <1>2, <1>4 DEF Chains
<1>6. q[1] = p[1] /\ q[Len(q)] = b
  BY <1>2, <1>3
<1> QED BY <1>5, <1>6 DEF q

LEMMA ChainGoesOn ==
  ASSUME NEW edges, NEW ids, NEW agent \in [ids -> {0, 1}], NEW a, NEW b \in ids, NEW n \in Nat,
         a \in Graph!Sources(edges, b), Reaching(edges, ids, agent, a, n)
  PROVE  Reaching(edges, ids, agent, b, n + agent[b])
<1>1. PICK p \in Chains(edges, ids) : p[Len(p)] = a /\ AgentsOn(agent, p) = n
  BY DEF Reaching
<1>2. p \in Seq(ids)
  BY DEF Chains
<1>3. AgentsOn(agent, Append(p, b)) = n + agent[b]
  BY <1>1, <1>2, AgentsAppended
<1>4. Append(p, b) \in Chains(edges, ids) /\ Append(p, b)[Len(Append(p, b))] = b
  BY <1>1, ChainExtends
<1> QED BY <1>3, <1>4 DEF Reaching

LEMMA PopKeepsMeasured ==
  ASSUME NEW edges, NEW ids, NEW agent \in [ids -> {0, 1}], NEW s, NEW t, NEW current \in s.queue,
         SortTyped(ids, s), Waiting(edges, ids, s), Measured(edges, ids, agent, s),
         SortTyped(ids, t), Waiting(edges, ids, t),
         Popped(edges, ids, agent, s, t, current)
  PROVE  Measured(edges, ids, agent, t)
<1>1. current \in ids /\ current \notin Listed(s) /\ Graph!Sources(edges, current) \subseteq Listed(s)
  BY DEF SortTyped, Waiting
<1>2. \A id : id \in Listed(t) <=> id \in Listed(s) \/ id = current
  BY ListedGrows
<1>3. Len(t.order) = Len(s.order) + 1 /\ Len(s.order) \in Nat
  BY OrderGrows
<1>4. ASSUME NEW id \in ids
      PROVE  /\ s.distance[id] \in Nat /\ t.distance[id] \in Nat /\ agent[id] \in {0, 1}
             /\ t.distance[id] >= s.distance[id]
  <2>1. s.distance[id] \in Nat /\ t.distance[id] \in Nat /\ agent[id] \in {0, 1}
    BY DEF SortTyped
  <2>2. IF current \in Graph!Sources(edges, id)
        THEN t.distance[id] >= s.distance[id] ELSE t.distance[id] = s.distance[id]
    BY DEF Popped
  <2> QED BY <2>1, <2>2
<1>5. ASSUME NEW id \in ids, current \in Graph!Sources(edges, id)
      PROVE  /\ t.distance[id] \in {s.distance[id], s.distance[current] + agent[id]}
             /\ t.distance[id] >= s.distance[current] + agent[id]
  BY <1>5 DEF Popped
<1>6. \A id \in ids : current \notin Graph!Sources(edges, id) => t.distance[id] = s.distance[id]
  BY DEF Popped
<1>7. Listed(s) \subseteq ids
  <2>1. s.order \in Seq(ids)
    BY DEF SortTyped
  <2> QED BY <2>1, ElementOfSeq DEF Listed
<1>8. \A id \in Listed(t) : t.distance[id] = s.distance[id]
  <2>1. ASSUME NEW id \in Listed(s) PROVE current \notin Graph!Sources(edges, id)
    <3>1. Graph!Sources(edges, id) \subseteq Listed(s)
      BY <1>7 DEF Waiting
    <3> QED BY <3>1, <1>1
  <2> QED BY <2>1, <1>1, <1>2, <1>6, <1>7
<1>9. ASSUME NEW id \in ids PROVE t.distance[id] <= Len(t.order) + 1
  <2>1. s.distance[id] <= Len(s.order) + 1 /\ s.distance[current] <= Len(s.order) + 1
    BY <1>1 DEF Measured
  <2>2. s.distance[current] \in Nat
    BY <1>1, <1>4
  <2>3. t.distance[id] = s.distance[id] \/ t.distance[id] = s.distance[current] + agent[id]
    BY <1>5, <1>6
  <2>4. s.distance[id] \in Nat /\ agent[id] \in {0, 1}
    BY <1>4
  <2>5. \A n, x, y \in Nat, b \in {0, 1} :
          x <= n + 1 /\ y <= n + 1 => x <= (n + 1) + 1 /\ y + b <= (n + 1) + 1
    OBVIOUS
  <2>6. /\ s.distance[id] <= (Len(s.order) + 1) + 1
        /\ s.distance[current] + agent[id] <= (Len(s.order) + 1) + 1
    BY <2>1, <2>2, <2>4, <2>5, <1>3, Zenon
  <2>7. t.distance[id] <= (Len(s.order) + 1) + 1
    BY <2>3, <2>6, Zenon
  <2> QED BY <2>7, <1>3, Zenon
<1>10. ASSUME NEW id \in t.queue \cup Listed(t) PROVE t.distance[id] >= agent[id]
  <2>1. id \in ids
    BY <1>1, <1>2, <1>7 DEF SortTyped
  <2>2. CASE id \in s.queue \cup Listed(s)
    <3>1. s.distance[id] >= agent[id]
      BY <2>2 DEF Measured
    <3> QED BY <3>1, <2>1, <1>4
  <2>3. CASE ~(id \in s.queue \cup Listed(s))
    <3>1. current \in Graph!Sources(edges, id)
      <4>1. Graph!Sources(edges, id) \subseteq Listed(t)
        BY <2>1 DEF Waiting
      <4>2. ~(Graph!Sources(edges, id) \subseteq Listed(s))
        BY <2>1, <2>3 DEF Waiting
      <4> QED BY <4>1, <4>2, <1>2
    <3> QED BY <3>1, <2>1, <1>1, <1>4, <1>5
  <2> QED BY <2>2, <2>3
<1>11. ASSUME NEW a \in Listed(t), NEW b \in ids, a \in Graph!Sources(edges, b)
       PROVE  t.distance[b] >= t.distance[a] + agent[b]
  <2>1. a \in ids /\ t.distance[a] = s.distance[a]
    BY <1>1, <1>2, <1>7, <1>8
  <2>2. CASE a = current
    BY <2>1, <2>2, <1>5, <1>11
  <2>3. CASE a \in Listed(s)
    <3>1. s.distance[b] >= s.distance[a] + agent[b]
      BY <2>3, <1>11 DEF Measured
    <3> QED BY <3>1, <2>1, <1>4
  <2> QED BY <2>2, <2>3, <1>2
<1>12. ASSUME NEW id \in ids, id \in t.queue \cup Listed(t) \/ t.distance[id] # 0
       PROVE  Reaching(edges, ids, agent, id, t.distance[id])
  <2>1. CASE current \in Graph!Sources(edges, id) /\ t.distance[id] = s.distance[current] + agent[id]
    <3>1. Reaching(edges, ids, agent, current, s.distance[current])
      BY <1>1 DEF Measured
    <3>2. s.distance[current] \in Nat
      BY <1>1, <1>4
    <3>3. Reaching(edges, ids, agent, id, s.distance[current] + agent[id])
      BY <2>1, <3>1, <3>2, ChainGoesOn
    <3> QED BY <2>1, <3>3
  <2>2. CASE current \in Graph!Sources(edges, id) /\ t.distance[id] # s.distance[current] + agent[id]
    <3>1. t.distance[id] = s.distance[id] /\ t.distance[id] >= s.distance[current] + agent[id]
      BY <2>2, <1>5
    <3>2. s.distance[id] # 0
      BY <2>2, <3>1, <1>1, <1>4
    <3> QED BY <3>1, <3>2 DEF Measured
  <2>3. CASE current \notin Graph!Sources(edges, id)
    <3>1. t.distance[id] = s.distance[id]
      BY <2>3, <1>6
    <3>2. id \in t.queue \cup Listed(t) => id \in s.queue \cup Listed(s)
      BY <2>3, <1>2 DEF Popped
    <3> QED BY <3>1, <3>2, <1>12 DEF Measured
  <2> QED BY <2>1, <2>2, <2>3
<1> QED BY <1>9, <1>10, <1>11, <1>12 DEF Measured

LEMMA StartIsSound ==
  ASSUME NEW nodes, NEW edges, IsFiniteSet(NodeSet(nodes)), Joins(edges, NodeSet(nodes))
  PROVE  SortInv(edges, NodeSet(nodes), Agency(nodes), StartOf(nodes, edges))
<1> DEFINE ids == NodeSet(nodes)
           agent == Agency(nodes)
           s == StartOf(nodes, edges)
           roots == Graph!Roots(edges, ids)
<1>1. agent \in [ids -> {0, 1}]
  BY DEF Agency
<1>2. /\ s.order = <<>> /\ s.queue = roots
      /\ s.pending = [id \in ids |-> Graph!Cardinality(Graph!Sources(edges, id))]
      /\ s.distance = [id \in ids |-> IF id \in roots THEN agent[id] ELSE 0]
  BY DEF StartOf
<1>3. roots = {id \in ids : Graph!Sources(edges, id) = {}}
  BY DEF Graph!Roots
<1>4. Len(s.order) = 0 /\ 1..Len(s.order) = {}
  BY <1>2
<1>5. Listed(s) = {}
  BY <1>4 DEF Listed
<1> HIDE DEF ids, agent, s, roots
<1>6. ASSUME NEW id \in ids
      PROVE  /\ IsFiniteSet(Graph!Sources(edges, id))
             /\ s.pending[id] = Cardinality(Graph!Sources(edges, id)) /\ s.pending[id] \in Nat
  <2>1. Graph!Sources(edges, id) \in SUBSET ids
    BY SourcesAndTargets DEF ids
  <2>2. IsFiniteSet(Graph!Sources(edges, id))
    BY <2>1, FS_Subset DEF ids
  <2>3. s.pending[id] = Cardinality(Graph!Sources(edges, id))
    BY <1>2, SameCardinality
  <2> QED BY <2>2, <2>3, FS_CardinalityType
<1>7. SortTyped(ids, s)
  <2>1. s.pending \in [ids -> Nat]
    BY <1>2, <1>6
  <2>2. s.distance \in [ids -> Nat]
    BY <1>1, <1>2
  <2>3. s.order \in Seq(ids)
    BY <1>2, EmptySeq
  <2> QED BY <2>1, <2>2, <2>3, <1>2, <1>3 DEF SortTyped
<1>8. InOrderOf(edges, s)
  BY <1>4 DEF InOrderOf
<1>9. Waiting(edges, ids, s)
  <2>1. \A id \in ids : Graph!Sources(edges, id) \ Listed(s) = Graph!Sources(edges, id)
    BY <1>5
  <2>2. \A id \in ids : s.pending[id] = Cardinality(Graph!Sources(edges, id) \ Listed(s))
    BY <2>1, <1>6, Zenon
  <2>3. \A id \in ids : id \in s.queue \cup Listed(s) <=> Graph!Sources(edges, id) \subseteq Listed(s)
    BY <1>2, <1>3, <1>5
  <2> QED BY <1>5, <2>2, <2>3 DEF Waiting
<1>10. Measured(edges, ids, agent, s)
  <2>1. \A id \in ids : s.distance[id] = IF id \in roots THEN agent[id] ELSE 0
    BY <1>2
  <2>2. \A id \in ids : s.distance[id] <= Len(s.order) + 1
    BY <2>1, <1>1, <1>4
  <2>3. \A id \in s.queue \cup Listed(s) : s.distance[id] >= agent[id]
    BY <2>1, <1>1, <1>2, <1>3, <1>5
  <2>4. ASSUME NEW id \in ids, id \in s.queue \cup Listed(s) \/ s.distance[id] # 0
        PROVE  Reaching(edges, ids, agent, id, s.distance[id])
    <3>1. id \in roots
      BY <2>1, <2>4, <1>2, <1>5
    <3>2. s.distance[id] = agent[id]
      BY <2>1, <3>1
    <3> QED BY <3>2, <1>1, ChainOfOne
  <2> QED BY <2>2, <2>3, <2>4, <1>5 DEF Measured
<1>11. SortInv(edges, ids, agent, s)
  BY <1>7, <1>8, <1>9, <1>10 DEF SortInv
<1> QED BY <1>11 DEF ids, agent, s

(* As long as the queue is not empty each round lists one more. *)
RoundSound(edges, ids, agent, s, k) ==
  /\ SortInv(edges, ids, agent, s)
  /\ Len(s.order) <= k
  /\ Len(s.order) = k \/ s.queue = {}

LEMMA RoundIsSound ==
  ASSUME NEW edges, NEW ids, NEW agent \in [ids -> {0, 1}], NEW s, NEW k \in Nat,
         IsFiniteSet(ids), ids \subseteq Nat, Joins(edges, ids),
         RoundSound(edges, ids, agent, s, k)
  PROVE  RoundSound(edges, ids, agent, Graph!PopLeast(edges, agent, s), k + 1)
<1>1. /\ SortTyped(ids, s) /\ InOrderOf(edges, s) /\ Waiting(edges, ids, s)
      /\ Measured(edges, ids, agent, s)
  BY DEF RoundSound, SortInv
<1>2. Len(s.order) \in Nat
  BY <1>1, LenProperties DEF SortTyped
<1>3. CASE s.queue = {}
  <2>1. Graph!PopLeast(edges, agent, s) = s
    BY <1>3 DEF Graph!PopLeast
  <2>2. Len(s.order) <= k + 1
    BY <1>2 DEF RoundSound
  <2>3. RoundSound(edges, ids, agent, s, k + 1)
    BY <1>3, <2>2 DEF RoundSound
  <2> QED BY <2>1, <2>3
<1>4. CASE s.queue # {}
  <2> DEFINE t == Graph!PopLeast(edges, agent, s)
  <2>1. PICK current \in s.queue : Popped(edges, ids, agent, s, t, current)
    BY <1>1, <1>4, RoundPops
  <2> HIDE DEF t
  <2>2. SortTyped(ids, t)
    BY <1>1, <2>1, PopKeepsTyped
  <2>3. InOrderOf(edges, t)
    BY <1>1, <2>1, PopKeepsOrder
  <2>4. Waiting(edges, ids, t)
    BY <1>1, <2>1, <2>2, PopKeepsWaiting
  <2>5. Measured(edges, ids, agent, t)
    BY <1>1, <2>1, <2>2, <2>4, PopKeepsMeasured
  <2>6. Len(t.order) = Len(s.order) + 1
    BY <1>1, <2>1, OrderGrows
  <2>7. Len(s.order) = k
    BY <1>4 DEF RoundSound
  <2>8. RoundSound(edges, ids, agent, t, k + 1)
    BY <2>2, <2>3, <2>4, <2>5, <2>6, <2>7 DEF RoundSound, SortInv
  <2> QED BY <2>8 DEF t
<1> QED BY <1>3, <1>4

LEMMA SortIsSound ==
  ASSUME NEW nodes, NEW edges, NEW n \in Nat, DOMAIN nodes = 1..n,
         IsFiniteSet(NodeSet(nodes)), NodeSet(nodes) \subseteq Nat, Joins(edges, NodeSet(nodes))
  PROVE  RoundSound(edges, NodeSet(nodes), Agency(nodes), Graph!TopologicalSort(nodes, edges), n)
<1> DEFINE ids == NodeSet(nodes)
           agent == Agency(nodes)
<1>1. PICK g : Rounds(g, nodes, edges, n) /\ Graph!TopologicalSort(nodes, edges) = g[n]
  BY SortUnfolds
<1>2. g[0] = StartOf(nodes, edges) /\ \A k \in 1..n : g[k] = Graph!PopLeast(edges, agent, g[k - 1])
  BY <1>1 DEF Rounds
<1>3. agent \in [ids -> {0, 1}]
  BY DEF Agency
<1>4. RoundSound(edges, ids, agent, g[0], 0)
  <2>1. SortInv(edges, ids, agent, g[0])
    BY <1>2, StartIsSound
  <2>2. g[0].order = <<>>
    BY <1>2 DEF StartOf
  <2>3. Len(g[0].order) = 0
    BY <2>2
  <2> QED BY <2>1, <2>3 DEF RoundSound
<1> HIDE DEF ids, agent
<1> DEFINE Bad == {k \in 0..n : ~RoundSound(edges, ids, agent, g[k], k)}
<1>5. Bad = {}
  <2> SUFFICES ASSUME Bad # {} PROVE FALSE
    OBVIOUS
  <2>1. Bad \subseteq Nat
    OBVIOUS
  <2>2. PICK k \in Bad : \A j \in Bad : k <= j
    <3> HIDE DEF Bad
    <3> QED BY <2>1, NatMin
  <2>3. k \in 0..n /\ ~RoundSound(edges, ids, agent, g[k], k) /\ k # 0
    BY <1>4, <2>2
  <2>4. k \in 1..n /\ k - 1 \in 0..n /\ k - 1 \in Nat /\ (k - 1) + 1 = k /\ ~(k <= k - 1)
    BY <2>3
  <2>5. k - 1 \notin Bad
    <3> HIDE DEF Bad
    <3> QED BY <2>2, <2>4
  <2>6. RoundSound(edges, ids, agent, g[k - 1], k - 1)
    BY <2>4, <2>5
  <2>7. RoundSound(edges, ids, agent, Graph!PopLeast(edges, agent, g[k - 1]), (k - 1) + 1)
    <3>1. IsFiniteSet(ids) /\ ids \subseteq Nat /\ Joins(edges, ids)
      BY DEF ids
    <3> HIDE DEF Bad
    <3> QED BY <3>1, <2>4, <2>6, <1>3, RoundIsSound
  <2>8. g[k] = Graph!PopLeast(edges, agent, g[k - 1])
    BY <2>4, <1>2
  <2> QED BY <2>3, <2>4, <2>7, <2>8
<1>6. n \in 0..n
  OBVIOUS
<1>7. RoundSound(edges, ids, agent, g[n], n)
  BY <1>5, <1>6
<1> QED BY <1>1, <1>7 DEF ids, agent

(* A graph has no cycle when no chain has more nodes than there are. *)
Acyclic(edges, ids) == \A p \in Chains(edges, ids) : Len(p) <= Cardinality(ids)

LEMMA NodesAreCounted ==
  ASSUME NEW nodes, NEW n \in Nat, DOMAIN nodes = 1..n,
         \A i, j \in 1..n : nodes[i].node_id = nodes[j].node_id => i = j
  PROVE  IsFiniteSet(NodeSet(nodes)) /\ Cardinality(NodeSet(nodes)) = n
<1> DEFINE f == [i \in 1..n |-> nodes[i].node_id]
<1>1. f \in Bijection(1..n, NodeSet(nodes))
  BY DEF Bijection, Injection, IsInjective, Surjection, NodeSet
<1>2. ExistsBijection(1..n, NodeSet(nodes))
  BY <1>1 DEF ExistsBijection
<1>3. IsFiniteSet(1..n) /\ Cardinality(1..n) = n
  BY FS_Interval
<1> QED BY <1>2, <1>3, FS_Bijection

LEMMA OrderIsFull ==
  ASSUME NEW edges, NEW ids, NEW s, IsFiniteSet(ids), SortTyped(ids, s), InOrderOf(edges, s)
  PROVE  Len(s.order) = Cardinality(ids) <=> Listed(s) = ids
<1> DEFINE m == Len(s.order)
           f == [i \in 1..m |-> s.order[i]]
<1>1. s.order \in Seq(ids)
  BY DEF SortTyped
<1>2. m \in Nat /\ \A i \in 1..m : s.order[i] \in ids
  BY <1>1, LenProperties, ElementOfSeq
<1> HIDE DEF m
<1>3. f \in Injection(1..m, ids)
  BY <1>2 DEF Injection, IsInjective, InOrderOf, m
<1>4. IsFiniteSet(1..m) /\ Cardinality(1..m) = m
  BY <1>2, FS_Interval
<1>5. m = Cardinality(ids) <=> f \in Surjection(1..m, ids)
  BY <1>3, <1>4, FS_Injection
<1>6. f \in Surjection(1..m, ids) <=> Listed(s) = ids
  <2>1. f \in Surjection(1..m, ids) <=> \A id \in ids : \E i \in 1..m : s.order[i] = id
    BY <1>2 DEF Surjection
  <2>2. \A id : id \in Listed(s) <=> \E i \in 1..m : s.order[i] = id
    BY DEF Listed, m
  <2> QED BY <2>1, <2>2, <1>2
<1> QED BY <1>5, <1>6 DEF m

(* Chains follow the order: the i-th of a chain is not among the first i - 1. *)
LEMMA ChainsFollow ==
  ASSUME NEW edges, NEW ids, NEW s, SortTyped(ids, s), InOrderOf(edges, s), Listed(s) = ids,
         NEW p \in Chains(edges, ids)
  PROVE  Len(p) <= Len(s.order)
<1>1. p \in Seq(ids) /\ p # <<>> /\ \A i \in 1..Len(p) - 1 : p[i] \in Graph!Sources(edges, p[i + 1])
  BY DEF Chains
<1>2. Len(p) \in Nat \ {0} /\ Len(s.order) \in Nat /\ \A i \in 1..Len(p) : p[i] \in ids
  BY <1>1, EmptySeq, LenProperties, ElementOfSeq DEF SortTyped
<1> DEFINE Late(i) == \E j \in 1..Len(s.order) : i <= j /\ s.order[j] = p[i]
           Bad == {i \in 1..Len(p) : ~Late(i)}
<1>3. Bad = {}
  <2> SUFFICES ASSUME Bad # {} PROVE FALSE
    OBVIOUS
  <2>1. PICK i \in Bad : \A k \in Bad : i <= k
    <3>1. Bad \subseteq Nat
      OBVIOUS
    <3> HIDE DEF Bad
    <3> QED BY <3>1, NatMin
  <2>2. i \in 1..Len(p) /\ ~Late(i)
    BY <2>1
  <2>3. PICK j \in 1..Len(s.order) : s.order[j] = p[i]
    <3>1. p[i] \in Listed(s)
      BY <2>2, <1>2
    <3> QED BY <3>1 DEF Listed
  <2>4. i # 1
    BY <2>2, <2>3
  <2>5. i - 1 \in 1..Len(p) - 1 /\ i - 1 \in 1..Len(p) /\ (i - 1) + 1 = i /\ ~(i <= i - 1)
    BY <2>2, <2>4, <1>2
  <2>6. p[i - 1] \in Graph!Sources(edges, s.order[j])
    BY <2>3, <2>5, <1>1
  <2>7. PICK k \in 1..j - 1 : s.order[k] = p[i - 1]
    BY <2>6 DEF InOrderOf
  <2>8. i - 1 \notin Bad
    <3> HIDE DEF Bad
    <3> QED BY <2>1, <2>5
  <2>9. PICK l \in 1..Len(s.order) : i - 1 <= l /\ s.order[l] = p[i - 1]
    BY <2>5, <2>8
  <2>10. k \in 1..Len(s.order)
    BY <2>7, <1>2
  <2>11. k = l
    BY <2>7, <2>9, <2>10 DEF InOrderOf
  <2>12. i <= j
    BY <2>2, <2>7, <2>9, <2>11
  <2> QED BY <2>2, <2>3, <2>12
<1>4. Late(Len(p))
  BY <1>2, <1>3
<1> QED BY <1>2, <1>4

LEMMA ChainPrepended ==
  ASSUME NEW edges, NEW ids, NEW p \in Chains(edges, ids), NEW a \in ids,
         a \in Graph!Sources(edges, p[1])
  PROVE  \E q \in Chains(edges, ids) : q[1] = a /\ Len(q) = Len(p) + 1
<1>1. p \in Seq(ids) /\ p # <<>> /\ \A i \in 1..Len(p) - 1 : p[i] \in Graph!Sources(edges, p[i + 1])
  BY DEF Chains
<1>2. Len(p) \in Nat \ {0}
  BY <1>1, EmptySeq
<1> DEFINE h == <<a>>
           q == h \o p
<1>3. h \in Seq(ids) /\ Len(h) = 1 /\ h[1] = a
  OBVIOUS
<1> HIDE DEF h
<1>4. /\ q \in Seq(ids) /\ Len(q) = 1 + Len(p)
      /\ \A i \in 1..1 + Len(p) : q[i] = IF i <= 1 THEN h[i] ELSE p[i - 1]
  <2>1. /\ h \o p \in Seq(ids) /\ Len(h \o p) = Len(h) + Len(p)
        /\ \A i \in 1..Len(h) + Len(p) : (h \o p)[i] = IF i <= Len(h) THEN h[i] ELSE p[i - Len(h)]
    <3>1. h \in Seq(ids) /\ p \in Seq(ids)
      BY <1>1, <1>3
    <3> QED BY <3>1, ConcatProperties, Zenon
  <2> HIDE DEF q
  <2>2. q \in Seq(ids) /\ Len(q) = Len(h) + Len(p)
    BY <2>1 DEF q
  <2>3. \A i \in 1..Len(h) + Len(p) : q[i] = IF i <= Len(h) THEN h[i] ELSE p[i - Len(h)]
    BY <2>1 DEF q
  <2> QED BY <2>2, <2>3, <1>3
<1> HIDE DEF q
<1>5. q[1] = a /\ q[2] = p[1] /\ q # <<>>
  <2>1. q[1] = a /\ q[2] = p[1]
    BY <1>2, <1>3, <1>4
  <2>2. Len(q) # 0
    BY <1>2, <1>4
  <2> QED BY <2>1, <2>2, EmptySeq
<1>6. ASSUME NEW i \in 1..Len(q) - 1 PROVE q[i] \in Graph!Sources(edges, q[i + 1])
  <2>1. CASE i = 1
    BY <2>1, <1>5
  <2>2. CASE i # 1
    <3>1. /\ i - 1 \in 1..Len(p) - 1 /\ (i - 1) + 1 = i /\ i \in 1..1 + Len(p)
          /\ i + 1 \in 1..1 + Len(p) /\ (i + 1) - 1 = i
      BY <2>2, <1>2, <1>4
    <3>2. q[i] = p[i - 1] /\ q[i + 1] = p[i]
      BY <3>1, <2>2, <1>4
    <3> QED BY <3>1, <3>2, <1>1
  <2> QED BY <2>1, <2>2
<1>7. q \in Chains(edges, ids)
  BY <1>4, <1>5, <1>6 DEF Chains
<1>8. Len(q) = Len(p) + 1
  BY <1>2, <1>4
<1> QED BY <1>5, <1>7, <1>8

LEMMA SingleChain ==
  ASSUME NEW edges, NEW ids, NEW id \in ids
  PROVE  \E p \in Chains(edges, ids) : Len(p) = 1 /\ p[1] = id /\ p = Append(<<>>, id)
<1> DEFINE p == Append(<<>>, id)
<1>1. <<>> \in Seq(ids) /\ Len(<<>>) = 0
  BY EmptySeq
<1>2. p \in Seq(ids) /\ p # <<>> /\ Len(p) = 0 + 1 /\ p[0 + 1] = id
  BY <1>1, AppendIs
<1> HIDE DEF p
<1>3. 1..Len(p) - 1 = {}
  BY <1>2
<1>4. p \in Chains(edges, ids)
  BY <1>2, <1>3 DEF Chains
<1>5. Len(p) = 1 /\ p[1] = id
  BY <1>2
<1> QED BY <1>4, <1>5 DEF p

(* What a sort that is stuck has not listed leads back to itself for ever. *)
LEMMA StuckOnACycle ==
  ASSUME NEW edges, NEW ids, NEW s, IsFiniteSet(ids), Joins(edges, ids),
         SortTyped(ids, s), Waiting(edges, ids, s), s.queue = {}, Listed(s) # ids
  PROVE  ~Acyclic(edges, ids)
<1> DEFINE Rest == ids \ Listed(s)
<1>1. PICK x : x \in Rest
  <2>1. Listed(s) \subseteq ids
    BY ElementOfSeq DEF SortTyped, Listed
  <2> QED BY <2>1
<1>2. \A b \in Rest : \E a \in Rest : a \in Graph!Sources(edges, b)
  <2>1. ASSUME NEW b \in Rest PROVE \E a \in Rest : a \in Graph!Sources(edges, b)
    <3>1. ~(Graph!Sources(edges, b) \subseteq Listed(s))
      BY <2>1 DEF Waiting
    <3>2. Graph!Sources(edges, b) \subseteq ids
      BY SourcesAndTargets
    <3> QED BY <3>1, <3>2
  <2> QED BY <2>1
<1> DEFINE Long(m) == \E p \in Chains(edges, ids) : p[1] \in Rest /\ Len(p) = m
           Bad == {m \in Nat \ {0} : ~Long(m)}
<1>3. Bad = {}
  <2> SUFFICES ASSUME Bad # {} PROVE FALSE
    OBVIOUS
  <2>1. PICK m \in Bad : \A k \in Bad : m <= k
    <3>1. Bad \subseteq Nat
      OBVIOUS
    <3> HIDE DEF Bad
    <3> QED BY <3>1, NatMin
  <2>2. m \in Nat \ {0} /\ ~Long(m)
    BY <2>1
  <2>3. CASE m = 1
    <3>1. PICK p \in Chains(edges, ids) : Len(p) = 1 /\ p[1] = x
      BY <1>1, SingleChain
    <3> QED BY <3>1, <2>2, <2>3, <1>1
  <2>4. CASE m # 1
    <3>1. m - 1 \in Nat \ {0} /\ ~(m <= m - 1) /\ (m - 1) + 1 = m
      BY <2>2, <2>4
    <3>2. m - 1 \notin Bad
      <4> HIDE DEF Bad
      <4> QED BY <2>1, <3>1
    <3>3. PICK p \in Chains(edges, ids) : p[1] \in Rest /\ Len(p) = m - 1
      BY <3>1, <3>2
    <3>4. PICK a \in Rest : a \in Graph!Sources(edges, p[1])
      BY <3>3, <1>2
    <3>5. PICK q \in Chains(edges, ids) : q[1] = a /\ Len(q) = Len(p) + 1
      BY <3>4, ChainPrepended
    <3>6. Len(q) = m
      BY <3>1, <3>3, <3>5
    <3> QED BY <2>2, <3>4, <3>5, <3>6
  <2> QED BY <2>3, <2>4
<1>4. Cardinality(ids) \in Nat
  BY FS_CardinalityType
<1>5. Cardinality(ids) + 1 \in Nat \ {0} /\ ~(Cardinality(ids) + 1 <= Cardinality(ids))
  BY <1>4
<1>6. PICK p \in Chains(edges, ids) : Len(p) = Cardinality(ids) + 1
  BY <1>3, <1>5
<1> QED BY <1>5, <1>6 DEF Acyclic

LeadsTo(edges, ids, a, id) == \E p \in Chains(edges, ids) : p[1] = a /\ p[Len(p)] = id

LEMMA RootReachesAll ==
  ASSUME NEW edges, NEW ids, NEW s, NEW root \in ids,
         SortTyped(ids, s), InOrderOf(edges, s), Listed(s) = ids,
         \A id \in ids \ {root} : Graph!Sources(edges, id) # {}
  PROVE  \A id \in ids : LeadsTo(edges, ids, root, id)
<1>1. Len(s.order) \in Nat /\ \A k \in 1..Len(s.order) : s.order[k] \in ids
  BY LenProperties, ElementOfSeq DEF SortTyped
<1> DEFINE Bad == {k \in 1..Len(s.order) : ~LeadsTo(edges, ids, root, s.order[k])}
<1>2. Bad = {}
  <2> SUFFICES ASSUME Bad # {} PROVE FALSE
    OBVIOUS
  <2>1. PICK k \in Bad : \A j \in Bad : k <= j
    <3>1. Bad \subseteq Nat
      OBVIOUS
    <3> HIDE DEF Bad
    <3> QED BY <3>1, NatMin
  <2>2. k \in 1..Len(s.order) /\ ~LeadsTo(edges, ids, root, s.order[k]) /\ s.order[k] \in ids
    BY <2>1, <1>1
  <2>3. CASE s.order[k] = root
    <3>1. PICK p \in Chains(edges, ids) : Len(p) = 1 /\ p[1] = root
      BY SingleChain
    <3> QED BY <3>1, <2>2, <2>3 DEF LeadsTo
  <2>4. CASE s.order[k] # root
    <3>1. PICK a : a \in Graph!Sources(edges, s.order[k])
      BY <2>2, <2>4
    <3>2. PICK j \in 1..k - 1 : s.order[j] = a
      BY <2>2, <3>1 DEF InOrderOf
    <3>3. j \in 1..Len(s.order) /\ ~(k <= j)
      BY <2>2, <3>2, <1>1
    <3>4. j \notin Bad
      <4> HIDE DEF Bad
      <4> QED BY <2>1, <3>3
    <3>5. PICK p \in Chains(edges, ids) : p[1] = root /\ p[Len(p)] = a
      BY <3>2, <3>3, <3>4 DEF LeadsTo
    <3>6. /\ Append(p, s.order[k]) \in Chains(edges, ids)
          /\ Append(p, s.order[k])[1] = root
          /\ Append(p, s.order[k])[Len(Append(p, s.order[k]))] = s.order[k]
      BY <2>2, <3>1, <3>5, ChainExtends
    <3> QED BY <2>2, <3>6 DEF LeadsTo
  <2> QED BY <2>3, <2>4
<1>3. ASSUME NEW id \in ids PROVE LeadsTo(edges, ids, root, id)
  <2>1. PICK k \in 1..Len(s.order) : s.order[k] = id
    BY DEF Listed
  <2> QED BY <2>1, <1>2
<1> QED BY <1>3

LEMMA NoChainIsLonger ==
  ASSUME NEW edges, NEW ids, NEW agent \in [ids -> {0, 1}], NEW s,
         SortTyped(ids, s), Measured(edges, ids, agent, s), Listed(s) = ids
  PROVE  \A p \in Chains(edges, ids) :
           p[Len(p)] \in ids /\ AgentsOn(agent, p) \in Nat
           /\ AgentsOn(agent, p) <= s.distance[p[Len(p)]]
<1> DEFINE Bounded(p) == /\ p[Len(p)] \in ids /\ AgentsOn(agent, p) \in Nat
                         /\ AgentsOn(agent, p) <= s.distance[p[Len(p)]]
           Bad == {m \in Nat : \E p \in Chains(edges, ids) : Len(p) = m /\ ~Bounded(p)}
<1>1. Bad = {}
  <2> SUFFICES ASSUME Bad # {} PROVE FALSE
    OBVIOUS
  <2>1. PICK m \in Bad : \A k \in Bad : m <= k
    <3>1. Bad \subseteq Nat
      OBVIOUS
    <3> HIDE DEF Bad
    <3> QED BY <3>1, NatMin
  <2>2. PICK p \in Chains(edges, ids) : Len(p) = m /\ ~Bounded(p)
    BY <2>1
  <2>3. p \in Seq(ids) /\ p # <<>> /\ \A i \in 1..Len(p) - 1 : p[i] \in Graph!Sources(edges, p[i + 1])
    BY DEF Chains
  <2>4. PICK q \in Seq(ids), b \in ids : p = Append(q, b)
    BY <2>3, SequenceEmptyOrAppend
  <2>5. /\ Len(q) \in Nat /\ Len(p) = Len(q) + 1 /\ p[Len(q) + 1] = b
        /\ \A i \in 1..Len(q) : p[i] = q[i]
    BY <2>4, AppendIs
  <2>6. AgentsOn(agent, q) \in Nat /\ AgentsOn(agent, p) = AgentsOn(agent, q) + agent[b]
    BY <2>4, AgentsAppended
  <2>7. s.distance[b] \in Nat /\ agent[b] \in {0, 1} /\ s.distance[b] >= agent[b]
    BY DEF SortTyped, Measured
  <2>8. p[Len(p)] = b
    BY <2>5
  <2>9. CASE q = <<>>
    <3>1. AgentsOn(agent, q) = 0
      <4>1. 1..Len(q) = {}
        BY <2>9, EmptySeq
      <4>2. {i \in 1..Len(q) : agent[q[i]] = 1} = {}
        BY <4>1
      <4> QED BY <4>2, FS_EmptySet, Zenon DEF AgentsOn
    <3> QED BY <3>1, <2>2, <2>6, <2>7, <2>8
  <2>10. CASE q # <<>>
    <3>1. Len(q) # 0
      BY <2>10, EmptySeq
    <3>2. ASSUME NEW i \in 1..Len(q) - 1 PROVE q[i] \in Graph!Sources(edges, q[i + 1])
      <4>1. i \in 1..Len(p) - 1 /\ i \in 1..Len(q) /\ i + 1 \in 1..Len(q)
        BY <2>5
      <4> QED BY <4>1, <2>3, <2>5
    <3>3. q \in Chains(edges, ids)
      BY <2>10, <3>2 DEF Chains
    <3>4. Bounded(q)
      <4>1. Len(q) \in Nat /\ ~(m <= Len(q))
        BY <2>2, <2>5
      <4>2. Len(q) \notin Bad
        <5> HIDE DEF Bad
        <5> QED BY <2>1, <4>1
      <4> QED BY <3>3, <4>1, <4>2
    <3>5. q[Len(q)] \in Graph!Sources(edges, b)
      <4>1. Len(q) \in 1..Len(p) - 1 /\ Len(q) \in 1..Len(q)
        BY <2>5, <3>1
      <4> QED BY <4>1, <2>3, <2>5
    <3>6. s.distance[b] >= s.distance[q[Len(q)]] + agent[b]
      BY <3>4, <3>5 DEF Measured
    <3>7. s.distance[q[Len(q)]] \in Nat
      BY <3>4 DEF SortTyped
    <3> QED BY <3>4, <3>6, <3>7, <2>2, <2>6, <2>7, <2>8
  <2> QED BY <2>9, <2>10
<1>2. ASSUME NEW p \in Chains(edges, ids) PROVE Bounded(p)
  <2>1. Len(p) \in Nat
    BY LenProperties DEF Chains
  <2> QED BY <2>1, <1>1
<1> QED BY <1>2

(* No chain holds more agents than depth, and one holds as many. *)
Deepest(edges, ids, agent, depth) ==
  /\ depth \in Nat
  /\ \A p \in Chains(edges, ids) : AgentsOn(agent, p) <= depth
  /\ \E p \in Chains(edges, ids) : AgentsOn(agent, p) = depth

DepthOf(s) == Graph!Max({0} \cup Graph!Range(s.distance))

LEMMA DepthIs ==
  ASSUME NEW edges, NEW ids, NEW agent \in [ids -> {0, 1}], NEW s, ids # {},
         SortTyped(ids, s), Measured(edges, ids, agent, s), Listed(s) = ids
  PROVE  Deepest(edges, ids, agent, DepthOf(s))
<1> DEFINE D == {0} \cup Graph!Range(s.distance)
<1>1. s.distance \in [ids -> Nat] /\ Len(s.order) \in Nat
  BY LenProperties DEF SortTyped
<1>2. Graph!Range(s.distance) = {s.distance[id] : id \in ids}
  BY <1>1 DEF Graph!Range
<1>3. \A id \in ids : s.distance[id] \in 0..Len(s.order) + 1
  BY <1>1 DEF Measured
<1>4. D \subseteq 0..Len(s.order) + 1 /\ D # {} /\ Len(s.order) + 1 \in Nat
  BY <1>1, <1>2, <1>3
<1>5. \A d : d \in D <=> d = 0 \/ \E id \in ids : d = s.distance[id]
  BY <1>2
<1> HIDE DEF D
<1>6. PICK depth : depth = Graph!Max(D)
  OBVIOUS
<1>7. depth \in D /\ \A d \in D : d <= depth
  BY <1>4, <1>6, GraphMaxIs
<1>8. depth \in Nat
  BY <1>4, <1>7
<1>9. ASSUME NEW p \in Chains(edges, ids) PROVE AgentsOn(agent, p) <= depth
  <2>1. /\ p[Len(p)] \in ids /\ AgentsOn(agent, p) \in Nat
        /\ AgentsOn(agent, p) <= s.distance[p[Len(p)]]
    BY NoChainIsLonger
  <2>2. s.distance[p[Len(p)]] <= depth /\ s.distance[p[Len(p)]] \in Nat
    BY <2>1, <1>1, <1>5, <1>7
  <2> QED BY <2>1, <2>2, <1>8
<1>10. \E p \in Chains(edges, ids) : AgentsOn(agent, p) = depth
  <2>1. \A id \in ids : Reaching(edges, ids, agent, id, s.distance[id])
    BY DEF Measured
  <2>2. CASE depth = 0
    <3>1. PICK id : id \in ids
      OBVIOUS
    <3>2. PICK p \in Chains(edges, ids) : Len(p) = 1
      BY <3>1, SingleChain
    <3>3. AgentsOn(agent, p) \in Nat /\ AgentsOn(agent, p) <= depth
      BY <3>2, <1>9, NoChainIsLonger
    <3> QED BY <2>2, <3>2, <3>3
  <2>3. CASE \E id \in ids : depth = s.distance[id]
    BY <2>1, <2>3 DEF Reaching
  <2> QED BY <2>2, <2>3, <1>5, <1>7
<1>11. depth = DepthOf(s)
  BY <1>6 DEF DepthOf, D
<1> QED BY <1>8, <1>9, <1>10, <1>11 DEF Deepest

LEMMA FanOutIs ==
  ASSUME NEW edges, NEW ids, NEW limit \in Nat, IsFiniteSet(ids), Joins(edges, ids)
  PROVE  ~(Graph!FanOut(edges, ids) > limit)
           <=> \A id \in ids : Cardinality(Graph!Targets(edges, id)) <= limit
<1> DEFINE D == {0} \cup {Graph!Cardinality(Graph!Targets(edges, id)) : id \in ids}
<1>1. \A id \in ids :
        /\ Graph!Targets(edges, id) \in SUBSET ids
        /\ Graph!Cardinality(Graph!Targets(edges, id)) = Cardinality(Graph!Targets(edges, id))
  BY SourcesAndTargets, SameCardinality
<1>2. ASSUME NEW id \in ids
      PROVE  /\ Cardinality(Graph!Targets(edges, id)) \in Nat
             /\ Cardinality(Graph!Targets(edges, id)) <= Cardinality(ids)
  BY <1>1, FS_Subset, FS_CardinalityType
<1>3. Cardinality(ids) \in Nat
  BY FS_CardinalityType
<1>4. \A d : d \in D <=> d = 0 \/ \E id \in ids : d = Cardinality(Graph!Targets(edges, id))
  BY <1>1
<1>5. Graph!FanOut(edges, ids) = Graph!Max(D)
  BY DEF Graph!FanOut
<1> HIDE DEF D
<1>6. D \subseteq 0..Cardinality(ids) /\ D # {}
  BY <1>2, <1>3, <1>4
<1>7. PICK most : most = Graph!Max(D)
  OBVIOUS
<1>8. most \in D /\ \A d \in D : d <= most
  BY <1>3, <1>6, <1>7, GraphMaxIs
<1>9. most \in Nat
  BY <1>3, <1>6, <1>8
<1>10. ~(most > limit) <=> \A d \in D : d <= limit
  BY <1>3, <1>6, <1>8, <1>9
<1>11. (\A d \in D : d <= limit) <=> \A id \in ids : Cardinality(Graph!Targets(edges, id)) <= limit
  BY <1>4
<1> QED BY <1>5, <1>7, <1>10, <1>11

HasOneRoot(edges, ids) ==
  \E root \in ids : \A id \in ids : Graph!Sources(edges, id) = {} <=> id = root

LEMMA OneRoot ==
  ASSUME NEW edges, NEW ids, IsFiniteSet(ids)
  PROVE  Graph!Cardinality(Graph!Roots(edges, ids)) = 1 <=> HasOneRoot(edges, ids)
<1> DEFINE R == Graph!Roots(edges, ids)
<1>1. R = {id \in ids : Graph!Sources(edges, id) = {}}
  BY DEF Graph!Roots
<1>2. R \in SUBSET ids /\ \A id : id \in R <=> id \in ids /\ Graph!Sources(edges, id) = {}
  BY <1>1
<1> HIDE DEF R
<1>3. IsFiniteSet(R)
  BY <1>2, FS_Subset
<1>4. Cardinality(R) = 1 <=> \E root : R = {root}
  BY <1>3, FS_Singleton, Zenon
<1>5. (\E root : R = {root})
        <=> \E root \in ids : \A id \in ids : Graph!Sources(edges, id) = {} <=> id = root
  <2>1. ASSUME NEW root, R = {root}
        PROVE  root \in ids /\ \A id \in ids : Graph!Sources(edges, id) = {} <=> id = root
    BY <2>1, <1>2
  <2>2. ASSUME NEW root \in ids, \A id \in ids : Graph!Sources(edges, id) = {} <=> id = root
        PROVE  R = {root}
    BY <2>2, <1>2
  <2> QED BY <2>1, <2>2
<1>6. Graph!Cardinality(R) = Cardinality(R)
  BY SameCardinality
<1> QED BY <1>4, <1>5, <1>6 DEF R, HasOneRoot

(* A sequence of checks whose failures all have a code, and one without failures. *)
Coded(checks) == \A i \in DOMAIN checks : checks[i][2] => checks[i][1] # "ok"
Clean(checks) == \A i \in DOMAIN checks : ~checks[i][2]

LEMMA NoFirstError ==
  ASSUME NEW checks, DOMAIN checks \subseteq Nat, Coded(checks)
  PROVE  Graph!FirstError(checks) = "ok" <=> Clean(checks)
<1> DEFINE failing == {i \in DOMAIN checks : checks[i][2]}
<1>1. Graph!FirstError(checks) = IF failing = {} THEN "ok" ELSE checks[Graph!Min(failing)][1]
  BY Zenon DEF Graph!FirstError
<1>2. failing = {} <=> Clean(checks)
  BY Zenon DEF Clean
<1>3. failing # {} => Graph!Min(failing) \in failing
  <2>1. failing \subseteq Nat
    OBVIOUS
  <2> HIDE DEF failing
  <2> QED BY <2>1, GraphMinIs
<1>4. failing # {} => checks[Graph!Min(failing)][1] # "ok"
  BY <1>3, Zenon DEF Coded
<1> HIDE DEF failing
<1> QED BY <1>1, <1>2, <1>4

LEMMA ConcatChecks ==
  ASSUME NEW S, NEW a \in Seq(S), NEW b \in Seq(S)
  PROVE  /\ a \o b \in Seq(S)
         /\ Clean(a \o b) <=> Clean(a) /\ Clean(b)
         /\ Coded(a) /\ Coded(b) => Coded(a \o b)
<1> DEFINE c == a \o b
<1>1. /\ c \in Seq(S) /\ Len(c) = Len(a) + Len(b)
      /\ \A i \in 1..Len(a) + Len(b) : c[i] = IF i <= Len(a) THEN a[i] ELSE b[i - Len(a)]
  BY ConcatProperties
<1>2. /\ Len(a) \in Nat /\ DOMAIN a = 1..Len(a) /\ Len(b) \in Nat /\ DOMAIN b = 1..Len(b)
      /\ DOMAIN c = 1..Len(c)
  BY <1>1, LenProperties
<1> HIDE DEF c
<1>3. \A i \in DOMAIN a : i \in DOMAIN c /\ c[i] = a[i]
  BY <1>1, <1>2
<1>4. \A i \in DOMAIN b : Len(a) + i \in DOMAIN c /\ c[Len(a) + i] = b[i]
  BY <1>1, <1>2
<1>5. \A i \in DOMAIN c : \/ i \in DOMAIN a /\ c[i] = a[i]
                          \/ i - Len(a) \in DOMAIN b /\ c[i] = b[i - Len(a)]
  BY <1>1, <1>2
<1>6. Clean(c) <=> Clean(a) /\ Clean(b)
  BY <1>3, <1>4, <1>5, Zenon DEF Clean
<1>7. Coded(a) /\ Coded(b) => Coded(c)
  BY <1>5, Zenon DEF Coded
<1> QED BY <1>1, <1>6, <1>7 DEF c

LEMMA ThreeChecks ==
  ASSUME NEW a \in BOOLEAN, NEW b \in BOOLEAN, NEW c \in BOOLEAN
  PROVE  Graph!FirstError(<< <<"unknown_node", a>>, <<"self_edge", b>>, <<"duplicate_edge", c>> >>)
           = "ok" <=> ~a /\ ~b /\ ~c
<1> DEFINE checks == << <<"unknown_node", a>>, <<"self_edge", b>>, <<"duplicate_edge", c>> >>
<1>1. DOMAIN checks = 1..3 /\ 1..3 = {1, 2, 3} /\ 1..3 \subseteq Nat
  OBVIOUS
<1>2. /\ checks[1] = <<"unknown_node", a>> /\ checks[2] = <<"self_edge", b>>
      /\ checks[3] = <<"duplicate_edge", c>>
  OBVIOUS
<1> HIDE DEF checks
<1>3. Coded(checks) /\ (Clean(checks) <=> ~a /\ ~b /\ ~c)
  BY <1>1, <1>2 DEF Coded, Clean
<1>4. Graph!FirstError(checks) = "ok" <=> Clean(checks)
  BY <1>1, <1>3, NoFirstError
<1> QED BY <1>3, <1>4 DEF checks

EdgeIsFine(nodes, edges, i) ==
  /\ edges[i].from \in NodeSet(nodes) /\ edges[i].to \in NodeSet(nodes)
  /\ edges[i].from # edges[i].to
  /\ \A j \in 1..i - 1 : edges[j].from # edges[i].from \/ edges[j].to # edges[i].to

LEMMA EdgeChecks ==
  ASSUME NEW nodes, NEW edges, NEW i
  PROVE  Graph!EdgeError(nodes, edges, i) = "ok" <=> EdgeIsFine(nodes, edges, i)
<1> DEFINE a == ~({edges[i].from, edges[i].to} \subseteq NodeSet(nodes))
           b == edges[i].from = edges[i].to
           c == \E j \in 1..i - 1 : edges[j].from = edges[i].from /\ edges[j].to = edges[i].to
<1>1. Graph!EdgeError(nodes, edges, i)
        = Graph!FirstError(<< <<"unknown_node", a>>, <<"self_edge", b>>, <<"duplicate_edge", c>> >>)
  BY Zenon DEF Graph!EdgeError, NodeSet
<1>2. a \in BOOLEAN /\ b \in BOOLEAN /\ c \in BOOLEAN
  OBVIOUS
<1>3. ~a /\ ~b /\ ~c <=> EdgeIsFine(nodes, edges, i)
  BY DEF EdgeIsFine
<1> HIDE DEF a, b, c
<1>4. Graph!FirstError(<< <<"unknown_node", a>>, <<"self_edge", b>>, <<"duplicate_edge", c>> >>) = "ok"
        <=> ~a /\ ~b /\ ~c
  BY <1>2, ThreeChecks
<1> QED BY <1>1, <1>3, <1>4

LEMMA ShapeChecks ==
  ASSUME NEW a \in BOOLEAN, NEW b \in BOOLEAN, NEW c \in BOOLEAN, NEW d \in BOOLEAN
  PROVE  Graph!FirstError(<< <<"fan_out_limit", a>>, <<"cycle", b>>, <<"root_count", c>>,
                             <<"depth_limit", d>> >>) = "ok" <=> ~a /\ ~b /\ ~c /\ ~d
<1> DEFINE checks == << <<"fan_out_limit", a>>, <<"cycle", b>>, <<"root_count", c>>,
                        <<"depth_limit", d>> >>
<1>1. DOMAIN checks = 1..4 /\ 1..4 = {1, 2, 3, 4} /\ 1..4 \subseteq Nat
  OBVIOUS
<1>2. /\ checks[1] = <<"fan_out_limit", a>> /\ checks[2] = <<"cycle", b>>
      /\ checks[3] = <<"root_count", c>> /\ checks[4] = <<"depth_limit", d>>
  OBVIOUS
<1> HIDE DEF checks
<1>3. Coded(checks) /\ (Clean(checks) <=> ~a /\ ~b /\ ~c /\ ~d)
  BY <1>1, <1>2 DEF Coded, Clean
<1>4. Graph!FirstError(checks) = "ok" <=> Clean(checks)
  BY <1>1, <1>3, NoFirstError
<1> QED BY <1>3, <1>4 DEF checks

LEMMA TenChecksPass ==
  ASSUME NEW a, NEW b, NEW c, NEW d, NEW e, NEW f, NEW g, NEW h, NEW k, NEW z,
         a[1] # "ok", b[1] # "ok", c[1] # "ok", d[1] # "ok", e[1] # "ok", f[1] # "ok", g[1] # "ok",
         h[1] # "ok", k[2] => k[1] # "ok", z[1] # "ok",
         Graph!FirstError(<<a, b, c, d, e, f, g, h, k, z>>) = "ok"
  PROVE  ~a[2] /\ ~b[2]
<1> DEFINE checks == <<a, b, c, d, e, f, g, h, k, z>>
<1>1. DOMAIN checks = 1..10
  OBVIOUS
<1>2. /\ checks[1] = a /\ checks[2] = b /\ checks[3] = c /\ checks[4] = d /\ checks[5] = e
      /\ checks[6] = f /\ checks[7] = g /\ checks[8] = h /\ checks[9] = k /\ checks[10] = z
  OBVIOUS
<1>3. Graph!FirstError(checks) = "ok"
  OBVIOUS
<1> HIDE DEF checks
<1>4. 1..10 = {1, 2, 3, 4, 5, 6, 7, 8, 9, 10} /\ 1..10 \subseteq Nat
  OBVIOUS
<1>5. \A n \in DOMAIN checks : checks[n] \in {a, b, c, d, e, f, g, h, k, z}
  BY <1>1, <1>2, <1>4
<1>6. Coded(checks)
  BY <1>5, Zenon DEF Coded
<1>7. Clean(checks)
  BY <1>1, <1>3, <1>4, <1>6, NoFirstError
<1>8. ~checks[1][2] /\ ~checks[2][2]
  BY <1>1, <1>4, <1>7, Zenon DEF Clean
<1> QED BY <1>2, <1>8, Zenon

(* A node without an error has a well-formed identifier of its own. *)
LEMMA PairIs == \A x, y : <<x, y>>[1] = x /\ <<x, y>>[2] = y
OBVIOUS

LEMMA NodeChecks ==
  ASSUME NEW nodes, NEW i
  PROVE  Graph!NodeError(nodes, i) = "ok"
           => /\ nodes[i].node_id \in NodeIds
              /\ \A j \in 1..i - 1 : nodes[j].node_id # nodes[i].node_id
<1> DEFINE a == <<"invalid_node_id", nodes[i].node_id \notin NodeIds>>
           b == <<"duplicate_node", \E j \in 1..i - 1 : nodes[j].node_id = nodes[i].node_id>>
           c == <<"invalid_node_type", nodes[i].node_type \notin Graph!NodeTypes>>
           d == <<"missing_agent", nodes[i].node_type = "Agent" /\ nodes[i].agent = None>>
           e == <<"invalid_approval_class", nodes[i].approval_class \notin Graph!ApprovalClasses>>
           f == <<"retry_limit", nodes[i].retry_limit \notin 0..MaxRetries>>
           timeout == nodes[i].timeout \notin 1..86400
           g == <<"timeout_limit", timeout>>
           h == <<"invalid_core_kind", nodes[i].conf.core_kind \notin Graph!CoreNodeKinds \cup {None}>>
           k == <<Graph!SurfaceError(nodes[i].conf), Graph!SurfaceError(nodes[i].conf) # "ok">>
           z == <<"unbounded_loop",
                  nodes[i].node_type = "BoundedLoop"
                    /\ (nodes[i].conf.iterations \notin 1..100 \/ ~nodes[i].conf.progress)>>
<1>1. Graph!NodeError(nodes, i) = Graph!FirstError(<<a, b, c, d, e, f, g, h, k, z>>)
  BY SMT DEF Graph!NodeError
<1>2. a[1] = "invalid_node_id" /\ (a[2] <=> nodes[i].node_id \notin NodeIds)
  OBVIOUS
<1>3. /\ b[1] = "duplicate_node"
      /\ b[2] <=> \E j \in 1..i - 1 : nodes[j].node_id = nodes[i].node_id
  OBVIOUS
<1> HIDE DEF a, b, k, timeout
<1>4. c[1] = "invalid_node_type" /\ d[1] = "missing_agent" /\ e[1] = "invalid_approval_class"
  <2>1. c[1] = "invalid_node_type"
    BY PairIs, Zenon
  <2>2. d[1] = "missing_agent"
    BY PairIs, Zenon
  <2>3. e[1] = "invalid_approval_class"
    BY PairIs, Zenon
  <2> HIDE DEF c, d, e
  <2> QED BY <2>1, <2>2, <2>3, Zenon
<1>5. f[1] = "retry_limit" /\ g[1] = "timeout_limit" /\ h[1] = "invalid_core_kind"
  <2>1. f[1] = "retry_limit"
    BY PairIs, Zenon
  <2>2. g[1] = "timeout_limit"
    BY PairIs, Zenon
  <2>3. h[1] = "invalid_core_kind"
    BY PairIs, Zenon
  <2> HIDE DEF f, g, h
  <2> QED BY <2>1, <2>2, <2>3, Zenon
<1> HIDE DEF c, d, e, f, g, h
<1> USE DEF k
<1>6. z[1] = "unbounded_loop" /\ (k[2] <=> k[1] # "ok")
  OBVIOUS
<1> HIDE DEF a, b, c, d, e, f, g, h, k, z
<1>7. /\ a[1] # "ok" /\ b[1] # "ok" /\ c[1] # "ok" /\ d[1] # "ok" /\ e[1] # "ok" /\ f[1] # "ok"
      /\ g[1] # "ok" /\ h[1] # "ok" /\ z[1] # "ok" /\ (k[2] => k[1] # "ok")
  BY <1>2, <1>3, <1>4, <1>5, <1>6
<1>8. ASSUME Graph!NodeError(nodes, i) = "ok" PROVE ~a[2] /\ ~b[2]
  <2>1. Graph!FirstError(<<a, b, c, d, e, f, g, h, k, z>>) = "ok"
    BY <1>1, <1>8, Zenon
  <2> QED BY <1>7, <2>1, TenChecksPass
<1> QED BY <1>2, <1>3, <1>8

(* The rows that the row checks let through. *)
RowsAreFine(nodes, edges) ==
  /\ nodes # <<>> /\ Len(nodes) <= MaxActiveNodes
  /\ \A i \in DOMAIN nodes : Graph!NodeError(nodes, i) = "ok"
  /\ \A i \in DOMAIN edges : EdgeIsFine(nodes, edges, i)

NodeRows(nodes) ==
  [i \in DOMAIN nodes |-> <<Graph!NodeError(nodes, i), Graph!NodeError(nodes, i) # "ok">>]
EdgeRows(nodes, edges) ==
  [i \in DOMAIN edges |->
     <<Graph!EdgeError(nodes, edges, i), Graph!EdgeError(nodes, edges, i) # "ok">>]
FirstRows(nodes) ==
  << <<"empty_graph", nodes = <<>> >>, <<"node_limit", Len(nodes) > MaxActiveNodes>> >>

LEMMA RowChecks ==
  ASSUME NEW Node, NEW Edge, NEW nodes \in Seq(Node), NEW edges \in Seq(Edge), MaxActiveNodes \in Nat
  PROVE  Graph!FirstError(FirstRows(nodes) \o NodeRows(nodes) \o EdgeRows(nodes, edges)) = "ok"
           <=> RowsAreFine(nodes, edges)
<1> DEFINE first == FirstRows(nodes)
           ns == NodeRows(nodes)
           es == EdgeRows(nodes, edges)
           All == {first[1], first[2]} \cup {ns[i] : i \in DOMAIN nodes}
                  \cup {es[i] : i \in DOMAIN edges}
<1>1. /\ Len(nodes) \in Nat /\ DOMAIN nodes = 1..Len(nodes)
      /\ Len(edges) \in Nat /\ DOMAIN edges = 1..Len(edges)
  BY LenProperties
<1>2. /\ Coded(ns) /\ DOMAIN ns = DOMAIN nodes
      /\ Clean(ns) <=> \A i \in DOMAIN nodes : Graph!NodeError(nodes, i) = "ok"
  BY DEF NodeRows, Coded, Clean
<1>3. /\ Coded(es) /\ DOMAIN es = DOMAIN edges
      /\ Clean(es) <=> \A i \in DOMAIN edges : Graph!EdgeError(nodes, edges, i) = "ok"
  BY DEF EdgeRows, Coded, Clean
<1>4. /\ Coded(first)
      /\ Clean(first) <=> nodes # <<>> /\ ~(Len(nodes) > MaxActiveNodes)
  <2> DEFINE a == nodes = <<>>
             b == Len(nodes) > MaxActiveNodes
  <2>1. a \in BOOLEAN /\ b \in BOOLEAN
    OBVIOUS
  <2>2. first = << <<"empty_graph", a>>, <<"node_limit", b>> >>
    BY Zenon DEF FirstRows
  <2> HIDE DEF a, b, first
  <2>3. /\ DOMAIN first = 1..2 /\ 1..2 = {1, 2}
        /\ first[1] = <<"empty_graph", a>> /\ first[2] = <<"node_limit", b>>
    BY <2>2
  <2>4. Coded(first) /\ (Clean(first) <=> ~a /\ ~b)
    BY <2>1, <2>3 DEF Coded, Clean
  <2> QED BY <2>4 DEF a, b
<1>5. first \in Seq(All)
  <2>1. first = <<first[1], first[2]>>
    BY DEF FirstRows
  <2> HIDE DEF first, ns, es
  <2>2. first[1] \in All /\ first[2] \in All
    OBVIOUS
  <2> HIDE DEF All
  <2>3. <<first[1], first[2]>> \in Seq(All)
    BY <2>2
  <2> QED BY <2>1, <2>3, Zenon
<1>6. ns \in Seq(All)
  <2>1. ns = [i \in 1..Len(nodes) |-> ns[i]]
    BY <1>1 DEF NodeRows
  <2> HIDE DEF first, ns, es
  <2>2. \A i \in 1..Len(nodes) : ns[i] \in All
    BY <1>1
  <2> HIDE DEF All
  <2>3. ns \in [1..Len(nodes) -> All]
    BY <2>1, <2>2
  <2> QED BY <2>3, <1>1, SeqDef
<1>7. es \in Seq(All)
  <2>1. es = [i \in 1..Len(edges) |-> es[i]]
    BY <1>1 DEF EdgeRows
  <2> HIDE DEF first, ns, es
  <2>2. \A i \in 1..Len(edges) : es[i] \in All
    BY <1>1
  <2> HIDE DEF All
  <2>3. es \in [1..Len(edges) -> All]
    BY <2>1, <2>2
  <2> QED BY <2>3, <1>1, SeqDef
<1> HIDE DEF first, ns, es, All
<1>8. /\ first \o ns \in Seq(All)
      /\ Clean(first \o ns) <=> Clean(first) /\ Clean(ns)
      /\ Coded(first \o ns)
  BY <1>2, <1>4, <1>5, <1>6, ConcatChecks
<1>9. /\ first \o ns \o es \in Seq(All)
      /\ Clean(first \o ns \o es) <=> Clean(first \o ns) /\ Clean(es)
      /\ Coded(first \o ns \o es)
  BY <1>3, <1>7, <1>8, ConcatChecks
<1>10. DOMAIN (first \o ns \o es) \subseteq Nat
  BY <1>9, LenProperties
<1>11. Graph!FirstError(first \o ns \o es) = "ok" <=> Clean(first \o ns \o es)
  BY <1>9, <1>10, NoFirstError
<1>12. (\A i \in DOMAIN edges : Graph!EdgeError(nodes, edges, i) = "ok")
         <=> \A i \in DOMAIN edges : EdgeIsFine(nodes, edges, i)
  BY EdgeChecks
<1>13. ~(Len(nodes) > MaxActiveNodes) <=> Len(nodes) <= MaxActiveNodes
  BY <1>1
<1>14. Graph!FirstError(first \o ns \o es) = "ok" <=> RowsAreFine(nodes, edges)
  BY <1>2, <1>3, <1>4, <1>8, <1>9, <1>11, <1>12, <1>13, Zenon DEF RowsAreFine
<1> QED BY <1>14 DEF first, ns, es

ShapeError(nodes, edges) ==
  Graph!FirstError(<<
    <<"fan_out_limit", Graph!FanOut(edges, NodeSet(nodes)) > MaxFanOut>>,
    <<"cycle", Len(Graph!TopologicalSort(nodes, edges).order) # Len(nodes)>>,
    <<"root_count", Graph!Cardinality(Graph!Roots(edges, NodeSet(nodes))) # 1>>,
    <<"depth_limit", DepthOf(Graph!TopologicalSort(nodes, edges)) > MaxDepth>> >>)
RowError(nodes, edges) ==
  Graph!FirstError(FirstRows(nodes) \o NodeRows(nodes) \o EdgeRows(nodes, edges))

LEMMA AnswerIs ==
  ASSUME NEW nodes, NEW edges
  PROVE  Graph!ValidateGraph(nodes, edges) =
           IF RowError(nodes, edges) # "ok" THEN [error |-> RowError(nodes, edges)]
           ELSE IF ShapeError(nodes, edges) # "ok" THEN [error |-> ShapeError(nodes, edges)]
           ELSE [error |-> "ok", root |-> Graph!TopologicalSort(nodes, edges).order[1],
                 depth |-> DepthOf(Graph!TopologicalSort(nodes, edges)),
                 order |-> Graph!TopologicalSort(nodes, edges).order]
BY SMT DEF Graph!ValidateGraph, Graph!Refused, RowError, ShapeError, DepthOf, FirstRows, NodeRows,
     EdgeRows, NodeSet

(* The graphs that may run: sound rows, one root, no cycle, and no node that fans out
   or chain that holds agents beyond the limits. *)
RootedDag(nodes, edges) ==
  LET ids == NodeSet(nodes) IN
  /\ RowsAreFine(nodes, edges)
  /\ \A id \in ids : Cardinality(Graph!Targets(edges, id)) <= MaxFanOut
  /\ Acyclic(edges, ids)
  /\ HasOneRoot(edges, ids)
  /\ \A p \in Chains(edges, ids) : AgentsOn(Agency(nodes), p) <= MaxDepth

(* What the answer for an accepted graph says: its order lists every node once, each
   after all its sources; its root leads to every node; its depth is that of a chain,
   and of no longer one. *)
Describes(order, root, depth, nodes, edges) ==
  LET ids == NodeSet(nodes) IN
  /\ Len(order) = Len(nodes) /\ {order[i] : i \in 1..Len(nodes)} = ids
  /\ \A i, j \in 1..Len(nodes) : order[i] \in Graph!Sources(edges, order[j]) => i < j
  /\ \A id \in ids : LeadsTo(edges, ids, root, id)
  /\ Deepest(edges, ids, Agency(nodes), depth)

LEMMA ShapeIs ==
  ASSUME NEW Node, NEW Edge, NEW nodes \in Seq(Node), NEW edges \in Seq(Edge),
         NodeIds \subseteq Nat, MaxFanOut \in Nat, MaxDepth \in Nat, RowsAreFine(nodes, edges)
  PROVE  /\ ShapeError(nodes, edges) = "ok" <=> RootedDag(nodes, edges)
         /\ ShapeError(nodes, edges) = "ok" =>
              LET order == Graph!TopologicalSort(nodes, edges).order IN
              Describes(order, order[1], DepthOf(Graph!TopologicalSort(nodes, edges)), nodes, edges)
<1> DEFINE n == Len(nodes)
           ids == NodeSet(nodes)
           agent == Agency(nodes)
           s == Graph!TopologicalSort(nodes, edges)
           depth == DepthOf(s)
<1>1. n \in Nat /\ DOMAIN nodes = 1..n /\ n # 0
  <2>1. nodes # <<>>
    BY DEF RowsAreFine
  <2> QED BY <2>1, LenProperties, EmptySeq
<1>2. \A i \in 1..n : /\ nodes[i].node_id \in NodeIds
                      /\ \A j \in 1..i - 1 : nodes[j].node_id # nodes[i].node_id
  BY <1>1, NodeChecks DEF RowsAreFine
<1>3. ASSUME NEW i \in 1..n, NEW j \in 1..n, nodes[i].node_id = nodes[j].node_id PROVE i = j
  <2>1. i < j => i \in 1..j - 1
    BY <1>1
  <2>2. j < i => j \in 1..i - 1
    BY <1>1
  <2>3. ~(i < j) /\ ~(j < i)
    BY <2>1, <2>2, <1>2, <1>3
  <2> QED BY <2>3, <1>1
<1>4. IsFiniteSet(ids) /\ Cardinality(ids) = n
  <2> HIDE DEF n
  <2> QED BY <1>1, <1>3, NodesAreCounted
<1>5. ids \subseteq Nat /\ ids # {}
  <2> HIDE DEF n
  <2>1. 1 \in DOMAIN nodes /\ \A i \in DOMAIN nodes : nodes[i].node_id \in Nat
    <3>1. 1 \in 1..n
      BY <1>1
    <3>2. ASSUME NEW i \in 1..n PROVE nodes[i].node_id \in Nat
      <4>1. nodes[i].node_id \in NodeIds
        BY <1>2
      <4> QED BY <4>1
    <3> QED BY <1>1, <3>1, <3>2
  <2>2. ids = {nodes[i].node_id : i \in DOMAIN nodes}
    BY DEF NodeSet
  <2> HIDE DEF ids
  <2>3. nodes[1].node_id \in ids
    BY <2>1, <2>2
  <2> QED BY <2>1, <2>2, <2>3
<1>6. Joins(edges, ids)
  BY DEF RowsAreFine, EdgeIsFine, Joins
<1>7. agent \in [ids -> {0, 1}]
  BY DEF Agency
<1>8. RoundSound(edges, ids, agent, s, n)
  <2> HIDE DEF n
  <2> QED BY <1>1, <1>4, <1>5, <1>6, SortIsSound
<1> HIDE DEF n, ids, agent, s, depth
<1>9. /\ SortTyped(ids, s) /\ InOrderOf(edges, s) /\ Waiting(edges, ids, s)
      /\ Measured(edges, ids, agent, s)
      /\ Len(s.order) = n \/ s.queue = {}
  BY <1>8 DEF RoundSound, SortInv
<1>10. Len(s.order) = n <=> Listed(s) = ids
  BY <1>4, <1>9, OrderIsFull
<1>11. Len(s.order) = n <=> Acyclic(edges, ids)
  <2>1. ASSUME Listed(s) = ids PROVE Acyclic(edges, ids)
    <3>1. Len(s.order) = Cardinality(ids)
      BY <2>1, <1>4, <1>10
    <3>2. ASSUME NEW p \in Chains(edges, ids) PROVE Len(p) <= Len(s.order)
      BY <2>1, <1>9, ChainsFollow
    <3> QED BY <3>1, <3>2 DEF Acyclic
  <2>2. ASSUME Listed(s) # ids PROVE ~Acyclic(edges, ids)
    <3>1. s.queue = {}
      BY <2>2, <1>9, <1>10
    <3> QED BY <2>2, <3>1, <1>4, <1>6, <1>9, StuckOnACycle
  <2> QED BY <2>1, <2>2, <1>10
<1>12. ~(Graph!FanOut(edges, ids) > MaxFanOut)
         <=> \A id \in ids : Cardinality(Graph!Targets(edges, id)) <= MaxFanOut
  BY <1>4, <1>6, FanOutIs
<1>13. Graph!Cardinality(Graph!Roots(edges, ids)) = 1
         <=> HasOneRoot(edges, ids)
  <2>1. IsFiniteSet(ids)
    BY <1>4
  <2> QED BY <2>1, OneRoot
<1>14. ASSUME Listed(s) = ids
       PROVE  Deepest(edges, ids, agent, depth)
  BY <1>5, <1>7, <1>9, <1>14, DepthIs DEF depth
<1>15. ASSUME Listed(s) = ids
       PROVE  ~(depth > MaxDepth) <=> \A p \in Chains(edges, ids) : AgentsOn(agent, p) <= MaxDepth
  <2>1. \A p \in Chains(edges, ids) : AgentsOn(agent, p) \in Nat
    BY <1>7, <1>9, <1>15, NoChainIsLonger
  <2> QED BY <2>1, <1>14, <1>15 DEF Deepest
<1>16. ShapeError(nodes, edges) = "ok"
         <=> /\ ~(Graph!FanOut(edges, ids) > MaxFanOut) /\ Len(s.order) = n
             /\ Graph!Cardinality(Graph!Roots(edges, ids)) = 1 /\ ~(depth > MaxDepth)
  <2> DEFINE a == Graph!FanOut(edges, ids) > MaxFanOut
             b == Len(s.order) # n
             c == Graph!Cardinality(Graph!Roots(edges, ids)) # 1
             d == depth > MaxDepth
  <2>1. ShapeError(nodes, edges)
          = Graph!FirstError(<< <<"fan_out_limit", a>>, <<"cycle", b>>, <<"root_count", c>>,
                                <<"depth_limit", d>> >>)
    BY SMT DEF ShapeError, ids, s, n, depth
  <2>2. a \in BOOLEAN /\ b \in BOOLEAN /\ c \in BOOLEAN /\ d \in BOOLEAN
    OBVIOUS
  <2>3. ~a /\ ~b /\ ~c /\ ~d
          <=> /\ ~(Graph!FanOut(edges, ids) > MaxFanOut) /\ Len(s.order) = n
              /\ Graph!Cardinality(Graph!Roots(edges, ids)) = 1 /\ ~(depth > MaxDepth)
    OBVIOUS
  <2> HIDE DEF a, b, c, d
  <2>4. ShapeError(nodes, edges) = "ok" <=> ~a /\ ~b /\ ~c /\ ~d
    BY <2>1, <2>2, ShapeChecks
  <2> QED BY <2>3, <2>4
<1>17. ShapeError(nodes, edges) = "ok"
         <=> /\ \A id \in ids : Cardinality(Graph!Targets(edges, id)) <= MaxFanOut
             /\ Acyclic(edges, ids)
             /\ HasOneRoot(edges, ids)
             /\ \A p \in Chains(edges, ids) : AgentsOn(agent, p) <= MaxDepth
  BY <1>10, <1>11, <1>12, <1>13, <1>15, <1>16, Zenon
<1>18. ShapeError(nodes, edges) = "ok" <=> RootedDag(nodes, edges)
  BY <1>17, Zenon DEF RootedDag, ids, agent
<1>19. ASSUME ShapeError(nodes, edges) = "ok" PROVE Describes(s.order, s.order[1], depth, nodes, edges)
  <2>1. Listed(s) = ids /\ Len(s.order) = n
    BY <1>10, <1>16, <1>19
  <2>2. {s.order[i] : i \in 1..n} = ids
    BY <2>1 DEF Listed
  <2>3. ASSUME NEW i \in 1..n, NEW j \in 1..n, s.order[i] \in Graph!Sources(edges, s.order[j])
        PROVE  i < j
    <3>1. PICK k \in 1..j - 1 : s.order[k] = s.order[i]
      BY <2>1, <2>3, <1>9 DEF InOrderOf
    <3>2. k \in 1..n /\ k < j
      BY <3>1, <1>1
    <3>3. k = i
      BY <2>1, <3>1, <3>2, <1>9 DEF InOrderOf
    <3> QED BY <3>2, <3>3
  <2>4. PICK root \in ids : \A id \in ids : Graph!Sources(edges, id) = {} <=> id = root
    BY <1>13, <1>16, <1>19 DEF HasOneRoot
  <2>5. s.order[1] = root
    <3>1. 1 \in 1..n /\ 1..1 - 1 = {}
      BY <1>1
    <3>2. Graph!Sources(edges, s.order[1]) = {}
      BY <2>1, <3>1, <1>9 DEF InOrderOf
    <3>3. s.order[1] \in ids
      BY <2>1, <3>1 DEF Listed
    <3> QED BY <2>4, <3>2, <3>3
  <2>6. \A id \in ids : LeadsTo(edges, ids, root, id)
    <3>1. \A id \in ids \ {root} : Graph!Sources(edges, id) # {}
      BY <2>4
    <3> QED BY <2>1, <3>1, <1>9, RootReachesAll
  <2>7. \A id \in ids : LeadsTo(edges, ids, s.order[1], id)
    BY <2>5, <2>6
  <2>8. Deepest(edges, ids, agent, depth)
    BY <2>1, <1>14
  <2>9. Len(s.order) = n
    BY <2>1
  <2> QED BY <2>2, <2>3, <2>7, <2>8, <2>9, Zenon DEF Describes, ids, agent, n
<1> QED BY <1>18, <1>19 DEF s, depth

(* validate_graph accepts exactly the rooted acyclic graphs within the limits, whatever
   the rows, and what it answers for one of them is so: the order that the executor
   follows puts each node behind all it depends on, the root leads to every node, and
   the depth that the limit bounds is that of the deepest chain of agents. *)
THEOREM AcceptsExactlyRootedDagsCorrect ==
  ASSUME NEW Node, NEW Edge, NEW nodes \in Seq(Node), NEW edges \in Seq(Edge),
         NodeIds \subseteq Nat, {MaxDepth, MaxFanOut, MaxActiveNodes} \subseteq Nat
  PROVE  LET answer == Graph!ValidateGraph(nodes, edges) IN
         /\ answer.error = "ok" <=> RootedDag(nodes, edges)
         /\ answer.error = "ok" =>
              Describes(answer.order, answer.root, answer.depth, nodes, edges)
<1> DEFINE answer == Graph!ValidateGraph(nodes, edges)
           s == Graph!TopologicalSort(nodes, edges)
<1>1. RowError(nodes, edges) = "ok" <=> RowsAreFine(nodes, edges)
  BY RowChecks DEF RowError
<1>2. RootedDag(nodes, edges) => RowsAreFine(nodes, edges)
  BY Zenon DEF RootedDag
<1>3. CASE RowError(nodes, edges) # "ok"
  <2>1. answer = [error |-> RowError(nodes, edges)]
    BY <1>3, AnswerIs
  <2> HIDE DEF answer
  <2>2. answer.error # "ok"
    BY <2>1, <1>3
  <2> QED BY <2>2, <1>1, <1>2, <1>3 DEF answer
<1>4. CASE RowError(nodes, edges) = "ok" /\ ShapeError(nodes, edges) # "ok"
  <2>1. answer = [error |-> ShapeError(nodes, edges)]
    BY <1>4, AnswerIs
  <2>2. ~RootedDag(nodes, edges)
    BY <1>1, <1>4, ShapeIs
  <2> HIDE DEF answer
  <2>3. answer.error # "ok"
    BY <2>1, <1>4
  <2> QED BY <2>2, <2>3 DEF answer
<1>5. CASE RowError(nodes, edges) = "ok" /\ ShapeError(nodes, edges) = "ok"
  <2>1. answer = [error |-> "ok", root |-> s.order[1], depth |-> DepthOf(s), order |-> s.order]
    BY <1>5, AnswerIs
  <2>2. /\ RootedDag(nodes, edges)
        /\ Describes(s.order, s.order[1], DepthOf(s), nodes, edges)
    BY <1>1, <1>5, ShapeIs
  <2> HIDE DEF answer, s
  <2>3. /\ answer.error = "ok" /\ answer.root = s.order[1] /\ answer.depth = DepthOf(s)
        /\ answer.order = s.order
    BY <2>1
  <2> QED BY <2>2, <2>3 DEF answer
<1> QED BY <1>3, <1>4, <1>5
=============================================================================
