-------------------- MODULE DevelopmentProposalsProofs --------------------
(***************************************************************************)
(* Proofs about DevelopmentProposals for any proposals, administrators,     *)
(* numbers of concurrent requests and patches, and every bound.             *)
(***************************************************************************)
EXTENDS DevelopmentProposals, FiniteSetTheorems, SequenceTheorems, TLAPS

USE RequesterAssumption, BoundsAssumption

(* Somebody other than its requester has reviewed the proposal. *)
Reviewed(p) == rows[p] # None /\ rows[p].reviewed \notin {None, Requester}

(* A proposal past its review, or with a patch, was reviewed; one past its generation
   has a patch, and one that was applied says so until it is gone. *)
RowsReviewed ==
  \A p \in Proposals : rows[p] # None =>
    /\ (rows[p].status # "Proposed" \/ rows[p].patch # 0) => Reviewed(p)
    /\ rows[p].status \in {"Ready", "Applied", "RolledBack"} => rows[p].patch # 0
    /\ rows[p].status \in {"Applied", "RolledBack"} => rows[p].applied

(* A patch is that of the proposal it was generated for. *)
Numbered(p, patch) == patch # 0 => patch <= Len(patches) /\ patches[patch] = p
PatchesNumbered == \A p \in Proposals : rows[p] # None => Numbered(p, rows[p].patch)

(* What was so when a request or a job began, and cannot have changed since. *)
Since(r) ==
  /\ r.endpoint # "create" => rows[r.proposal] # None
  /\ r.endpoint = "review" => r.user \notin {None, Requester}
  /\ r.endpoint \in {"generate", "apply", "rollback"} => Reviewed(r.proposal)
  /\ r.row # None => Numbered(r.proposal, r.row.patch)
  /\ r.endpoint \in {"apply", "rollback"} =>
       r.row # None /\ r.row.patch # 0 /\ rows[r.proposal].patch # 0
  /\ r.endpoint = "rollback" => rows[r.proposal].applied
  /\ r.stage \in {"sourced", "changed", "unlocked"} => r.endpoint \in {"apply", "rollback"}
  /\ r.stage = "changed" => r.endpoint = "apply"
RequestsSince == \A c \in Clients : requests[c] # None => Since(requests[c])
JobSince == job # None => Reviewed(job.proposal)

(* One request holds the source, and it was clean when an apply took hold of it. *)
HoldsSource(c) == requests[c] # None /\ requests[c].stage \in {"sourced", "changed"}
SourceHeld ==
  /\ \A c, d \in Clients : HoldsSource(c) /\ HoldsSource(d) => c = d
  /\ \A c \in Clients : At(c, "apply", "sourced") => source.staged = {}

(* No two patches, and only patches that were generated for a reviewed proposal. *)
StagedOnce ==
  /\ \A x, y \in source.staged : x = y
  /\ \A x \in source.staged : x \in DOMAIN patches /\ Reviewed(patches[x])

IInv ==
  /\ NoPatchUnrecorded /\ RowsReviewed /\ PatchesNumbered
  /\ RequestsSince /\ JobSince /\ SourceHeld /\ StagedOnce

-----------------------------------------------------------------------------
(* Lemmas *)

LEMMA NotNull ==
  /\ None \notin Administrators
  /\ \A row \in ProposalRow : row # None
  /\ \A row \in ReadRow : row # None
  /\ \A r \in Request : r # None
  /\ \A j \in Job : j # None
BY NoneAssumption

LEMMA RequestFields ==
  ASSUME NEW r \in Request
  PROVE  /\ r # None /\ r.endpoint \in Endpoints /\ r.proposal \in Proposals
         /\ r.user \in Administrators \cup {None} /\ r.action \in {None, "approve", "reject"}
         /\ r.row \in {None} \cup ReadRow /\ r.registered \in Nat
         /\ r.stage \in {"begun", "locked", "sourced", "changed", "unlocked"}
         /\ r.row # None => r.row.patch \in 0..MaxPatches
BY NotNull DEF Request, ReadRow

LEMMA RowFields ==
  ASSUME NEW row \in ProposalRow
  PROVE  /\ row # None /\ row.status \in Statuses /\ row.reviewed \in Administrators \cup {None}
         /\ row.revision \in Nat /\ row.policy \in Nat /\ row.patch \in 0..MaxPatches
         /\ row.applied \in BOOLEAN /\ row.deployment \in Deployments
         /\ row.rollback \in Rollbacks /\ row.requested \in Administrators \cup {None}
         /\ row.approved \in Administrators \cup {None}
BY NotNull DEF ProposalRow

(* What was so of the rows and the patches stays so. *)
RowsKept ==
  \A p \in Proposals : rows[p] # None =>
    /\ rows'[p] # None
    /\ Reviewed(p) => Reviewed(p)'
    /\ rows[p].patch # 0 => rows'[p].patch # 0
    /\ rows[p].applied => rows'[p].applied
PatchesKept == \A p \in Proposals, x \in 0..MaxPatches : Numbered(p, x) => Numbered(p, x)'

LEMMA SinceKept ==
  ASSUME RowsKept, PatchesKept, NEW r \in Request, Since(r)
  PROVE  Since(r)'
<1>1. r.proposal \in Proposals /\ (r.row # None => r.row.patch \in 0..MaxPatches)
  BY RequestFields
<1>2. r.row # None => Numbered(r.proposal, r.row.patch)'
  BY <1>1 DEF PatchesKept, Since
<1>3. r.endpoint # "create" => rows[r.proposal] # None /\ rows'[r.proposal] # None
  BY <1>1 DEF RowsKept, Since
<1>4. r.endpoint \in {"generate", "apply", "rollback"} => Reviewed(r.proposal)'
  BY <1>1 DEF RowsKept, Since, Reviewed
<1> QED BY <1>1, <1>2, <1>3, <1>4 DEF RowsKept, Since

LEMMA Unchanged ==
  ASSUME UNCHANGED <<rows, patches>>
  PROVE  RowsKept /\ PatchesKept
BY DEF RowsKept, PatchesKept, Reviewed, Numbered

(* Only the request of one client changes. *)
LEMMA Returned ==
  ASSUME TypeOK, NEW c \in Clients, Return(c)
  PROVE  /\ requests' \in [Clients -> {None} \cup Request]
         /\ requests'[c] = None /\ \A d \in Clients \ {c} : requests'[d] = requests[d]
BY DEF TypeOK, Return

LEMMA Advanced ==
  ASSUME TypeOK, NEW c \in Clients, requests[c] # None,
         NEW stage \in {"begun", "locked", "sourced", "changed", "unlocked"}, Advance(c, stage)
  PROVE  /\ requests' \in [Clients -> {None} \cup Request]
         /\ requests'[c] \in Request /\ requests'[c] # None
         /\ requests'[c].stage = stage /\ requests'[c].endpoint = requests[c].endpoint
         /\ requests'[c].proposal = requests[c].proposal /\ requests'[c].row = requests[c].row
         /\ requests'[c].user = requests[c].user
         /\ \A d \in Clients \ {c} : requests'[d] = requests[d]
<1>1. requests[c] \in Request
  BY DEF TypeOK
<1>2. PICK r : r = [requests[c] EXCEPT !.stage = stage]
  OBVIOUS
<1>3. /\ r \in Request /\ r.stage = stage /\ r.endpoint = requests[c].endpoint
      /\ r.proposal = requests[c].proposal /\ r.row = requests[c].row
      /\ r.user = requests[c].user
  BY <1>1, <1>2 DEF Request
<1>4. requests' = [requests EXCEPT ![c] = r]
  BY <1>2 DEF Advance
<1>5. r # None
  BY <1>3, NotNull
<1> QED BY <1>3, <1>4, <1>5 DEF TypeOK

(* Requests keep what was so when they began, and at most one holds the source. *)
LEMMA ReturnKeepsRequests ==
  ASSUME IInv, NEW c \in Clients, Return(c), RowsKept, PatchesKept,
         source'.staged \subseteq source.staged
  PROVE  RequestsSince' /\ SourceHeld'
<1>1. requests'[c] = None /\ \A d \in Clients \ {c} : requests'[d] = requests[d]
  BY Returned DEF IInv, NoPatchUnrecorded
<1>2. RequestsSince'
  <2> SUFFICES ASSUME NEW d \in Clients, requests'[d] # None PROVE Since(requests[d])'
    BY DEF RequestsSince
  <2>1. requests'[d] = requests[d] /\ requests[d] \in Request
    BY <1>1 DEF IInv, NoPatchUnrecorded, TypeOK
  <2>2. PICK r \in Request : r = requests[d] /\ r = requests'[d]
    BY <2>1
  <2>3. Since(r)
    BY <2>2, NotNull DEF IInv, RequestsSince
  <2>4. Since(r)'
    BY <2>3, SinceKept
  <2> QED BY <2>2, <2>4 DEF Since, Reviewed, Numbered
<1>3. SourceHeld'
  <2>1. \A d \in Clients : /\ HoldsSource(d)' => HoldsSource(d)
                           /\ At(d, "apply", "sourced")' => At(d, "apply", "sourced")
    BY <1>1 DEF HoldsSource, At
  <2> QED BY <2>1 DEF IInv, SourceHeld
<1> QED BY <1>2, <1>3

LEMMA AdvanceKeepsRequests ==
  ASSUME IInv, NEW c \in Clients, requests[c] # None,
         NEW stage \in {"locked", "sourced", "changed", "unlocked"}, Advance(c, stage),
         RowsKept, PatchesKept, source'.staged \subseteq source.staged \/ stage = "changed",
         stage # "locked" => requests[c].endpoint \in {"apply", "rollback"},
         stage = "changed" => At(c, "apply", "sourced"),
         stage = "sourced" =>
           SourceFree /\ (requests[c].endpoint = "apply" => source'.staged = {})
  PROVE  RequestsSince' /\ SourceHeld'
<1>1. /\ requests'[c] # None /\ requests'[c].stage = stage
      /\ requests'[c] \in Request /\ requests[c] \in Request
      /\ requests'[c].endpoint = requests[c].endpoint
      /\ requests'[c].proposal = requests[c].proposal /\ requests'[c].row = requests[c].row
      /\ requests'[c].user = requests[c].user
      /\ \A d \in Clients \ {c} : requests'[d] = requests[d]
  BY Advanced DEF IInv, NoPatchUnrecorded, TypeOK
<1>2. RequestsSince'
  <2> SUFFICES ASSUME NEW d \in Clients, requests'[d] # None PROVE Since(requests[d])'
    BY DEF RequestsSince
  <2>1. PICK r \in Request : r = requests[d]
    BY <1>1 DEF IInv, NoPatchUnrecorded, TypeOK
  <2>2. Since(r)
    BY <1>1, <2>1, NotNull DEF IInv, RequestsSince
  <2>3. Since(r)'
    BY <2>2, SinceKept
  <2>4. CASE d = c
    <3>1. PICK q \in Request : q = requests'[d]
      BY <1>1, <2>4
    <3>2. /\ q.endpoint = r.endpoint /\ q.proposal = r.proposal /\ q.row = r.row
          /\ q.user = r.user /\ q.stage = stage
      BY <1>1, <2>1, <2>4, <3>1
    <3>3. stage # "locked" => r.endpoint \in {"apply", "rollback"}
      BY <2>1, <2>4
    <3>4. stage = "changed" => r.endpoint = "apply"
      BY <2>1, <2>4 DEF At
    <3>5. Since(q)'
      BY <2>3, <3>2, <3>3, <3>4 DEF Since
    <3> QED BY <3>1, <3>5 DEF Since, Reviewed, Numbered
  <2>5. CASE d # c
    BY <1>1, <2>1, <2>3, <2>5 DEF Since, Reviewed, Numbered
  <2> QED BY <2>4, <2>5
<1>3. SourceHeld'
  <2>1. \A d \in Clients \ {c} : /\ HoldsSource(d)' => HoldsSource(d)
                                 /\ At(d, "apply", "sourced")' => At(d, "apply", "sourced")
    BY <1>1 DEF HoldsSource, At
  <2>2. HoldsSource(c)' => stage \in {"sourced", "changed"}
    BY <1>1 DEF HoldsSource
  <2>3. stage \in {"sourced", "changed"} => \A d \in Clients : HoldsSource(d) => d = c
    BY DEF SourceFree, HoldsSource, At, IInv, SourceHeld
  <2>4. \A d, e \in Clients : HoldsSource(d)' /\ HoldsSource(e)' => d = e
    BY <2>1, <2>2, <2>3 DEF IInv, SourceHeld
  <2>5. At(c, "apply", "sourced")' => stage = "sourced" /\ requests[c].endpoint = "apply"
    BY <1>1 DEF At
  <2>6. \A d \in Clients \ {c} : At(d, "apply", "sourced")' => source'.staged = {}
    <3> SUFFICES ASSUME NEW d \in Clients \ {c}, At(d, "apply", "sourced")'
                 PROVE  source'.staged = {}
      OBVIOUS
    <3>1. At(d, "apply", "sourced") /\ HoldsSource(d)
      BY <2>1 DEF At, HoldsSource
    <3>2. source.staged = {} /\ stage # "changed"
      BY <2>3, <3>1 DEF IInv, SourceHeld
    <3> QED BY <3>2
  <2> QED BY <2>4, <2>5, <2>6 DEF SourceHeld
<1> QED BY <1>2, <1>3

(* No patch is put in the source: those that are there stay reviewed and recorded. *)
LEMMA StagedKept ==
  ASSUME IInv, source'.staged \subseteq source.staged, RowsKept,
         \A x \in DOMAIN patches : x \in DOMAIN patches' /\ patches'[x] = patches[x]
  PROVE  StagedOnce'
<1>1. \A x \in source.staged : patches[x] \in Proposals
  BY DEF IInv, StagedOnce, NoPatchUnrecorded, TypeOK
<1> QED BY <1>1 DEF IInv, StagedOnce, RowsKept, Reviewed

Recorded(x) == rows[patches[x]].applied
Promised(x) ==
  \E c \in Clients : requests[c] # None /\ requests[c].row # None
                     /\ requests[c].row.patch = x /\ requests[c].stage \in {"changed", "unlocked"}

(* One request goes; what it promised has been kept. *)
LEMMA RecordsKept ==
  ASSUME IInv, TypeOK', NEW c \in Clients, kills' = kills,
         source'.staged \subseteq source.staged, RowsKept,
         \A x \in DOMAIN patches : x \in DOMAIN patches' /\ patches'[x] = patches[x],
         \A d \in Clients \ {c} : requests'[d] = requests[d],
         (requests[c] # None /\ requests[c].row # None
            /\ requests[c].stage \in {"changed", "unlocked"}) =>
           \/ requests[c].row.patch \notin source'.staged
           \/ rows'[requests[c].proposal].applied
           \/ /\ requests'[c] # None /\ requests'[c].row = requests[c].row
              /\ requests'[c].stage \in {"changed", "unlocked"}
  PROVE  NoPatchUnrecorded'
<1> SUFFICES ASSUME kills' = 0, NEW x \in source'.staged
             PROVE  Recorded(x)' \/ Promised(x)'
  BY DEF NoPatchUnrecorded, Recorded, Promised
<1>1. /\ x \in source.staged /\ x \in DOMAIN patches /\ patches[x] \in Proposals
      /\ patches'[x] = patches[x] /\ rows[patches[x]] # None
  BY DEF IInv, StagedOnce, NoPatchUnrecorded, TypeOK, Reviewed
<1>2. Recorded(x) \/ Promised(x)
  BY <1>1 DEF IInv, NoPatchUnrecorded, Recorded, Promised
<1>3. CASE Recorded(x)
  BY <1>1, <1>3 DEF RowsKept, Recorded
<1>4. CASE Promised(x)
  <2>1. PICK d \in Clients :
          /\ requests[d] # None /\ requests[d].row # None /\ requests[d].row.patch = x
          /\ requests[d].stage \in {"changed", "unlocked"}
    BY <1>4 DEF Promised
  <2>2. CASE d # c
    BY <2>1, <2>2 DEF Promised
  <2>3. CASE d = c
    <3>1. x # 0
      BY <1>1 DEF IInv, NoPatchUnrecorded, TypeOK
    <3>2. patches[x] = requests[c].proposal
      BY <2>1, <2>3, <3>1 DEF IInv, RequestsSince, Since, Numbered
    <3>3. CASE rows'[requests[c].proposal].applied
      BY <1>1, <3>2, <3>3 DEF Recorded
    <3>4. CASE /\ requests'[c] # None /\ requests'[c].row = requests[c].row
               /\ requests'[c].stage \in {"changed", "unlocked"}
      BY <2>1, <2>3, <3>4 DEF Promised
    <3> QED BY <2>1, <2>3, <3>3, <3>4
  <2> QED BY <2>2, <2>3
<1> QED BY <1>2, <1>3, <1>4

-----------------------------------------------------------------------------
(* Kinds of steps *)

(* A request begins. *)
LEMMA BeginKeeps ==
  ASSUME IInv, NEW c \in Clients, NEW p \in Proposals, NEW u \in Administrators \cup {None},
         NEW e \in Endpoints, NEW a \in {None, "approve", "reject"}, Begin(c, p, u, e, a),
         e # "create" => rows[p] # None,
         e = "review" => u \notin {None, Requester},
         e \in {"generate", "apply", "rollback"} => rows[p].status # "Proposed",
         e \in {"apply", "rollback"} => rows[p].status \in {"Ready", "Applied"},
         e = "rollback" => rows[p].status = "Applied"
  PROVE  IInv'
<1> USE DEF IInv
<1>1. UNCHANGED <<rows, app, source, queue, job, patches, kills>> /\ requests[c] = None
  BY DEF Begin
<1>2. PICK r : r = [endpoint |-> e, proposal |-> p, user |-> u, action |-> a, stage |-> "begun",
          row |-> IF e \in {"review", "generate", "apply", "rollback"} THEN Read(p) ELSE None,
          registered |-> IF e = "rollback" THEN 0 ELSE app.registered]
  OBVIOUS
<1>3. rows[p] # None => Read(p) \in ReadRow /\ Read(p).patch = rows[p].patch
  <2>1. rows[p] # None => rows[p] \in ProposalRow
    BY DEF NoPatchUnrecorded, TypeOK
  <2> QED BY <2>1, RowFields DEF Read, ReadRow
<1>4. /\ r \in Request /\ r.endpoint = e /\ r.proposal = p /\ r.user = u /\ r.stage = "begun"
      /\ r.row # None => rows[p] # None /\ r.row.patch = rows[p].patch
      /\ e \in {"apply", "rollback"} => r.row # None
  <2>1. app.registered \in Nat
    BY DEF NoPatchUnrecorded, TypeOK
  <2>2. Read(p) \in {None} \cup ReadRow /\ (Read(p) # None => rows[p] # None)
    BY <1>3 DEF Read
  <2>3. r.row \in {None} \cup ReadRow /\ r.registered \in Nat
    BY <1>2, <1>3, <2>1, <2>2
  <2>4. r = [endpoint |-> e, proposal |-> p, user |-> u, action |-> a, stage |-> "begun",
             row |-> r.row, registered |-> r.registered]
    BY <1>2
  <2>5. r \in Request
    BY <2>3, <2>4 DEF Request
  <2> QED BY <1>2, <1>3, <2>2, <2>5, NotNull
<1>5. requests' = [requests EXCEPT ![c] = r]
  BY <1>2 DEF Begin
<1>6. /\ requests' \in [Clients -> {None} \cup Request] /\ requests'[c] = r /\ r # None
      /\ \A d \in Clients \ {c} : requests'[d] = requests[d]
  BY <1>4, <1>5, NotNull DEF NoPatchUnrecorded, TypeOK
<1>7. Since(r)
  <2>1. rows[p] # None => Numbered(p, rows[p].patch)
    BY DEF PatchesNumbered
  <2>2. e \in {"generate", "apply", "rollback"} => Reviewed(p)
    BY DEF RowsReviewed
  <2>3. e \in {"apply", "rollback"} => rows[p].patch # 0
    BY DEF RowsReviewed
  <2>4. e = "rollback" => rows[p].applied
    BY DEF RowsReviewed
  <2> QED BY <1>4, <2>1, <2>2, <2>3, <2>4 DEF Since
<1>8. RequestsSince'
  <2>1. \A d \in Clients : requests'[d] # None => Since(requests[d]) \/ d = c
    BY <1>6 DEF RequestsSince
  <2> QED BY <1>1, <1>6, <1>7, <2>1 DEF RequestsSince, Since, Reviewed, Numbered
<1>9. SourceHeld'
  <2>1. \A d \in Clients : /\ HoldsSource(d)' => HoldsSource(d)
                           /\ At(d, "apply", "sourced")' => At(d, "apply", "sourced")
    BY <1>4, <1>6 DEF HoldsSource, At
  <2> QED BY <1>1, <2>1 DEF SourceHeld
<1>10. TypeOK'
  BY <1>1, <1>6 DEF NoPatchUnrecorded, TypeOK
<1>11. RowsKept
  BY <1>1, Unchanged
<1>12. NoPatchUnrecorded' /\ StagedOnce'
  BY <1>1, <1>6, <1>10, <1>11, RecordsKept, StagedKept
<1> QED BY <1>1, <1>8, <1>9, <1>12 DEF RowsReviewed, PatchesNumbered, JobSince, Reviewed, Numbered

(* A request returns and has written nothing. *)
LEMMA ReturnKeeps ==
  ASSUME IInv, NEW c \in Clients, Return(c),
         UNCHANGED <<rows, app, queue, job, patches>>,
         \/ /\ UNCHANGED <<source, kills>>
            /\ requests[c] # None => requests[c].stage \notin {"changed", "unlocked"}
         \/ UNCHANGED source /\ kills' = kills + 1
         \/ /\ UNCHANGED kills /\ requests[c] # None /\ requests[c].row # None
            /\ source' = TakenBack(requests[c].row.patch)
  PROVE  IInv'
<1> USE DEF IInv
<1>1. requests' \in [Clients -> {None} \cup Request] /\ requests'[c] = None
      /\ \A d \in Clients \ {c} : requests'[d] = requests[d]
  BY Returned DEF NoPatchUnrecorded
<1>2. RowsKept /\ PatchesKept
  BY Unchanged
<1>3. source' \in Source /\ source'.staged \subseteq source.staged /\ kills' \in Nat
  BY DEF NoPatchUnrecorded, TypeOK, TakenBack, Source
<1>4. TypeOK'
  BY <1>1, <1>3 DEF NoPatchUnrecorded, TypeOK
<1>5. RequestsSince' /\ SourceHeld'
  BY <1>2, <1>3, ReturnKeepsRequests
<1>6. StagedOnce'
  BY <1>2, <1>3, StagedKept
<1>7. NoPatchUnrecorded'
  <2>1. CASE kills' = kills + 1
    BY <1>4, <2>1 DEF NoPatchUnrecorded, TypeOK
  <2>2. CASE UNCHANGED kills
    <3>1. (requests[c] # None /\ requests[c].row # None
            /\ requests[c].stage \in {"changed", "unlocked"})
          => requests[c].row.patch \notin source'.staged
      BY <2>2 DEF TakenBack, NoPatchUnrecorded, TypeOK, Source
    <3> QED BY <1>1, <1>2, <1>3, <1>4, <2>2, <3>1, RecordsKept
  <2> QED BY <2>1, <2>2
<1> QED BY <1>5, <1>6, <1>7 DEF RowsReviewed, PatchesNumbered, JobSince, Reviewed, Numbered

(* A request returns and writes its row. *)
LEMMA WriteKeeps ==
  ASSUME IInv, NEW c \in Clients, requests[c] # None, Return(c),
         NEW p \in Proposals, p = requests[c].proposal,
         NEW row \in ProposalRow, rows' = [rows EXCEPT ![p] = row],
         UNCHANGED <<app, source, queue, job, patches, kills>>,
         IF rows[p] = None THEN row.status = "Proposed" /\ row.patch = 0
         ELSE /\ row.patch = rows[p].patch /\ (rows[p].applied => row.applied)
              /\ Reviewed(p) => row.reviewed \notin {None, Requester},
         row.status # "Proposed" => row.reviewed \notin {None, Requester},
         row.status \in {"Ready", "Applied", "RolledBack"} => row.patch # 0,
         row.status \in {"Applied", "RolledBack"} => row.applied,
         requests[c].stage \in {"changed", "unlocked"} => row.applied
  PROVE  IInv'
<1> USE DEF IInv
<1>1. requests' \in [Clients -> {None} \cup Request] /\ requests'[c] = None
      /\ \A d \in Clients \ {c} : requests'[d] = requests[d]
  BY Returned DEF NoPatchUnrecorded
<1>2. /\ rows' \in [Proposals -> {None} \cup ProposalRow] /\ rows'[p] = row /\ row # None
      /\ \A q \in Proposals \ {p} : rows'[q] = rows[q]
  BY RowFields DEF NoPatchUnrecorded, TypeOK
<1>3. RowsKept
  BY <1>2 DEF RowsKept, Reviewed
<1>4. PatchesKept
  BY DEF PatchesKept, Numbered
<1>5. TypeOK'
  BY <1>1, <1>2 DEF NoPatchUnrecorded, TypeOK
<1>6. RequestsSince' /\ SourceHeld'
  BY <1>3, <1>4, ReturnKeepsRequests
<1>7. StagedOnce' /\ NoPatchUnrecorded'
  BY <1>1, <1>2, <1>3, <1>5, StagedKept, RecordsKept
<1>8. PatchesNumbered'
  BY <1>2 DEF PatchesNumbered, Numbered
<1>9. RowsReviewed'
  <2>1. rows[p] # None /\ row.patch # 0 => row.reviewed \notin {None, Requester}
    BY DEF RowsReviewed
  <2>2. (row.status # "Proposed" \/ row.patch # 0) => Reviewed(p)'
    BY <1>2, <2>1 DEF Reviewed
  <2>3. \A q \in Proposals \ {p} : Reviewed(q)' <=> Reviewed(q)
    BY <1>2 DEF Reviewed
  <2> QED BY <1>2, <2>2, <2>3 DEF RowsReviewed
<1>10. JobSince'
  BY <1>3 DEF JobSince, RowsKept, NoPatchUnrecorded, TypeOK, Job, Reviewed
<1> QED BY <1>6, <1>7, <1>8, <1>9, <1>10

(* A request goes on, and changes no row; it may take its patch out of the source. *)
LEMMA AdvanceKeeps ==
  ASSUME IInv, NEW c \in Clients, requests[c] # None,
         NEW stage \in {"locked", "sourced", "unlocked"}, Advance(c, stage),
         UNCHANGED <<rows, app, job, patches, kills>>, queue' \subseteq Proposals,
         stage # "locked" => requests[c].endpoint \in {"apply", "rollback"},
         stage = "sourced" =>
           SourceFree /\ (requests[c].endpoint = "apply" => source'.staged = {}),
         stage = "unlocked" \/ requests[c].stage \notin {"changed", "unlocked"},
         source' = source \/ (requests[c].row # None /\ source' = TakenBack(requests[c].row.patch))
  PROVE  IInv'
<1> USE DEF IInv
<1>1. /\ requests' \in [Clients -> {None} \cup Request] /\ requests'[c] # None
      /\ requests'[c].row = requests[c].row /\ requests'[c].stage = stage
      /\ \A d \in Clients \ {c} : requests'[d] = requests[d]
  BY Advanced DEF NoPatchUnrecorded
<1>2. RowsKept /\ PatchesKept
  BY Unchanged
<1>3. source' \in Source /\ source'.staged \subseteq source.staged
  BY DEF NoPatchUnrecorded, TypeOK, TakenBack, Source
<1>4. TypeOK'
  BY <1>1, <1>3 DEF NoPatchUnrecorded, TypeOK
<1>5. RequestsSince' /\ SourceHeld'
  BY <1>2, <1>3, AdvanceKeepsRequests
<1>6. StagedOnce'
  BY <1>2, <1>3, StagedKept
<1>7. NoPatchUnrecorded'
  BY <1>1, <1>2, <1>3, <1>4, RecordsKept
<1> QED BY <1>5, <1>6, <1>7 DEF RowsReviewed, PatchesNumbered, JobSince, Reviewed, Numbered

(* Requests stand still. *)
LEMMA OthersKeep ==
  ASSUME IInv, TypeOK', UNCHANGED <<requests, kills>>, RowsKept, PatchesKept,
         source'.staged \subseteq source.staged,
         \A x \in DOMAIN patches : x \in DOMAIN patches' /\ patches'[x] = patches[x]
  PROVE  NoPatchUnrecorded' /\ RequestsSince' /\ SourceHeld' /\ StagedOnce'
<1> USE DEF IInv
<1>1. RequestsSince'
  <2> SUFFICES ASSUME NEW d \in Clients, requests[d] # None PROVE Since(requests[d])'
    BY DEF RequestsSince
  <2>1. PICK r \in Request : r = requests[d]
    BY DEF NoPatchUnrecorded, TypeOK
  <2>2. Since(r)'
    BY <2>1, SinceKept DEF RequestsSince
  <2> QED BY <2>1, <2>2 DEF Since, Reviewed, Numbered
<1>2. SourceHeld'
  BY DEF SourceHeld, HoldsSource, At
<1>3. StagedOnce'
  BY StagedKept
<1>4. NoPatchUnrecorded'
  <2>1. CASE Clients = {}
    <3> SUFFICES ASSUME kills' = 0, NEW x \in source'.staged PROVE Recorded(x)'
      BY DEF NoPatchUnrecorded, Recorded
    <3>1. /\ x \in source.staged /\ x \in DOMAIN patches /\ patches[x] \in Proposals
          /\ patches'[x] = patches[x] /\ rows[patches[x]] # None
      BY DEF StagedOnce, NoPatchUnrecorded, TypeOK, Reviewed
    <3>2. Recorded(x)
      BY <2>1, <3>1 DEF NoPatchUnrecorded, Recorded
    <3> QED BY <3>1, <3>2 DEF RowsKept, Recorded
  <2>2. CASE Clients # {}
    <3>1. PICK c \in Clients : TRUE
      BY <2>2
    <3> QED BY <3>1, RecordsKept
  <2> QED BY <2>1, <2>2
<1> QED BY <1>1, <1>2, <1>3, <1>4

-----------------------------------------------------------------------------
(* The steps *)

LEMMA CallsKeep == ASSUME IInv, NEW c \in Clients, Calls(c) PROVE IInv'
<1> PICK p \in Proposals :
      \/ Proposes(c, p) \/ Generates(c, p) \/ Applies(c, p) \/ RequestsDeployment(c, p)
      \/ RollsBack(c, p)
      \/ \E u \in Administrators :
           \/ RequestsRollback(c, p, u)
           \/ \E action \in {"approve", "reject"} :
                Reviews(c, p, u, action) \/ ReviewsRollback(c, p, u, action)
  BY DEF Calls
<1> USE DEF Endpoints
<1>1. CASE Proposes(c, p)
  BY <1>1, BeginKeeps DEF Proposes
<1>2. CASE Generates(c, p)
  BY <1>2, BeginKeeps DEF Generates
<1>3. CASE Applies(c, p)
  BY <1>3, BeginKeeps DEF Applies
<1>4. CASE RequestsDeployment(c, p)
  BY <1>4, BeginKeeps DEF RequestsDeployment
<1>5. CASE RollsBack(c, p)
  BY <1>5, BeginKeeps DEF RollsBack, Undeployed
<1>6. ASSUME NEW u \in Administrators, RequestsRollback(c, p, u) PROVE IInv'
  BY <1>6, BeginKeeps DEF RequestsRollback, Undeployed
<1>7. ASSUME NEW u \in Administrators, NEW a \in {"approve", "reject"}, Reviews(c, p, u, a)
      PROVE  IInv'
  BY <1>7, BeginKeeps, NotNull DEF Reviews, Independent
<1>8. ASSUME NEW u \in Administrators, NEW a \in {"approve", "reject"},
             ReviewsRollback(c, p, u, a)
      PROVE  IInv'
  BY <1>8, BeginKeeps DEF ReviewsRollback
<1> QED BY <1>1, <1>2, <1>3, <1>4, <1>5, <1>6, <1>7, <1>8

(* What a request that is under way knows. *)
LEMMA Known ==
  ASSUME IInv, NEW c \in Clients, requests[c] # None, NEW p, p = requests[c].proposal
  PROVE  /\ requests[c] \in Request /\ p \in Proposals /\ Since(requests[c])
         /\ requests[c].endpoint # "create" => rows[p] \in ProposalRow /\ rows[p] # None
         /\ rows[p] # None => rows[p] \in ProposalRow
<1>1. requests[c] \in Request
  BY DEF IInv, NoPatchUnrecorded, TypeOK
<1>2. p \in Proposals
  BY <1>1, RequestFields
<1>3. Since(requests[c])
  BY DEF IInv, RequestsSince
<1> QED BY <1>1, <1>2, <1>3 DEF IInv, NoPatchUnrecorded, TypeOK, Since

LEMMA CreateKeeps == ASSUME IInv, NEW c \in Clients, Create(c) PROVE IInv'
<1> DEFINE r == requests[c]
           row == [status |-> "Proposed", reviewed |-> None, revision |-> source.revision,
             policy |-> app.policy, patch |-> 0, applied |-> FALSE,
             deployment |-> "NotRequested", rollback |-> "NotRequested", requested |-> None,
             approved |-> None]
<1>1. /\ r # None /\ r.stage = "begun" /\ Return(c) /\ rows[r.proposal] = None
      /\ rows' = [rows EXCEPT ![r.proposal] = row]
      /\ UNCHANGED <<app, source, queue, job, patches, kills>>
  BY DEF Create, Writes, At
<1>2. r.proposal \in Proposals
  BY <1>1, Known
<1>3. row \in ProposalRow
  BY DEF ProposalRow, Statuses, Deployments, Rollbacks, IInv, NoPatchUnrecorded, TypeOK, Source
<1>4. row.status = "Proposed" /\ row.patch = 0
  OBVIOUS
<1> HIDE DEF row
<1> QED BY <1>1, <1>2, <1>3, <1>4, WriteKeeps

LEMMA ReviewKeeps == ASSUME IInv, NEW c \in Clients, Review(c) PROVE IInv'
<1> DEFINE r == requests[c]
           p == r.proposal
<1>1. PICK row : row = [rows[p] EXCEPT !.status = Decided(r.action), !.reviewed = r.user]
  OBVIOUS
<1>2. /\ r # None /\ r.endpoint = "review" /\ r.stage = "begun" /\ Return(c)
      /\ rows' = [rows EXCEPT ![p] = row]
      /\ UNCHANGED <<app, source, queue, job, patches, kills>>
  BY <1>1 DEF Review, Writes, At
<1>3. /\ p \in Proposals /\ rows[p] \in ProposalRow /\ r \in Request /\ rows[p] # None
      /\ r.user \notin {None, Requester}
  BY <1>2, Known DEF Since
<1>4. r.user \in Administrators /\ Decided(r.action) \in {"Approved", "Rejected"}
  BY <1>3, RequestFields DEF Decided
<1>5. /\ row \in ProposalRow /\ row.patch = rows[p].patch /\ row.applied = rows[p].applied
      /\ row.reviewed = r.user /\ row.status \in {"Approved", "Rejected"}
  BY <1>1, <1>3, <1>4 DEF ProposalRow, Statuses
<1> QED BY <1>2, <1>3, <1>5, WriteKeeps

LEMMA QueueKeeps == ASSUME IInv, NEW c \in Clients, Queue(c) PROVE IInv'
<1> DEFINE r == requests[c]
           p == r.proposal
<1>1. PICK row : row = [rows[p] EXCEPT !.status = "Queued"]
  OBVIOUS
<1>2. /\ r # None /\ r.endpoint = "generate" /\ r.stage = "locked" /\ Return(c)
      /\ rows' = [rows EXCEPT ![p] = row]
      /\ UNCHANGED <<app, source, queue, job, patches, kills>>
  BY <1>1 DEF Queue, At
<1>3. p \in Proposals /\ rows[p] \in ProposalRow /\ rows[p] # None /\ Reviewed(p)
  BY <1>2, Known DEF Since
<1>4. /\ row \in ProposalRow /\ row.patch = rows[p].patch /\ row.applied = rows[p].applied
      /\ row.reviewed = rows[p].reviewed /\ row.status = "Queued"
  BY <1>1, <1>3 DEF ProposalRow, Statuses
<1> QED BY <1>2, <1>3, <1>4, WriteKeeps DEF Reviewed

LEMMA AppliedKeeps == ASSUME IInv, NEW c \in Clients, Applied(c) PROVE IInv'
<1> DEFINE r == requests[c]
           p == r.proposal
<1>1. PICK row : row = [rows[p] EXCEPT !.status = "Applied", !.applied = TRUE,
                                       !.deployment = "Ready", !.rollback = "NotRequested"]
  OBVIOUS
<1>2. /\ r # None /\ r.endpoint = "apply" /\ Return(c)
      /\ rows' = [rows EXCEPT ![p] = row]
      /\ UNCHANGED <<app, source, queue, job, patches, kills>>
  BY <1>1 DEF Applied, At
<1>3. /\ p \in Proposals /\ rows[p] \in ProposalRow /\ rows[p] # None /\ Reviewed(p)
      /\ rows[p].patch # 0
  BY <1>2, Known DEF Since
<1>4. /\ row \in ProposalRow /\ row.patch = rows[p].patch /\ row.applied
      /\ row.reviewed = rows[p].reviewed /\ row.status = "Applied"
  BY <1>1, <1>3 DEF ProposalRow, Statuses, Deployments, Rollbacks
<1> QED BY <1>2, <1>3, <1>4, WriteKeeps DEF Reviewed

LEMMA RolledBackKeeps == ASSUME IInv, NEW c \in Clients, RolledBack(c) PROVE IInv'
<1> DEFINE r == requests[c]
           p == r.proposal
<1>1. PICK row : row = [rows[p] EXCEPT !.status = "RolledBack", !.deployment = "RolledBack",
                                       !.rollback = "RolledBack"]
  OBVIOUS
<1>2. /\ r # None /\ r.endpoint = "rollback" /\ Return(c)
      /\ rows' = [rows EXCEPT ![p] = row]
      /\ UNCHANGED <<app, source, queue, job, patches, kills>>
  BY <1>1 DEF RolledBack, At
<1>3. /\ p \in Proposals /\ rows[p] \in ProposalRow /\ rows[p] # None /\ Reviewed(p)
      /\ rows[p].patch # 0 /\ rows[p].applied
  BY <1>2, Known DEF Since
<1>4. /\ row \in ProposalRow /\ row.patch = rows[p].patch /\ row.applied
      /\ row.reviewed = rows[p].reviewed /\ row.status = "RolledBack"
  BY <1>1, <1>3 DEF ProposalRow, Statuses, Deployments, Rollbacks
<1> QED BY <1>2, <1>3, <1>4, WriteKeeps DEF Reviewed

(* Decisions on a deployment and on a rollback leave what was reviewed and applied. *)
Columns(row, d, b, u, v) ==
  [row EXCEPT !.deployment = d, !.rollback = b, !.requested = u, !.approved = v]
WritesColumns(p) ==
  \E d \in Deployments, b \in Rollbacks, u, v \in Administrators \cup {None} :
    rows' = [rows EXCEPT ![p] = Columns(rows[p], d, b, u, v)]

LEMMA ColumnsKeep ==
  ASSUME IInv, NEW c \in Clients, requests[c] # None, requests[c].endpoint # "create",
         requests[c].stage = "begun", Return(c), WritesColumns(requests[c].proposal),
         UNCHANGED <<app, source, queue, job, patches, kills>>
  PROVE  IInv'
<1> DEFINE p == requests[c].proposal
<1>1. p \in Proposals /\ rows[p] \in ProposalRow /\ rows[p] # None
  BY Known
<1>2. PICK d \in Deployments, b \in Rollbacks, u, v \in Administrators \cup {None} :
        rows' = [rows EXCEPT ![p] = Columns(rows[p], d, b, u, v)]
  BY DEF WritesColumns
<1>3. PICK row : row = Columns(rows[p], d, b, u, v)
  OBVIOUS
<1>4. /\ row \in ProposalRow /\ row.patch = rows[p].patch /\ row.applied = rows[p].applied
      /\ row.reviewed = rows[p].reviewed /\ row.status = rows[p].status
  BY <1>1, <1>3 DEF ProposalRow, Columns
<1>5. /\ (row.status # "Proposed" \/ row.patch # 0) => Reviewed(p)
      /\ row.status \in {"Ready", "Applied", "RolledBack"} => row.patch # 0
      /\ row.status \in {"Applied", "RolledBack"} => row.applied
  BY <1>1, <1>4 DEF IInv, RowsReviewed
<1> QED BY <1>1, <1>2, <1>3, <1>4, <1>5, WriteKeeps DEF Reviewed

LEMMA DecisionsKeep ==
  ASSUME IInv, NEW c \in Clients,
         BlockDeployment(c) \/ RequestRollback(c) \/ ReviewRollback(c)
  PROVE  IInv'
<1> DEFINE r == requests[c]
           p == r.proposal
           old == rows[p]
<1>1. /\ r # None /\ r.stage = "begun" /\ r.endpoint # "create" /\ Return(c)
      /\ UNCHANGED <<app, source, queue, job, patches, kills>>
  BY DEF BlockDeployment, RequestRollback, ReviewRollback, Writes, At
<1>2. /\ old \in ProposalRow /\ r.user \in Administrators \cup {None}
      /\ Decided(r.action) \in Rollbacks
      /\ old.deployment \in Deployments /\ old.rollback \in Rollbacks
      /\ old.requested \in Administrators \cup {None}
      /\ old.approved \in Administrators \cup {None}
  BY <1>1, Known, RequestFields, RowFields DEF Decided, Rollbacks
<1>3. /\ BlockDeployment(c) => rows' = [rows EXCEPT ![p] =
           Columns(old, "Blocked", old.rollback, old.requested, old.approved)]
      /\ RequestRollback(c) => rows' = [rows EXCEPT ![p] =
           Columns(old, old.deployment, "Pending", r.user, None)]
      /\ ReviewRollback(c) => rows' = [rows EXCEPT ![p] =
           Columns(old, old.deployment, Decided(r.action), old.requested, r.user)]
  <2>1. CASE BlockDeployment(c)
    <3>1. [old EXCEPT !.deployment = "Blocked"] =
          Columns(old, "Blocked", old.rollback, old.requested, old.approved)
      BY <1>2 DEF ProposalRow, Columns
    <3> QED BY <2>1, <3>1 DEF BlockDeployment, RequestRollback, ReviewRollback, Writes, At
  <2>2. CASE RequestRollback(c)
    <3>1. [old EXCEPT !.rollback = "Pending", !.requested = r.user, !.approved = None] =
          Columns(old, old.deployment, "Pending", r.user, None)
      BY <1>2 DEF ProposalRow, Columns
    <3> QED BY <2>2, <3>1 DEF BlockDeployment, RequestRollback, ReviewRollback, Writes, At
  <2>3. CASE ReviewRollback(c)
    <3>1. [old EXCEPT !.rollback = Decided(r.action), !.approved = r.user] =
          Columns(old, old.deployment, Decided(r.action), old.requested, r.user)
      BY <1>2 DEF ProposalRow, Columns
    <3> QED BY <2>3, <3>1 DEF BlockDeployment, RequestRollback, ReviewRollback, Writes, At
  <2> QED BY <2>1, <2>2, <2>3
<1>4. ASSUME NEW d \in Deployments, NEW k \in Rollbacks, NEW u \in Administrators \cup {None},
             NEW v \in Administrators \cup {None},
             rows' = [rows EXCEPT ![p] = Columns(old, d, k, u, v)]
      PROVE  WritesColumns(p)
  BY <1>4 DEF WritesColumns
<1>5. "Blocked" \in Deployments /\ "Pending" \in Rollbacks
  BY DEF Deployments, Rollbacks
<1>6. WritesColumns(p)
  <2> HIDE DEF r, p, old
  <2> QED BY <1>2, <1>3, <1>4, <1>5
<1> QED BY <1>1, <1>6, ColumnsKeep

LEMMA LocksKeep ==
  ASSUME IInv, NEW c \in Clients,
         Enqueue(c) \/ LockRow(c) \/ LockSource(c) \/ LockApplied(c)
  PROVE  IInv'
<1>1. queue \subseteq Proposals
  BY DEF IInv, NoPatchUnrecorded, TypeOK
<1>2. CASE Enqueue(c)
  <2>1. requests[c] # None /\ requests[c].proposal \in Proposals
    BY <1>2, Known DEF Enqueue, At
  <2> QED BY <1>1, <1>2, <2>1, AdvanceKeeps DEF Enqueue, At
<1>3. CASE LockRow(c)
  BY <1>1, <1>3, AdvanceKeeps DEF LockRow, At
<1>4. CASE LockSource(c)
  BY <1>1, <1>4, AdvanceKeeps DEF LockSource, StillReviewed, Clean, At
<1>5. CASE LockApplied(c)
  BY <1>1, <1>5, AdvanceKeeps DEF LockApplied, At
<1> QED BY <1>2, <1>3, <1>4, <1>5

(* The patch goes over a source that was clean and that no other request has. *)
LEMMA ApplyPatchKeeps == ASSUME IInv, NEW c \in Clients, ApplyPatch(c) PROVE IInv'
<1> USE DEF IInv
<1> DEFINE r == requests[c]
           patch == r.row.patch
<1>1. /\ r # None /\ r.endpoint = "apply" /\ r.stage = "sourced" /\ Advance(c, "changed")
      /\ source' = [source EXCEPT !.staged = @ \cup {patch}]
      /\ UNCHANGED <<rows, app, queue, job, patches, kills>>
  BY DEF ApplyPatch, At
<1>2. /\ r \in Request /\ r.proposal \in Proposals /\ r.row # None /\ patch # 0
      /\ patch \in 1..MaxPatches /\ Numbered(r.proposal, patch) /\ Reviewed(r.proposal)
  BY <1>1, Known, RequestFields DEF Since
<1>3. source.staged = {}
  BY <1>1 DEF SourceHeld, At
<1>4. source' \in Source /\ source'.staged = {patch}
  BY SMTT(30), <1>1, <1>2, <1>3 DEF NoPatchUnrecorded, TypeOK, Source
<1>5. /\ requests' \in [Clients -> {None} \cup Request] /\ requests'[c] # None
      /\ requests'[c].row = r.row /\ requests'[c].stage = "changed"
  BY <1>1, Advanced DEF NoPatchUnrecorded
<1>6. TypeOK'
  BY <1>1, <1>4, <1>5 DEF NoPatchUnrecorded, TypeOK
<1>7. RowsKept /\ PatchesKept
  BY <1>1, Unchanged
<1>8. RequestsSince' /\ SourceHeld'
  BY <1>1, <1>7, AdvanceKeepsRequests DEF At
<1>9. patch \in DOMAIN patches /\ patches[patch] = r.proposal
  BY <1>2 DEF Numbered, NoPatchUnrecorded, TypeOK
<1>10. StagedOnce'
  BY <1>1, <1>2, <1>4, <1>9 DEF StagedOnce, Reviewed
<1>11. NoPatchUnrecorded'
  BY <1>2, <1>4, <1>5, <1>6 DEF NoPatchUnrecorded
<1> QED BY <1>1, <1>8, <1>10, <1>11
        DEF RowsReviewed, PatchesNumbered, JobSince, Reviewed, Numbered

LEMMA VerifyPatchKeeps == ASSUME IInv, NEW c \in Clients, VerifyPatch(c) PROVE IInv'
<1>1. /\ requests[c] # None /\ requests[c].endpoint = "apply"
      /\ UNCHANGED <<rows, app, queue, job, patches, kills>>
  BY DEF VerifyPatch, At
<1>2. requests[c].row # None /\ queue \subseteq Proposals
  BY <1>1, Known DEF Since, IInv, NoPatchUnrecorded, TypeOK
<1>3. CASE Advance(c, "unlocked") /\ UNCHANGED source
  BY <1>1, <1>2, <1>3, AdvanceKeeps
<1>4. CASE Return(c) /\ source' = TakenBack(requests[c].row.patch)
  BY <1>1, <1>2, <1>4, ReturnKeeps
<1> QED BY <1>3, <1>4 DEF VerifyPatch

LEMMA ReversePatchKeeps == ASSUME IInv, NEW c \in Clients, ReversePatch(c) PROVE IInv'
<1>1. /\ requests[c] # None /\ requests[c].endpoint = "rollback"
      /\ source' = TakenBack(requests[c].row.patch)
      /\ UNCHANGED <<rows, app, queue, job, patches, kills>>
  BY DEF ReversePatch, At
<1>2. requests[c].row # None /\ queue \subseteq Proposals
  BY <1>1, Known DEF Since, IInv, NoPatchUnrecorded, TypeOK
<1>3. CASE Advance(c, "unlocked")
  BY <1>1, <1>2, <1>3, AdvanceKeeps
<1>4. CASE Return(c)
  BY <1>1, <1>2, <1>4, ReturnKeeps
<1> QED BY <1>3, <1>4 DEF ReversePatch

LEMMA StepsKeep == ASSUME IInv, NEW c \in Clients, Steps(c) PROVE IInv'
BY CreateKeeps, ReviewKeeps, QueueKeeps, AppliedKeeps, RolledBackKeeps, DecisionsKeep,
   LocksKeep, ApplyPatchKeeps, VerifyPatchKeeps, ReversePatchKeeps DEF Steps

LEMMA AbortKeeps == ASSUME IInv, NEW c \in Clients, Abort(c) \/ Kill(c) PROVE IInv'
<1>1. CASE Abort(c)
  BY <1>1, ReturnKeeps DEF Abort
<1>2. CASE Kill(c)
  BY <1>2, ReturnKeeps DEF Kill
<1> QED BY <1>1, <1>2

(* A generation *)
LEMMA StartGenerationKeeps ==
  ASSUME IInv, NEW p \in Proposals, StartGeneration(p)
  PROVE  IInv'
<1> USE DEF IInv
<1>1. /\ UNCHANGED <<rows, app, source, requests, patches, kills>>
      /\ queue' \subseteq Proposals
  BY DEF StartGeneration, NoPatchUnrecorded, TypeOK
<1>2. RowsKept /\ PatchesKept
  BY <1>1, Unchanged
<1>3. job' \in {None} \cup Job /\ JobSince'
  <2>1. CASE UNCHANGED job
    BY <1>1, <2>1 DEF NoPatchUnrecorded, TypeOK, JobSince, Reviewed
  <2>2. CASE ~UNCHANGED job
    <3>1. /\ rows[p].status = "Queued" /\ rows[p] # None
          /\ job' = [proposal |-> p, row |-> Read(p), registered |-> app.registered]
      BY <2>2 DEF StartGeneration, PolicyHolds
    <3>2. Read(p) \in ReadRow /\ app.registered \in Nat /\ Reviewed(p)
      BY <3>1, RowFields DEF Read, ReadRow, NoPatchUnrecorded, TypeOK, RowsReviewed
    <3>3. job' \in Job /\ job'.proposal = p
      BY <3>1, <3>2 DEF Job
    <3> QED BY <1>1, <3>2, <3>3 DEF JobSince, Reviewed
  <2> QED BY <2>1, <2>2
<1>4. TypeOK'
  BY <1>1, <1>3 DEF NoPatchUnrecorded, TypeOK
<1>5. NoPatchUnrecorded' /\ RequestsSince' /\ SourceHeld' /\ StagedOnce'
  BY <1>1, <1>2, <1>4, OthersKeep
<1> QED BY <1>1, <1>3, <1>5 DEF RowsReviewed, PatchesNumbered, Reviewed, Numbered

LEMMA FinishGenerationKeeps == ASSUME IInv, FinishGeneration PROVE IInv'
<1> USE DEF IInv
<1>0. PICK p : p = job.proposal
  OBVIOUS
<1>1. PICK n : n = Len(patches) + 1
  OBVIOUS
<1>2. PICK row : row = [rows[p] EXCEPT !.status = "Ready", !.patch = n]
  OBVIOUS
<1>3. /\ job # None /\ Len(patches) < MaxPatches /\ patches' = Append(patches, p) /\ job' = None
      /\ UNCHANGED <<app, source, queue, requests, kills>>
  BY <1>0 DEF FinishGeneration
<1>4. p \in Proposals /\ Reviewed(p) /\ rows[p] \in ProposalRow
  BY <1>0, <1>3 DEF JobSince, NoPatchUnrecorded, TypeOK, Job, Reviewed
<1>5. rows' = [rows EXCEPT ![p] = row]
  BY <1>0, <1>1, <1>2, <1>4 DEF FinishGeneration, NoPatchUnrecorded, TypeOK
<1>6. /\ patches \in Seq(Proposals) /\ patches' \in Seq(Proposals) /\ Len(patches') = n
      /\ patches'[n] = p /\ n \in 1..MaxPatches
      /\ \A x \in 1..Len(patches) : patches'[x] = patches[x]
      /\ DOMAIN patches = 1..Len(patches) /\ DOMAIN patches' = 1..n
      /\ Len(patches) \in Nat
  BY <1>1, <1>3, <1>4, LenProperties, AppendProperties DEF NoPatchUnrecorded, TypeOK
<1>7. /\ row \in ProposalRow /\ row.patch = n /\ row.status = "Ready"
      /\ row.reviewed = rows[p].reviewed /\ row.applied = rows[p].applied
  <2>1. n \in 0..MaxPatches /\ "Ready" \in Statuses
    BY <1>6 DEF Statuses
  <2> HIDE DEF Statuses
  <2> QED BY <1>2, <1>4, <2>1 DEF ProposalRow
<1>8. /\ rows' \in [Proposals -> {None} \cup ProposalRow] /\ rows'[p] = row /\ row # None
      /\ \A q \in Proposals \ {p} : rows'[q] = rows[q]
  BY <1>4, <1>5, <1>7, RowFields DEF NoPatchUnrecorded, TypeOK
<1>9. RowsKept
  BY <1>6, <1>7, <1>8 DEF RowsKept, Reviewed
<1>10. PatchesKept
  BY <1>1, <1>6 DEF PatchesKept, Numbered
<1>11. TypeOK'
  BY <1>3, <1>6, <1>8 DEF NoPatchUnrecorded, TypeOK
<1>12. NoPatchUnrecorded' /\ RequestsSince' /\ SourceHeld' /\ StagedOnce'
  BY <1>1, <1>3, <1>6, <1>9, <1>10, <1>11, OthersKeep
<1>13. RowsReviewed'
  <2>1. Reviewed(p)' /\ \A q \in Proposals \ {p} : Reviewed(q)' <=> Reviewed(q)
    BY <1>4, <1>7, <1>8 DEF Reviewed
  <2> QED BY <1>6, <1>7, <1>8, <2>1 DEF RowsReviewed
<1>14. PatchesNumbered'
  <2>1. Numbered(p, n)'
    BY <1>6 DEF Numbered
  <2>2. \A q \in Proposals \ {p} : rows[q] # None => Numbered(q, rows[q].patch)'
    <3> SUFFICES ASSUME NEW q \in Proposals \ {p}, rows[q] # None
                 PROVE  Numbered(q, rows[q].patch)'
      OBVIOUS
    <3>1. PICK y : y = rows[q].patch
      OBVIOUS
    <3>2. y \in 0..MaxPatches /\ Numbered(q, y)
      BY <3>1, RowFields DEF PatchesNumbered, NoPatchUnrecorded, TypeOK
    <3>3. Numbered(q, y)'
      BY <1>10, <3>2 DEF PatchesKept
    <3> QED BY <1>8, <3>1, <3>3 DEF Numbered
  <2> QED BY <1>7, <1>8, <2>1, <2>2 DEF PatchesNumbered, Numbered
<1>15. JobSince'
  BY <1>3 DEF JobSince
<1> QED BY <1>12, <1>13, <1>14, <1>15

(* What others do takes no patch but out of the source. *)
LEMMA EnvironmentKeeps ==
  ASSUME IInv, FailGeneration \/ EditSource \/ CommitSource \/ Register \/ EditPolicy
  PROVE  IInv'
<1> USE DEF IInv
<1>1. /\ UNCHANGED <<rows, queue, requests, patches, kills>> /\ job' \in {None, job}
  BY DEF FailGeneration, EditSource, CommitSource, Register, EditPolicy, Change
<1>2. source' \in Source /\ source'.staged \subseteq source.staged
  <2>1. source \in Source
    BY DEF NoPatchUnrecorded, TypeOK
  <2>2. CASE EditSource
    BY <2>1, <2>2 DEF EditSource, Source
  <2>3. CASE CommitSource
    BY <2>1, <2>3 DEF CommitSource, Source
  <2> QED BY <2>1, <2>2, <2>3 DEF FailGeneration, Register, EditPolicy, Change
<1>3. app' \in [registered : Nat, policy : Nat]
  BY DEF FailGeneration, EditSource, CommitSource, Register, EditPolicy, Change,
         NoPatchUnrecorded, TypeOK, Source
<1>4. RowsKept /\ PatchesKept
  BY <1>1, Unchanged
<1>5. TypeOK'
  BY <1>1, <1>2, <1>3 DEF NoPatchUnrecorded, TypeOK
<1>6. NoPatchUnrecorded' /\ RequestsSince' /\ SourceHeld' /\ StagedOnce'
  BY <1>1, <1>2, <1>4, <1>5, OthersKeep
<1> QED BY <1>1, <1>6 DEF RowsReviewed, PatchesNumbered, JobSince, Reviewed, Numbered

-----------------------------------------------------------------------------
(* Theorems *)

LEMMA InitIInv == Init => IInv
<1> SUFFICES ASSUME Init PROVE IInv
  OBVIOUS
<1> USE DEF Init
<1>1. TypeOK
  BY DEF TypeOK, Source
<1>2. NoPatchUnrecorded
  BY <1>1 DEF NoPatchUnrecorded
<1>3. RowsReviewed /\ PatchesNumbered /\ RequestsSince /\ JobSince /\ SourceHeld /\ StagedOnce
  BY DEF RowsReviewed, PatchesNumbered, RequestsSince, JobSince, SourceHeld, HoldsSource, At,
         StagedOnce
<1> QED BY <1>2, <1>3 DEF IInv

LEMMA NextIInv == IInv /\ [Next]_vars => IInv'
<1> SUFFICES ASSUME IInv, [Next]_vars PROVE IInv'
  OBVIOUS
<1>1. CASE UNCHANGED vars
  BY <1>1 DEF vars, IInv, NoPatchUnrecorded, TypeOK, RowsReviewed, PatchesNumbered,
     RequestsSince, Since, JobSince, SourceHeld, HoldsSource, At, StagedOnce, Reviewed, Numbered
<1>2. CASE \E c \in Clients : Calls(c) \/ Steps(c) \/ Abort(c) \/ Kill(c)
  BY <1>2, CallsKeep, StepsKeep, AbortKeeps
<1>3. CASE \E p \in Proposals : StartGeneration(p)
  BY <1>3, StartGenerationKeeps
<1>4. CASE FinishGeneration
  BY <1>4, FinishGenerationKeeps
<1>5. CASE FailGeneration \/ EditSource \/ CommitSource \/ Register \/ EditPolicy
  BY <1>5, EnvironmentKeeps
<1> QED BY <1>1, <1>2, <1>3, <1>4, <1>5 DEF Next

LEMMA Invariant == Spec => []IInv
BY InitIInv, NextIInv, PTL DEF Spec

(* The source holds at most one patch, however many requests apply, roll back and are
   killed at once (apply_reviewed_patch, behind the file lock of the app's source). *)
THEOREM OnePatchAtATimeCorrect == Spec => []OnePatchAtATime
<1>1. IInv => OnePatchAtATime
  <2> SUFFICES ASSUME IInv PROVE Cardinality(source.staged) <= 1
    BY DEF OnePatchAtATime
  <2>1. CASE source.staged = {}
    BY <2>1, FS_EmptySet
  <2>2. CASE source.staged # {}
    <3>1. PICK x \in source.staged : TRUE
      BY <2>2
    <3>2. \A y \in source.staged : y = x
      BY <3>1 DEF IInv, StagedOnce
    <3>3. source.staged = {x}
      BY <3>1, <3>2
    <3>4. Cardinality(source.staged) = 1
      BY <3>3, FS_Singleton
    <3> QED BY <3>4
  <2> QED BY <2>1, <2>2
<1> QED BY <1>1, Invariant, PTL

(* Whatever is staged was generated for a proposal that an administrator other than its
   requester has reviewed, whatever stale decisions overwrite each other since. *)
THEOREM OnlyReviewedPatchesCorrect == Spec => []OnlyReviewedPatches
<1>1. IInv => OnlyReviewedPatches
  BY DEF IInv, StagedOnce, OnlyReviewedPatches, Reviewed
<1> QED BY <1>1, Invariant, PTL

(* While no worker is killed over a changed source, a patch is in it for a proposal that
   was applied or on behalf of a request about to say so; rows, requests, jobs and the
   source keep their types. *)
THEOREM NoPatchUnrecordedCorrect == Spec => []NoPatchUnrecorded
<1>1. IInv => NoPatchUnrecorded
  BY DEF IInv
<1> QED BY <1>1, Invariant, PTL
=============================================================================
