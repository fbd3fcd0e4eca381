---------------------------- MODULE SiteConnection ----------------------------
(***************************************************************************)
(* How a site comes to trust a gateway (api/onboarding.py), and the Telegram  *)
(* links its users have through the gateway it trusts (api/channel.py).      *)
(*                                                                         *)
(* A connection consumes a one-use token in the cache, is exchanged and       *)
(* verified with the gateway, and is saved in the site's settings; a link is   *)
(* issued, confirmed and revoked at the gateway before its row says so.  A    *)
(* request reads the rows from its snapshot, commits when it returns, and     *)
(* may stop after any call.  Document.save compares the row's revision; the   *)
(* scheduled expiry writes the status and leaves the revision as it was.     *)
(***************************************************************************)
EXTENDS Naturals, FiniteSets, TLC

CONSTANTS
  None,
  States,      \* one-use states of browser connections
  Nonces,      \* one-use nonces of connections with API credentials
  Gateways,    \* gateways an administrator may connect the site to
  Keys,        \* Idempotency-Keys of link issues; the gateway issues one link for each
  Accounts,    \* Telegram accounts
  Clients,     \* requests under way at once
  MaxLapses    \* bound on locks, tokens and links that run out, and changes of permissions

ASSUME TokensAssumption == States \cap Nonces = {}
ASSUME BoundsAssumption == MaxLapses \in Nat

Tokens == States \cup Nonces

Statuses == {"Pending", "Verified", "Expired", "Revoked"}
LinkStates == {"none", "issued", "confirmed", "revoked"}
Link == [state : LinkStates, account : Accounts \cup {None}]

(* home: the gateway of provider_link_id; subject: external_subject, None while pending. *)
IdentityRow ==
  [status : Statuses, home : Gateways, subject : Accounts \cup {None}, epoch : Nat,
   late : BOOLEAN, revision : Nat]

LinkCalls == {"issue", "confirm", "revoke"}
ConnectRequest ==
  [call : {"connect"}, step : {"begun", "locked", "read", "spent", "consumed", "verified"},
   token : Tokens, gateway : Gateways \cup {None}, fresh : BOOLEAN, revision : Nat \cup {None}]
LinkRequest ==
  [call : LinkCalls, step : {"begun", "answered"}, key : Keys, gateway : Gateways, epoch : Nat,
   row : IdentityRow \cup {None}, subject : Accounts \cup {None}]

ASSUME NoneAssumption ==
  None \notin Gateways /\ None \notin Clients /\ None \notin IdentityRow
    /\ None \notin ConnectRequest /\ None \notin LinkRequest

VARIABLES
  trust,       \* Muster Settings and its site binding: gateway and revision
  made,        \* states that have been made
  cache,       \* tokens the cache holds: pending states, used nonces
  lock,        \* who holds the cache lock of each token
  exchanged,   \* how often each token has been exchanged with its gateway
  forgotten,   \* tokens that have run out since
  identities,  \* Muster Channel Identity rows, by the key they were issued under
  links,       \* the gateways' links
  epoch,       \* permission epoch of the users
  requests,    \* what each request is doing
  lapses

vars == <<trust, made, cache, lock, exchanged, forgotten, identities, links, epoch, requests, lapses>>
connection == <<trust, made, cache, lock, exchanged, forgotten>>
channel == <<identities, links>>

-----------------------------------------------------------------------------
(* Requests *)

At(c, call, step) == requests[c] # None /\ requests[c].call = call /\ requests[c].step = step
Advance(c, step) == requests' = [requests EXCEPT ![c].step = step]
Return(c) == requests' = [requests EXCEPT ![c] = None]
Start(c, request) == requests[c] = None /\ requests' = [requests EXCEPT ![c] = request]

(* A refusal, a lost answer or a killed worker; a lock it holds runs out by itself. *)
Abort(c) ==
  /\ requests[c] # None /\ Return(c)
  /\ UNCHANGED <<connection, channel, epoch, lapses>>

-----------------------------------------------------------------------------
(* Connecting the site *)

BeginConnection(s) ==
  /\ s \notin made /\ made' = made \cup {s}
  /\ cache' = cache \cup {s}
  /\ UNCHANGED <<trust, lock, exchanged, forgotten, channel, epoch, requests, lapses>>

(* A pending state is fresh while it is held, a nonce while it is not. *)
Fresh(t) == (t \in cache) = (t \in States)

(* complete and connect_with_api_credentials; only requests that find a fresh token are
   followed.  The latter reads the administrator's roles first: that is its snapshot. *)
Connect(c, t) ==
  /\ Fresh(t)
  /\ Start(c, [call |-> "connect", step |-> "begun", token |-> t, gateway |-> None, fresh |-> FALSE,
               revision |-> IF t \in Nonces THEN trust.revision ELSE None])
  /\ UNCHANGED <<connection, channel, epoch, lapses>>

TakeLock(c) ==
  /\ At(c, "connect", "begun") /\ lock[requests[c].token] = None
  /\ Advance(c, "locked") /\ lock' = [lock EXCEPT ![requests[c].token] = c]
  /\ UNCHANGED <<made, trust, cache, exchanged, forgotten, channel, epoch, lapses>>

ReadToken(c) ==
  /\ At(c, "connect", "locked")
  /\ requests' = [requests EXCEPT ![c].step = "read", ![c].fresh = Fresh(requests[c].token)]
  /\ UNCHANGED <<connection, channel, epoch, lapses>>

SpendToken(c) ==
  /\ At(c, "connect", "read")
  /\ LET t == requests[c].token IN
       cache' = IF t \in States THEN cache \ {t} ELSE cache \cup {t}
  /\ Advance(c, "spent")
  /\ UNCHANGED <<made, trust, lock, exchanged, forgotten, channel, epoch, lapses>>

(* Leaving the lock raises when it ran out meanwhile, and so ends the request. *)
Whoever(c) == TRUE
StillHeld(c) == lock[requests[c].token] = c

LeaveLock(c) ==
  /\ At(c, "connect", "spent")
  /\ lock' = IF lock[requests[c].token] = c THEN [lock EXCEPT ![requests[c].token] = None] ELSE lock
  /\ IF StillHeld(c) /\ requests[c].fresh THEN Advance(c, "consumed") ELSE Return(c)
  /\ UNCHANGED <<made, trust, cache, exchanged, forgotten, channel, epoch, lapses>>

(* The exchange with the gateway the token was made for, and the reciprocal verification,
   which may come to nothing. *)
Exchange(c, g) ==
  /\ At(c, "connect", "consumed")
  /\ exchanged' = [exchanged EXCEPT ![requests[c].token] = @ + 1]
  /\ \/ requests' = [requests EXCEPT ![c].step = "verified", ![c].gateway = g]
     \/ Return(c)
  /\ UNCHANGED <<made, trust, cache, lock, forgotten, channel, epoch, lapses>>

(* Binding and settings are saved together; a guest's first read, and its snapshot, is here. *)
PersistTrust(c) ==
  /\ At(c, "connect", "verified")
  /\ requests[c].token \in Nonces => requests[c].revision = trust.revision
  /\ trust' = [gateway |-> requests[c].gateway, revision |-> trust.revision + 1]
  /\ Return(c)
  /\ UNCHANGED <<made, cache, lock, exchanged, forgotten, channel, epoch, lapses>>

-----------------------------------------------------------------------------
(* Telegram links *)

Calling(c, call, k) ==
  /\ trust.gateway # None
  /\ Start(c, [call |-> call, step |-> "begun", key |-> k, gateway |-> trust.gateway,
               epoch |-> epoch, row |-> identities[k], subject |-> None])
  /\ UNCHANGED <<connection, channel, epoch, lapses>>

(* A key that has a row already is answered from it. *)
Issue(c, k) == identities[k] = None /\ Calling(c, "issue", k)

Confirm(c, k) ==
  /\ identities[k] # None /\ identities[k].status = "Pending" /\ ~identities[k].late
  /\ identities[k].epoch = epoch
  /\ Calling(c, "confirm", k)

Revoke(c, k) == identities[k] # None /\ identities[k].status # "Revoked" /\ Calling(c, "revoke", k)

(* The gateway's side: it answers a repeated call as the first and refuses a link it does not
   know, another gateway's among them. *)
Known(c) == requests[c].row = None \/ requests[c].row.home = requests[c].gateway
LinkOf(c) == links[requests[c].gateway][requests[c].key]
Answers(c, call) ==
  CASE call = "issue" -> TRUE
    [] call = "confirm" -> Known(c) /\ LinkOf(c).state \in {"issued", "confirmed"}
    [] call = "revoke" -> Known(c)

(* Any answer but a success is raised by the client. *)
Whatever(success) == TRUE
Proceeds(success) == success

Changed(c, call, account) ==
  LET link == LinkOf(c) IN
  CASE call = "issue" /\ link.state = "none" -> [link EXCEPT !.state = "issued"]
    [] call = "confirm" /\ Known(c) /\ link.state = "issued" -> [state |-> "confirmed", account |-> account]
    [] call = "revoke" /\ Known(c) -> [link EXCEPT !.state = "revoked"]
    [] OTHER -> link

Post(c, account) ==
  /\ \E call \in LinkCalls : At(c, call, "begun")
  /\ Proceeds(Answers(c, requests[c].call))
  /\ links' = [links EXCEPT ![requests[c].gateway][requests[c].key] =
                 Changed(c, requests[c].call, account)]
  /\ requests' = [requests EXCEPT ![c].step = "answered",
                                  ![c].subject = links'[requests[c].gateway][requests[c].key].account]
  /\ UNCHANGED <<connection, identities, epoch, lapses>>

Save(c, row) ==
  /\ Return(c)
  /\ identities' = [identities EXCEPT ![requests[c].key] = row]
  /\ UNCHANGED <<connection, links, epoch, lapses>>

(* external_subject and the fingerprint of the key are unique. *)
InsertIdentity(c) ==
  /\ At(c, "issue", "answered") /\ identities[requests[c].key] = None
  /\ Save(c, [status |-> "Pending", home |-> requests[c].gateway, subject |-> None,
              epoch |-> requests[c].epoch, late |-> FALSE, revision |-> 0])

NotChanged(c) == identities[requests[c].key].revision = requests[c].row.revision
Taken(account, k) == \E other \in Keys \ {k} : identities[other] # None /\ identities[other].subject = account

SaveConfirmed(c) ==
  /\ At(c, "confirm", "answered") /\ NotChanged(c)
  /\ ~Taken(requests[c].subject, requests[c].key)
  /\ Save(c, [requests[c].row EXCEPT !.status = "Verified", !.subject = requests[c].subject,
              !.late = identities[requests[c].key].late, !.revision = @ + 1])

SaveRevoked(c) ==
  /\ At(c, "revoke", "answered") /\ NotChanged(c)
  /\ Save(c, [requests[c].row EXCEPT !.status = "Revoked",
              !.late = identities[requests[c].key].late, !.revision = @ + 1])

(* prune_expired_links: every hour, over the rows as they are. *)
Prune ==
  /\ \E k \in Keys : identities[k] # None /\ identities[k].status = "Pending" /\ identities[k].late
  /\ identities' = [k \in Keys |->
       IF identities[k] # None /\ identities[k].status = "Pending" /\ identities[k].late
       THEN [identities[k] EXCEPT !.status = "Expired"] ELSE identities[k]]
  /\ UNCHANGED <<connection, links, epoch, requests, lapses>>

-----------------------------------------------------------------------------
(* Time and administrators *)

Lapse == lapses < MaxLapses /\ lapses' = lapses + 1 /\ UNCHANGED <<made, trust, exchanged, links>>

LapseLock(t) ==
  /\ lock[t] # None /\ lock' = [lock EXCEPT ![t] = None]
  /\ Lapse /\ UNCHANGED <<cache, forgotten, identities, epoch, requests>>

(* A state runs out ten minutes after it was made; a used nonce is remembered for fifteen. *)
Forget(t) ==
  /\ t \in cache /\ cache' = cache \ {t} /\ forgotten' = forgotten \cup {t}
  /\ Lapse /\ UNCHANGED <<lock, identities, epoch, requests>>

PassLimit(k) ==
  /\ identities[k] # None /\ ~identities[k].late
  /\ identities' = [identities EXCEPT ![k].late = TRUE]
  /\ Lapse /\ UNCHANGED <<cache, lock, forgotten, epoch, requests>>

Reauthorize ==
  /\ epoch' = epoch + 1
  /\ Lapse /\ UNCHANGED <<cache, lock, forgotten, identities, requests>>

Init ==
  /\ trust = [gateway |-> None, revision |-> 0]
  /\ made = {} /\ cache = {} /\ lock = [t \in Tokens |-> None]
  /\ exchanged = [t \in Tokens |-> 0] /\ forgotten = {}
  /\ identities = [k \in Keys |-> None]
  /\ links = [g \in Gateways |-> [k \in Keys |-> [state |-> "none", account |-> None]]]
  /\ epoch = 0 /\ requests = [c \in Clients |-> None] /\ lapses = 0

ConnectionStep(c) ==
  \/ \E t \in Tokens : Connect(c, t)
  \/ TakeLock(c) \/ ReadToken(c) \/ SpendToken(c) \/ LeaveLock(c)
  \/ \E g \in Gateways : Exchange(c, g)
  \/ PersistTrust(c)

LinkStep(c) ==
  \/ \E k \in Keys : Issue(c, k) \/ Confirm(c, k) \/ Revoke(c, k)
  \/ \E account \in Accounts : Post(c, account)
  \/ InsertIdentity(c) \/ SaveConfirmed(c) \/ SaveRevoked(c)

Next ==
  \/ \E c \in Clients : ConnectionStep(c) \/ LinkStep(c) \/ Abort(c)
  \/ \E s \in States : BeginConnection(s)
  \/ \E t \in Tokens : LapseLock(t) \/ Forget(t)
  \/ \E k \in Keys : PassLimit(k)
  \/ Prune \/ Reauthorize

Spec == Init /\ [][Next]_vars

-----------------------------------------------------------------------------
(* Properties *)

(* A state or nonce is exchanged once, however slow the worker that holds its lock: the one
   whose lock ran out reads a fresh token too, and is stopped when it leaves the lock.  Only
   a nonce whose record has run out can come again (_consume_pending,
   _consume_fallback_nonce). *)
ExchangedOnce ==
  \A t \in Tokens : exchanged[t] <= 1 \/ t \in Nonces \cap forgotten

(* Requests of other calls are those of the modules that extend this one. *)
TypeOK ==
  /\ trust \in [gateway : Gateways \cup {None}, revision : Nat]
  /\ cache \subseteq Tokens /\ forgotten \subseteq Tokens /\ made \subseteq States
  /\ lock \in [Tokens -> Clients \cup {None}] /\ exchanged \in [Tokens -> Nat]
  /\ identities \in [Keys -> IdentityRow \cup {None}]
  /\ links \in [Gateways -> [Keys -> Link]]
  /\ epoch \in Nat /\ lapses \in 0..MaxLapses
  /\ requests = [c \in Clients |-> requests[c]]
  /\ \A c \in Clients : requests[c] # None =>
       /\ requests[c].call = "connect" => requests[c] \in ConnectRequest
       /\ requests[c].call \in LinkCalls => requests[c] \in LinkRequest

(* What a row says was granted by the gateway that issued its link, whatever calls were lost
   or overtook each other and whatever gateway the site has been connected to since: a
   verified row names the account the link was confirmed for, and a revoked link is dead
   (confirm_telegram_link, revoke_telegram_link).  Rows and requests are of their types. *)
StatusWasGranted ==
  /\ TypeOK
  /\ \A k \in Keys : identities[k] # None =>
    LET row == identities[k]  link == links[row.home][k] IN
    /\ row.status = "Verified" => /\ link.state \in {"confirmed", "revoked"}
                                  /\ link.account = row.subject
    /\ row.status = "Revoked" => link.state = "revoked"
=============================================================================
