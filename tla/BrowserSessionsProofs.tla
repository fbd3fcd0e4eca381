------------------------- MODULE BrowserSessionsProofs -------------------------
(***************************************************************************)
(* Proofs about SiteConnection and BrowserSessions for any tokens, tickets,  *)
(* gateways, links and numbers of concurrent requests.                       *)
(***************************************************************************)
EXTENDS BrowserSessions, SequenceTheorems, TLAPS

USE TokensAssumption, BoundsAssumption

-----------------------------------------------------------------------------
(* Why a token is exchanged once. *)

(* A nonce is remembered for a while only. *)
Lost(t) == t \in Nonces \cap forgotten

Spends(c, t, step) == At(c, "connect", step) /\ requests[c].token = t
Consumes(c, t) == Spends(c, t, "consumed")
Used(t) == exchanged[t] # 0 \/ \E c \in Clients : Consumes(c, t)

(* Still in the lock it took, with a token it found fresh there. *)
MayPass(c, t) ==
  (Spends(c, t, "read") \/ Spends(c, t, "spent")) /\ requests[c].fresh /\ lock[t] = c

(* A state is made once, and only a state that was made is consumed. *)
StatesMade ==
  \A t \in States :
    /\ t \in cache \/ exchanged[t] # 0 => t \in made
    /\ \A c \in Clients : requests[c] # None /\ requests[c].call = "connect" /\ requests[c].token = t =>
         t \in made

SpentStays ==
  \A c \in Clients, t \in Tokens :
    Spends(c, t, "spent") \/ Consumes(c, t) => ~Fresh(t) \/ Lost(t)

(* A used token is spent, and nobody inside its lock believes otherwise. *)
UsedIsSpent ==
  \A t \in Tokens : Used(t) /\ ~Lost(t) => ~Fresh(t) /\ \A c \in Clients : ~MayPass(c, t)

OneConsumer ==
  \A t \in Tokens : ~Lost(t) =>
    \A c, d \in Clients : Consumes(c, t) => exchanged[t] = 0 /\ (Consumes(d, t) => c = d)

TokenInv == ExchangedOnce /\ StatesMade /\ SpentStays /\ UsedIsSpent /\ OneConsumer

-----------------------------------------------------------------------------
(* Why a row says what was granted: links move one way, and a request that was answered
   still finds the link as its answer said. *)

Bound(link) == link.state \in {"confirmed", "revoked"}
Makes(c, call) == requests[c] # None /\ requests[c].call = call

RowsCarried ==
  \A c \in Clients : Makes(c, "confirm") \/ Makes(c, "revoke") =>
    requests[c].row # None /\ identities[requests[c].key] # None

AnswersHold ==
  \A c \in Clients :
    /\ At(c, "confirm", "answered") =>
         Known(c) /\ Bound(LinkOf(c)) /\ LinkOf(c).account = requests[c].subject
    /\ At(c, "revoke", "answered") => Known(c) /\ LinkOf(c).state = "revoked"

LinkInv == StatusWasGranted /\ RowsCarried /\ AnswersHold

IInv == TypeOK /\ TokenInv /\ LinkInv

-----------------------------------------------------------------------------
(* Why a ticket opens one session. *)

Redeems(c, b) == At(c, "consume", "consumed") /\ requests[c].ticket = b
MayRedeem(c, b) ==
  /\ At(c, "consume", "read") \/ At(c, "consume", "deleted")
  /\ requests[c].ticket = b /\ requests[c].held /\ ticketLock[b] = c

(* A ticket is made for one context, and only a ticket that was made is consumed. *)
MadeOnce ==
  /\ \A b \in cached : issued[b] # None
  /\ \A b \in Tickets : opened[b] # <<>> => issued[b] # None
  /\ \A c \in Clients : requests[c] # None =>
       /\ requests[c].call = "consume" => issued[requests[c].ticket] # None
       /\ requests[c].call = "ticket" =>
            /\ issued[requests[c].ticket] = None
            /\ \A d \in Clients : requests[d] # None /\ requests[d].call = "ticket"
                 /\ requests[d].ticket = requests[c].ticket => c = d

DeletedStays ==
  \A c \in Clients : At(c, "consume", "deleted") \/ At(c, "consume", "consumed") =>
    requests[c].ticket \notin cached

RedeemedIsDeleted ==
  \A b \in Tickets : opened[b] # <<>> \/ (\E c \in Clients : Redeems(c, b)) =>
    b \notin cached /\ \A c \in Clients : ~MayRedeem(c, b)

OneRedeemer ==
  \A b \in Tickets, c \in Clients : Redeems(c, b) =>
    opened[b] = <<>> /\ \A d \in Clients : Redeems(d, b) => c = d

TicketInv == UsedOnce /\ MadeOnce /\ DeletedStays /\ RedeemedIsDeleted /\ OneRedeemer

BrowserInv == IInv /\ TicketInv
-----------------------------------------------------------------------------
(* Lemmas *)

LEMMA NotNull ==
  /\ \A g \in Gateways : g # None
  /\ \A c \in Clients : c # None
  /\ \A x \in IdentityRow : x # None
  /\ \A x \in ConnectRequest : x # None
  /\ \A x \in LinkRequest : x # None
BY NoneAssumption

LEMMA ConnectFields ==
  ASSUME NEW r \in ConnectRequest
  PROVE  /\ r.call = "connect" /\ r.token \in Tokens /\ r.gateway \in Gateways \cup {None}
         /\ r.step \in {"begun", "locked", "read", "spent", "consumed", "verified"}
         /\ r.fresh \in BOOLEAN /\ r.revision \in Nat \cup {None}
         /\ r # None
BY NotNull DEF ConnectRequest

LEMMA LinkFields ==
  ASSUME NEW r \in LinkRequest
  PROVE  /\ r.call \in LinkCalls /\ r.key \in Keys /\ r.gateway \in Gateways /\ r.epoch \in Nat
         /\ r.step \in {"begun", "answered"}
         /\ r.row \in IdentityRow \cup {None} /\ r.subject \in Accounts \cup {None}
         /\ r # None
BY NotNull DEF LinkRequest

LEMMA RowFields ==
  ASSUME NEW row \in IdentityRow
  PROVE  /\ row.status \in Statuses /\ row.home \in Gateways
         /\ row.subject \in Accounts \cup {None} /\ row.epoch \in Nat
         /\ row.late \in BOOLEAN /\ row.revision \in Nat /\ row # None
BY NotNull DEF IdentityRow

(* A step changes the request of one client. *)
OnlyOf(c) ==
  /\ requests' = [d \in Clients |-> requests'[d]]
  /\ \A d \in Clients \ {c} : requests'[d] = requests[d]

LEMMA Returned ==
  ASSUME TypeOK, NEW c \in Clients, Return(c)
  PROVE  OnlyOf(c) /\ requests'[c] = None
BY DEF TypeOK, Return, OnlyOf

LEMMA Started ==
  ASSUME TypeOK, NEW c \in Clients, NEW r, Start(c, r)
  PROVE  OnlyOf(c) /\ requests'[c] = r /\ requests[c] = None
BY DEF TypeOK, Start, OnlyOf

LEMMA Advanced ==
  ASSUME TypeOK, NEW c \in Clients, NEW from, NEW to, At(c, "connect", from), Advance(c, to),
         to \in {"begun", "locked", "read", "spent", "consumed", "verified"}
  PROVE  /\ OnlyOf(c) /\ requests[c] \in ConnectRequest /\ requests'[c] \in ConnectRequest
         /\ requests'[c] = [requests[c] EXCEPT !.step = to]
         /\ requests'[c].step = to /\ requests'[c].token = requests[c].token
         /\ requests'[c].fresh = requests[c].fresh
<1>1. PICK r \in ConnectRequest : r = requests[c]
  BY DEF TypeOK, At
<1>2. requests'[c] = [r EXCEPT !.step = to] /\ OnlyOf(c)
  BY <1>1 DEF TypeOK, Advance, OnlyOf
<1>3. [r EXCEPT !.step = to] \in ConnectRequest
  BY <1>1 DEF ConnectRequest
<1> QED BY <1>1, <1>2, <1>3 DEF ConnectRequest

(* A step of SiteConnection leaves the requests of other modules alone, but may end them. *)
Moved ==
  \A d \in Clients : requests'[d] \in {requests[d], None} \cup ConnectRequest \cup LinkRequest

(* Requests that are typed one by one. *)
Typed(x) ==
  x = None \/ (/\ x.call = "connect" => x \in ConnectRequest
               /\ x.call \in LinkCalls => x \in LinkRequest)

LEMMA RequestsTyped ==
  ASSUME TypeOK, NEW c \in Clients, OnlyOf(c), Typed(requests'[c])
  PROVE  \A d \in Clients : requests'[d] # None =>
           /\ requests'[d].call = "connect" => requests'[d] \in ConnectRequest
           /\ requests'[d].call \in LinkCalls => requests'[d] \in LinkRequest
BY DEF TypeOK, OnlyOf, Typed

(* Steps that touch no token, lock or connecting request. *)
LEMMA TokensUntouched ==
  ASSUME IInv, UNCHANGED connection,
         \A d \in Clients : \/ requests'[d] = requests[d] \/ requests'[d] = None
                            \/ requests'[d].call # "connect"
  PROVE  TokenInv'
<1>1. \A d \in Clients : \A step : At(d, "connect", step)' =>
        At(d, "connect", step) /\ requests'[d] = requests[d]
  BY DEF At
<1>2. \A d \in Clients : \A t, step : Spends(d, t, step)' => Spends(d, t, step)
  BY <1>1 DEF Spends
<1>3. \A t : (Used(t)' => Used(t)) /\ (Lost(t)' <=> Lost(t)) /\ (Fresh(t)' <=> Fresh(t))
  BY <1>2 DEF Used, Consumes, Lost, Fresh, connection
<1>4. \A d \in Clients : \A t : MayPass(d, t)' => MayPass(d, t)
  BY <1>1, <1>2 DEF MayPass, connection, Spends
<1>5. ExchangedOnce' /\ StatesMade'
  BY DEF IInv, TokenInv, ExchangedOnce, StatesMade, connection
<1>6. SpentStays'
  BY <1>2, <1>3 DEF IInv, TokenInv, SpentStays, Consumes
<1>7. UsedIsSpent'
  BY <1>3, <1>4 DEF IInv, TokenInv, UsedIsSpent
<1>8. OneConsumer'
  BY <1>2, <1>3 DEF IInv, TokenInv, OneConsumer, Consumes, connection
<1> QED BY <1>5, <1>6, <1>7, <1>8 DEF TokenInv

(* Steps that touch no row or link, and begin at most a call for a row they have read. *)
LEMMA LinksUntouched ==
  ASSUME IInv, TypeOK', UNCHANGED channel,
         \A d \in Clients : \/ requests'[d] = requests[d] \/ requests'[d] = None
                            \/ requests'[d].call \notin {"confirm", "revoke"}
                            \/ /\ requests'[d].step = "begun" /\ requests'[d].row # None
                               /\ identities[requests'[d].key] # None
  PROVE  LinkInv'
<1>1. StatusWasGranted'
  BY DEF IInv, LinkInv, StatusWasGranted, channel
<1>2. RowsCarried'
  BY DEF IInv, LinkInv, RowsCarried, Makes, channel
<1>3. AnswersHold'
  <2>1. \A d \in Clients : At(d, "confirm", "answered")' \/ At(d, "revoke", "answered")' =>
          requests'[d] = requests[d]
    BY DEF At
  <2> QED BY <2>1 DEF IInv, LinkInv, AnswersHold, At, Known, LinkOf, Bound, channel
<1> QED BY <1>1, <1>2, <1>3 DEF LinkInv
-----------------------------------------------------------------------------
(* Steps of a connection keep the token invariants. *)

(* A step of one connecting request that is about to consume nothing and may not pass. *)
LEMMA TokensBeforeUse ==
  ASSUME IInv, NEW c \in Clients, OnlyOf(c), requests'[c] \in ConnectRequest,
         requests'[c].step \in {"begun", "locked", "verified"}
           \/ (requests'[c].step = "read" /\ requests'[c].fresh => Fresh(requests'[c].token)),
         requests'[c].step \notin {"spent", "consumed"},
         requests'[c].token \in States => requests'[c].token \in made,
         UNCHANGED <<made, cache, exchanged, forgotten>>,
         \A t \in Tokens : lock'[t] = lock[t] \/ lock'[t] = c
  PROVE  TokenInv'
<1>1. \A d \in Clients, t \in Tokens : Consumes(d, t)' => Consumes(d, t) /\ d # c
  BY DEF Consumes, Spends, At, OnlyOf
<1>2. \A d \in Clients, t \in Tokens : Spends(d, t, "spent")' => Spends(d, t, "spent")
  BY DEF Spends, At, OnlyOf
<1>3. \A t \in Tokens : (Used(t)' => Used(t)) /\ (Lost(t)' <=> Lost(t)) /\ (Fresh(t)' <=> Fresh(t))
  BY <1>1 DEF Used, Lost, Fresh
<1>4. ASSUME NEW d \in Clients, NEW t \in Tokens, MayPass(d, t)'
      PROVE  MayPass(d, t) \/ Fresh(t)
  <2>1. CASE d = c
    BY <1>4, <2>1 DEF MayPass, Spends, At
  <2>2. CASE d # c
    BY <1>4, <2>2, NotNull DEF MayPass, Spends, At, OnlyOf
  <2> QED BY <2>1, <2>2
<1>5. ExchangedOnce' /\ StatesMade'
  <2>1. ExchangedOnce'
    BY DEF IInv, TokenInv, ExchangedOnce
  <2>2. StatesMade'
    BY DEF IInv, TokenInv, StatesMade, OnlyOf, Tokens
  <2> QED BY <2>1, <2>2
<1>6. SpentStays'
  BY <1>1, <1>2, <1>3 DEF IInv, TokenInv, SpentStays
<1>7. UsedIsSpent'
  BY <1>3, <1>4 DEF IInv, TokenInv, UsedIsSpent
<1>8. OneConsumer'
  BY <1>1, <1>3 DEF IInv, TokenInv, OneConsumer
<1> QED BY <1>5, <1>6, <1>7, <1>8 DEF TokenInv

(* A connection's steps touch no link. *)
LEMMA ConnectionMoves ==
  ASSUME IInv, TypeOK', TokenInv', UNCHANGED channel, NEW c \in Clients, OnlyOf(c),
         requests'[c] = None \/ requests'[c] \in ConnectRequest
  PROVE  IInv' /\ Moved
<1>1. \A d \in Clients : \/ requests'[d] = requests[d] \/ requests'[d] = None
                         \/ requests'[d].call \notin {"confirm", "revoke"}
  BY ConnectFields DEF OnlyOf
<1> QED BY <1>1, LinksUntouched DEF IInv, OnlyOf, Moved

LEMMA ConnectKeeps ==
  ASSUME IInv, NEW c \in Clients, NEW t \in Tokens, Connect(c, t)
  PROVE  IInv' /\ Moved
<1>1. PICK r : r = [call |-> "connect", step |-> "begun", token |-> t, gateway |-> None,
                    fresh |-> FALSE, revision |-> IF t \in Nonces THEN trust.revision ELSE None]
  OBVIOUS
<1>2. trust.revision \in Nat
  BY DEF IInv, TypeOK
<1>3. r \in ConnectRequest
  BY <1>1, <1>2 DEF ConnectRequest
<1>4. OnlyOf(c) /\ requests'[c] = r
  BY <1>1, Started DEF Connect, IInv
<1>5. TypeOK'
  <2>1. Typed(r)
    BY <1>3, ConnectFields DEF Typed, LinkCalls
  <2>2. OnlyOf(c) /\ Typed(requests'[c])
    BY <1>4, <2>1
  <2> QED BY <2>2, RequestsTyped DEF Connect, connection, channel, IInv, TypeOK, OnlyOf
<1>6. t \in States => t \in made
  BY DEF Connect, Fresh, IInv, TokenInv, StatesMade
<1>7. TokenInv'
  <2>1. r.step = "begun" /\ r.token = t
    BY <1>1
  <2> QED BY <1>3, <1>4, <1>6, <2>1, TokensBeforeUse DEF Connect, connection
<1> QED BY <1>3, <1>4, <1>5, <1>7, ConnectionMoves DEF Connect

(* What the other variables of an advancing request need. *)
LEMMA TypedAfter ==
  ASSUME IInv, NEW c \in Clients, OnlyOf(c), requests'[c] = None \/ requests'[c] \in ConnectRequest,
         trust' \in [gateway : Gateways \cup {None}, revision : Nat],
         cache' \subseteq Tokens, lock' \in [Tokens -> Clients \cup {None}],
         exchanged' \in [Tokens -> Nat],
         UNCHANGED <<made, forgotten, channel, epoch, lapses>>
  PROVE  TypeOK'
<1>1. Typed(requests'[c])
  BY ConnectFields DEF Typed, LinkCalls
<1> QED BY <1>1, RequestsTyped DEF channel, IInv, TypeOK, OnlyOf

LEMMA TakeLockKeeps ==
  ASSUME IInv, NEW c \in Clients, TakeLock(c)
  PROVE  IInv' /\ Moved
<1>1. /\ OnlyOf(c) /\ requests[c] \in ConnectRequest /\ requests'[c] \in ConnectRequest
      /\ requests'[c].step = "locked" /\ requests'[c].token = requests[c].token
  BY Advanced DEF TakeLock, IInv
<1>2. requests[c].token \in Tokens /\ (requests[c].token \in States => requests[c].token \in made)
  BY <1>1, ConnectFields DEF IInv, TokenInv, StatesMade
<1>3. /\ \A t \in Tokens : lock'[t] = lock[t] \/ lock'[t] = c
      /\ lock' \in [Tokens -> Clients \cup {None}]
  BY DEF TakeLock, IInv, TypeOK
<1>4. TypeOK'
  BY <1>1, <1>3, TypedAfter DEF TakeLock, IInv, TypeOK
<1>5. TokenInv'
  BY <1>1, <1>2, <1>3, <1>4, TokensBeforeUse DEF TakeLock
<1> QED BY <1>1, <1>4, <1>5, ConnectionMoves DEF TakeLock

LEMMA ReadTokenKeeps ==
  ASSUME IInv, NEW c \in Clients, ReadToken(c)
  PROVE  IInv' /\ Moved
<1>1. PICK r \in ConnectRequest : r = requests[c]
  BY DEF IInv, TypeOK, ReadToken, At
<1>2. PICK f \in BOOLEAN : f = Fresh(r.token)
  BY DEF Fresh
<1>3. OnlyOf(c) /\ requests'[c] = [r EXCEPT !.step = "read", !.fresh = f]
  BY <1>1, <1>2 DEF IInv, TypeOK, ReadToken, OnlyOf
<1>4. [r EXCEPT !.step = "read", !.fresh = f] \in ConnectRequest
  BY DEF ConnectRequest
<1>5. /\ requests'[c] \in ConnectRequest /\ requests'[c].step = "read"
      /\ requests'[c].token = r.token /\ requests'[c].fresh = f
  BY <1>3, <1>4 DEF ConnectRequest
<1>6. r.token \in Tokens /\ (r.token \in States => r.token \in made)
  BY <1>1, ConnectFields DEF IInv, TokenInv, StatesMade
<1>7. TypeOK'
  BY <1>3, <1>5, TypedAfter DEF ReadToken, connection, IInv, TypeOK
<1>8. requests'[c].fresh => Fresh(requests'[c].token)
  BY <1>2, <1>5
<1>9. TokenInv'
  BY <1>3, <1>5, <1>6, <1>7, <1>8, TokensBeforeUse DEF ReadToken, connection
<1> QED BY <1>3, <1>5, <1>7, <1>9, ConnectionMoves DEF ReadToken

LEMMA SpendTokenKeeps ==
  ASSUME IInv, NEW c \in Clients, SpendToken(c)
  PROVE  IInv' /\ Moved
<1>1. /\ OnlyOf(c) /\ requests[c] \in ConnectRequest /\ requests'[c] \in ConnectRequest
      /\ requests'[c].step = "spent" /\ requests'[c].token = requests[c].token
      /\ requests'[c].fresh = requests[c].fresh
  BY Advanced DEF SpendToken, IInv
<1>2. PICK t \in Tokens : t = requests[c].token
  BY <1>1, ConnectFields
<1>3. cache' = IF t \in States THEN cache \ {t} ELSE cache \cup {t}
  BY <1>2 DEF SpendToken
<1>4. TypeOK'
  BY <1>1, <1>3, TypedAfter DEF SpendToken, IInv, TypeOK
<1>5. /\ \A u \in Tokens : (Fresh(u)' => Fresh(u)) /\ (Lost(u)' <=> Lost(u))
      /\ ~Fresh(t)'
  BY <1>3 DEF Fresh, Lost, SpendToken, Tokens
<1>6. \A d \in Clients, u \in Tokens : Consumes(d, u)' <=> Consumes(d, u)
  BY <1>1, ConnectFields DEF Consumes, Spends, At, OnlyOf, SpendToken
<1>7. \A d \in Clients, u \in Tokens : MayPass(d, u)' => MayPass(d, u)
  BY <1>1, ConnectFields DEF MayPass, Spends, At, OnlyOf, SpendToken
<1>8. \A u \in Tokens : Used(u)' <=> Used(u)
  BY <1>6 DEF Used, SpendToken
<1>9. ExchangedOnce' /\ OneConsumer'
  <2>1. ExchangedOnce'
    BY DEF IInv, TokenInv, ExchangedOnce, SpendToken
  <2>2. OneConsumer'
    BY <1>5, <1>6 DEF IInv, TokenInv, OneConsumer, SpendToken
  <2> QED BY <2>1, <2>2
<1>10. StatesMade'
  <2>1. \A u \in States : u \in cache' => u \in cache
    BY <1>3
  <2> QED BY <1>1, <2>1, ConnectFields DEF IInv, TokenInv, StatesMade, SpendToken, OnlyOf
<1>11. SpentStays'
  <2> SUFFICES ASSUME NEW d \in Clients, NEW u \in Tokens, Spends(d, u, "spent")' \/ Consumes(d, u)'
               PROVE  ~Fresh(u)' \/ Lost(u)'
    BY DEF SpentStays
  <2>1. CASE d = c
    BY <1>1, <1>2, <1>5, <2>1 DEF Spends, Consumes
  <2>2. CASE d # c
    <3>1. Spends(d, u, "spent") \/ Consumes(d, u)
      BY <1>1, <2>2 DEF Spends, Consumes, At, OnlyOf
    <3> QED BY <3>1, <1>5 DEF IInv, TokenInv, SpentStays
  <2> QED BY <2>1, <2>2
<1>12. UsedIsSpent'
  BY <1>5, <1>7, <1>8 DEF IInv, TokenInv, UsedIsSpent
<1>13. TokenInv'
  BY <1>9, <1>10, <1>11, <1>12 DEF TokenInv
<1> QED BY <1>1, <1>4, <1>13, ConnectionMoves DEF SpendToken

(* Steps that leave every token as fresh, lost and exchanged as it was, and only end
   requests or leave them as they were. *)
LEMMA TokensGivenUp ==
  ASSUME IInv, UNCHANGED <<made, cache, exchanged, forgotten>>,
         \A d \in Clients : requests'[d] = requests[d] \/ requests'[d] = None,
         \A t \in Tokens : lock'[t] = lock[t] \/ lock'[t] = None
  PROVE  TokenInv'
<1>1. \A d \in Clients : \A t, step : Spends(d, t, step)' => Spends(d, t, step)
  BY DEF Spends, At
<1>2. \A d \in Clients, t \in Tokens : MayPass(d, t)' => MayPass(d, t)
  BY NotNull DEF MayPass, Spends, At
<1>3. \A t : (Used(t)' => Used(t)) /\ (Lost(t)' <=> Lost(t)) /\ (Fresh(t)' <=> Fresh(t))
  BY <1>1 DEF Used, Consumes, Lost, Fresh
<1>4. ExchangedOnce' /\ StatesMade'
  BY DEF IInv, TokenInv, ExchangedOnce, StatesMade
<1>5. SpentStays'
  BY <1>1, <1>3 DEF IInv, TokenInv, SpentStays, Consumes
<1>6. UsedIsSpent'
  BY <1>2, <1>3 DEF IInv, TokenInv, UsedIsSpent
<1>7. OneConsumer'
  BY <1>1, <1>3 DEF IInv, TokenInv, OneConsumer, Consumes
<1> QED BY <1>4, <1>5, <1>6, <1>7 DEF TokenInv

LEMMA LeaveLockKeeps ==
  ASSUME IInv, NEW c \in Clients, LeaveLock(c)
  PROVE  IInv' /\ Moved
<1>1. PICK r \in ConnectRequest : r = requests[c]
  BY DEF IInv, TypeOK, LeaveLock, At
<1>2. PICK t \in Tokens : t = r.token
  BY ConnectFields
<1>3. /\ lock' = IF lock[t] = c THEN [lock EXCEPT ![t] = None] ELSE lock
      /\ r.step = "spent"
      /\ UNCHANGED <<made, trust, cache, exchanged, forgotten, channel, epoch, lapses>>
  BY <1>1, <1>2 DEF LeaveLock, At
<1>4. /\ \A u \in Tokens : lock'[u] = lock[u] \/ lock'[u] = None
      /\ lock' \in [Tokens -> Clients \cup {None}]
  BY <1>3 DEF IInv, TypeOK
<1>5. CASE Return(c)
  <2>1. OnlyOf(c) /\ requests'[c] = None
    BY <1>5, Returned DEF IInv
  <2>2. TypeOK'
    BY <1>3, <1>4, <2>1, TypedAfter DEF IInv, TypeOK
  <2>3. \A d \in Clients : requests'[d] = requests[d] \/ requests'[d] = None
    BY <2>1 DEF OnlyOf
  <2>4. TokenInv'
    BY <1>3, <1>4, <2>3, TokensGivenUp
  <2> QED BY <1>3, <2>1, <2>2, <2>4, ConnectionMoves
<1>6. CASE StillHeld(c) /\ requests[c].fresh /\ Advance(c, "consumed")
  <2>1. /\ OnlyOf(c) /\ requests'[c] \in ConnectRequest
        /\ requests'[c].step = "consumed" /\ requests'[c].token = t
    BY <1>1, <1>2, <1>6, Advanced DEF LeaveLock, IInv
  <2>2. MayPass(c, t) /\ Spends(c, t, "spent") /\ lock[t] = c
    BY <1>1, <1>2, <1>3, <1>6, ConnectFields DEF MayPass, Spends, At, StillHeld
  <2>3. ~Used(t) \/ Lost(t)
    BY <2>2 DEF IInv, TokenInv, UsedIsSpent
  <2>4. lock'[t] = None
    BY <1>3, <2>2 DEF IInv, TypeOK
  <2>5. \A u \in Tokens : (Fresh(u)' <=> Fresh(u)) /\ (Lost(u)' <=> Lost(u))
    BY <1>3 DEF Fresh, Lost
  <2>6. \A d \in Clients, u \in Tokens :
          Consumes(d, u)' <=> (Consumes(d, u) \/ (d = c /\ u = t))
    BY <1>1, <1>3, <2>1, ConnectFields DEF Consumes, Spends, At, OnlyOf
  <2>7. \A d \in Clients, u \in Tokens : MayPass(d, u)' => MayPass(d, u) /\ u # t
    BY <1>3, <1>4, <2>1, <2>4, NotNull, ConnectFields DEF MayPass, Spends, At, OnlyOf
  <2>8. \A u \in Tokens : Used(u)' => Used(u) \/ u = t
    BY <1>3, <2>6 DEF Used
  <2>9. TypeOK'
    BY <1>3, <1>4, <2>1, TypedAfter DEF IInv, TypeOK
  <2>10. ExchangedOnce'
    BY <1>3 DEF IInv, TokenInv, ExchangedOnce
  <2>11. StatesMade'
    BY <1>1, <1>2, <1>3, <2>1, ConnectFields DEF IInv, TokenInv, StatesMade, OnlyOf
  <2>12. SpentStays'
    <3>1. \A d \in Clients, u \in Tokens :
            Spends(d, u, "spent")' => Spends(d, u, "spent")
      BY <2>1 DEF Spends, At, OnlyOf
    <3> QED BY <2>2, <2>5, <2>6, <3>1 DEF IInv, TokenInv, SpentStays
  <2>13. UsedIsSpent'
    <3> SUFFICES ASSUME NEW u \in Tokens, Used(u)', ~Lost(u)'
                 PROVE  ~Fresh(u)' /\ \A d \in Clients : ~MayPass(d, u)'
      BY DEF UsedIsSpent
    <3>1. CASE u = t
      BY <2>2, <2>5, <2>7, <3>1 DEF IInv, TokenInv, SpentStays
    <3>2. CASE u # t
      BY <2>5, <2>7, <2>8, <3>2 DEF IInv, TokenInv, UsedIsSpent
    <3> QED BY <3>1, <3>2
  <2>14. OneConsumer'
    <3> SUFFICES ASSUME NEW u \in Tokens, ~Lost(u)', NEW d \in Clients, NEW e \in Clients,
                        Consumes(d, u)'
                 PROVE  exchanged'[u] = 0 /\ (Consumes(e, u)' => d = e)
      BY DEF OneConsumer
    <3>1. CASE u = t
      BY <1>3, <2>3, <2>5, <2>6, <3>1 DEF Used
    <3>2. CASE u # t
      BY <1>3, <2>5, <2>6, <3>2 DEF IInv, TokenInv, OneConsumer
    <3> QED BY <3>1, <3>2
  <2>15. TokenInv'
    BY <2>10, <2>11, <2>12, <2>13, <2>14 DEF TokenInv
  <2> QED BY <1>3, <2>1, <2>9, <2>15, ConnectionMoves
<1> QED BY <1>5, <1>6 DEF LeaveLock

LEMMA ExchangeKeeps ==
  ASSUME IInv, NEW c \in Clients, NEW g \in Gateways, Exchange(c, g)
  PROVE  IInv' /\ Moved
<1>1. PICK r \in ConnectRequest : r = requests[c]
  BY DEF IInv, TypeOK, Exchange, At
<1>2. PICK t \in Tokens : t = r.token
  BY ConnectFields
<1>3. /\ exchanged' = [exchanged EXCEPT ![t] = @ + 1] /\ r.step = "consumed"
      /\ UNCHANGED <<made, trust, cache, lock, forgotten, channel, epoch, lapses>>
  BY <1>1, <1>2 DEF Exchange, At
<1>4. /\ OnlyOf(c)
      /\ requests'[c] = None \/ (/\ requests'[c] \in ConnectRequest
                                 /\ requests'[c].step = "verified" /\ requests'[c].token = t)
  <2>1. CASE Return(c)
    BY <2>1, Returned DEF IInv
  <2>2. CASE requests' = [requests EXCEPT ![c].step = "verified", ![c].gateway = g]
    <3>1. OnlyOf(c) /\ requests'[c] = [r EXCEPT !.step = "verified", !.gateway = g]
      BY <1>1, <2>2 DEF OnlyOf, IInv, TypeOK
    <3>2. [r EXCEPT !.step = "verified", !.gateway = g] \in ConnectRequest
      BY DEF ConnectRequest
    <3> QED BY <1>2, <3>1, <3>2 DEF ConnectRequest
  <2> QED BY <2>1, <2>2 DEF Exchange
<1>5. exchanged' \in [Tokens -> Nat] /\ exchanged'[t] = exchanged[t] + 1
      /\ \A u \in Tokens \ {t} : exchanged'[u] = exchanged[u]
  BY <1>3 DEF IInv, TypeOK
<1>6. TypeOK'
  BY <1>3, <1>4, <1>5, TypedAfter DEF IInv, TypeOK
<1>7. Consumes(c, t)
  BY <1>1, <1>2, <1>3, ConnectFields DEF Consumes, Spends, At
<1>8. Lost(t) \/ (exchanged[t] = 0 /\ \A d \in Clients : Consumes(d, t) => d = c)
  BY <1>7 DEF IInv, TokenInv, OneConsumer
<1>9. \A u \in Tokens : (Fresh(u)' <=> Fresh(u)) /\ (Lost(u)' <=> Lost(u))
  BY <1>3 DEF Fresh, Lost
<1>10. \A d \in Clients, u \in Tokens : Consumes(d, u)' => Consumes(d, u) /\ d # c
  BY <1>4 DEF Consumes, Spends, At, OnlyOf
<1>11. \A d \in Clients, u \in Tokens : MayPass(d, u)' => MayPass(d, u)
  BY <1>3, <1>4 DEF MayPass, Spends, At, OnlyOf
<1>12. Used(t) /\ \A u \in Tokens : Used(u)' => Used(u)
  BY <1>5, <1>7, <1>10 DEF Used
<1>13. ExchangedOnce'
  <2>1. \A u \in Tokens : exchanged[u] \in Nat
    BY DEF IInv, TypeOK
  <2> QED BY <1>3, <1>5, <1>8, <2>1 DEF IInv, TokenInv, ExchangedOnce, Lost
<1>14. StatesMade'
  <2>1. t \in States => t \in made
    BY <1>1, <1>2, ConnectFields DEF IInv, TokenInv, StatesMade
  <2> QED BY <1>3, <1>4, <1>5, <2>1 DEF IInv, TokenInv, StatesMade, OnlyOf, Tokens
<1>15. SpentStays'
  <2>1. \A d \in Clients, u \in Tokens : Spends(d, u, "spent")' => Spends(d, u, "spent")
    BY <1>4 DEF Spends, At, OnlyOf
  <2> QED BY <1>9, <1>10, <2>1 DEF IInv, TokenInv, SpentStays
<1>16. UsedIsSpent'
  BY <1>9, <1>11, <1>12 DEF IInv, TokenInv, UsedIsSpent
<1>17. OneConsumer'
  BY <1>5, <1>8, <1>9, <1>10 DEF IInv, TokenInv, OneConsumer
<1>18. TokenInv'
  BY <1>13, <1>14, <1>15, <1>16, <1>17 DEF TokenInv
<1> QED BY <1>3, <1>4, <1>6, <1>18, ConnectionMoves

LEMMA PersistTrustKeeps ==
  ASSUME IInv, NEW c \in Clients, PersistTrust(c)
  PROVE  IInv' /\ Moved
<1>1. requests[c] \in ConnectRequest
  BY DEF IInv, TypeOK, PersistTrust, At
<1>2. trust' \in [gateway : Gateways \cup {None}, revision : Nat]
  <2>1. requests[c].gateway \in Gateways \cup {None}
    BY <1>1, ConnectFields
  <2>2. trust.revision + 1 \in Nat
    BY DEF IInv, TypeOK
  <2> QED BY <2>1, <2>2 DEF PersistTrust
<1>3. OnlyOf(c) /\ requests'[c] = None
  BY Returned DEF PersistTrust, IInv
<1>4. TypeOK'
  BY <1>2, <1>3, TypedAfter DEF PersistTrust, IInv, TypeOK
<1>5. TokenInv'
  BY <1>3, TokensGivenUp DEF PersistTrust, OnlyOf
<1> QED BY <1>3, <1>4, <1>5, ConnectionMoves DEF PersistTrust

(* Steps of the cache itself: requests stay as they are. *)
LEMMA BeginConnectionKeeps ==
  ASSUME IInv, NEW s \in States, BeginConnection(s)
  PROVE  TypeOK' /\ TokenInv'
<1>1. /\ s \notin made /\ made' = made \cup {s} /\ cache' = cache \cup {s}
      /\ UNCHANGED <<lock, exchanged, forgotten, requests>>
  BY DEF BeginConnection
<1>2. TypeOK'
  BY DEF BeginConnection, channel, IInv, TypeOK, Tokens
<1>3. \A t \in Tokens : /\ Lost(t)' <=> Lost(t)
                        /\ t # s => (Fresh(t)' <=> Fresh(t))
                        /\ Used(t)' <=> Used(t)
  BY <1>1 DEF Lost, Fresh, Used, Consumes, Spends, At
<1>4. \A c \in Clients, t \in Tokens :
        /\ MayPass(c, t)' <=> MayPass(c, t)
        /\ Consumes(c, t)' <=> Consumes(c, t)
        /\ Spends(c, t, "spent")' <=> Spends(c, t, "spent")
  BY <1>1 DEF MayPass, Consumes, Spends, At
<1>5. ~Used(s) /\ \A c \in Clients : ~Spends(c, s, "spent") /\ ~Consumes(c, s)
  BY <1>1 DEF IInv, TokenInv, StatesMade, Used, Consumes, Spends, At
<1>6. ExchangedOnce' /\ StatesMade'
  BY <1>1 DEF IInv, TokenInv, ExchangedOnce, StatesMade
<1>7. SpentStays'
  BY <1>3, <1>4, <1>5 DEF IInv, TokenInv, SpentStays
<1>8. UsedIsSpent'
  BY <1>3, <1>4, <1>5 DEF IInv, TokenInv, UsedIsSpent
<1>9. OneConsumer'
  BY <1>1, <1>3, <1>4 DEF IInv, TokenInv, OneConsumer
<1> QED BY <1>2, <1>6, <1>7, <1>8, <1>9 DEF TokenInv

LEMMA LapseLockKeeps ==
  ASSUME IInv, NEW t \in Tokens, LapseLock(t)
  PROVE  TypeOK' /\ TokenInv'
<1>1. /\ \A u \in Tokens : lock'[u] = lock[u] \/ lock'[u] = None
      /\ lock' \in [Tokens -> Clients \cup {None}]
  BY DEF LapseLock, IInv, TypeOK
<1>2. TypeOK'
  BY <1>1 DEF LapseLock, Lapse, IInv, TypeOK
<1> QED BY <1>1, <1>2, TokensGivenUp DEF LapseLock, Lapse

LEMMA ForgetKeeps ==
  ASSUME IInv, NEW t \in Tokens, Forget(t)
  PROVE  TypeOK' /\ TokenInv'
<1>1. /\ t \in cache /\ cache' = cache \ {t} /\ forgotten' = forgotten \cup {t}
      /\ UNCHANGED <<made, lock, exchanged, requests>>
  BY DEF Forget, Lapse
<1>2. TypeOK'
  BY DEF Forget, Lapse, IInv, TypeOK
<1>3. \A u \in Tokens : /\ Lost(u) => Lost(u)'
                        /\ ~Lost(u)' => (Fresh(u)' => Fresh(u))
                        /\ Used(u)' <=> Used(u)
  BY <1>1 DEF Lost, Fresh, Used, Consumes, Spends, At, Tokens
<1>4. \A c \in Clients, u \in Tokens :
        /\ MayPass(c, u)' <=> MayPass(c, u)
        /\ Consumes(c, u)' <=> Consumes(c, u)
        /\ Spends(c, u, "spent")' <=> Spends(c, u, "spent")
  BY <1>1 DEF MayPass, Consumes, Spends, At
<1>5. ExchangedOnce' /\ StatesMade'
  BY <1>1 DEF IInv, TokenInv, ExchangedOnce, StatesMade
<1>6. SpentStays'
  BY <1>3, <1>4 DEF IInv, TokenInv, SpentStays
<1>7. UsedIsSpent'
  BY <1>3, <1>4 DEF IInv, TokenInv, UsedIsSpent
<1>8. OneConsumer'
  BY <1>1, <1>3, <1>4 DEF IInv, TokenInv, OneConsumer
<1> QED BY <1>2, <1>5, <1>6, <1>7, <1>8 DEF TokenInv

-----------------------------------------------------------------------------
(* Steps of the links keep the link invariants. *)

LEMMA TypedLinks ==
  ASSUME IInv, NEW c \in Clients, OnlyOf(c), requests'[c] = None \/ requests'[c] \in LinkRequest,
         UNCHANGED connection, identities' \in [Keys -> IdentityRow \cup {None}],
         links' \in [Gateways -> [Keys -> Link]], UNCHANGED <<epoch, lapses>>
  PROVE  TypeOK' /\ TokenInv' /\ Moved
<1>1. Typed(requests'[c])
  BY LinkFields DEF Typed, LinkCalls
<1>2. TypeOK'
  BY <1>1, RequestsTyped DEF connection, IInv, TypeOK, OnlyOf
<1>3. \A d \in Clients : \/ requests'[d] = requests[d] \/ requests'[d] = None
                         \/ requests'[d].call # "connect"
  BY LinkFields DEF OnlyOf, LinkCalls
<1> QED BY <1>2, <1>3, TokensUntouched DEF Moved, OnlyOf

LEMMA CallingKeeps ==
  ASSUME IInv, NEW c \in Clients, NEW k \in Keys, NEW call \in LinkCalls, Calling(c, call, k),
         call # "issue" => identities[k] # None
  PROVE  IInv' /\ Moved
<1>1. PICK r : r = [call |-> call, step |-> "begun", key |-> k, gateway |-> trust.gateway,
                    epoch |-> epoch, row |-> identities[k], subject |-> None]
  OBVIOUS
<1>2. trust.gateway \in Gateways /\ epoch \in Nat /\ identities[k] \in IdentityRow \cup {None}
  BY DEF IInv, TypeOK, Calling
<1>3. r \in LinkRequest
  BY <1>1, <1>2 DEF LinkRequest
<1>4. OnlyOf(c) /\ requests'[c] = r
  BY <1>1, Started DEF Calling, IInv
<1>5. TypeOK' /\ TokenInv' /\ Moved
  BY <1>3, <1>4, TypedLinks DEF Calling, channel, IInv, TypeOK
<1>6. r.call = call /\ r.step = "begun" /\ r.row = identities[k] /\ r.key = k
  BY <1>1
<1>7. LinkInv'
  BY <1>4, <1>5, <1>6, LinksUntouched DEF Calling, OnlyOf, LinkCalls
<1> QED BY <1>5, <1>7 DEF IInv

(* A link that is bound stays so, with its account, and a dead one stays dead. *)
Later(old, new) ==
  /\ Bound(old) => Bound(new) /\ new.account = old.account
  /\ old.state = "revoked" => new.state = "revoked"

LEMMA PostKeeps ==
  ASSUME IInv, NEW c \in Clients, NEW account \in Accounts, Post(c, account)
  PROVE  IInv' /\ Moved
<1>1. PICK r \in LinkRequest : r = requests[c]
  BY DEF IInv, TypeOK, Post, At
<1>2. PICK g \in Gateways, k \in Keys : g = r.gateway /\ k = r.key
  BY LinkFields
<1>3. PICK old \in Link : old = links[g][k]
  BY DEF IInv, TypeOK
<1>4. PICK new : new = Changed(c, r.call, account)
  OBVIOUS
<1>5. LinkOf(c) = old /\ r.call \in LinkCalls /\ r.step = "begun"
  BY <1>1, <1>2, <1>3, LinkFields DEF LinkOf, Post, At
<1>6. new = CASE r.call = "issue" /\ old.state = "none" -> [old EXCEPT !.state = "issued"]
              [] r.call = "confirm" /\ Known(c) /\ old.state = "issued" ->
                   [state |-> "confirmed", account |-> account]
              [] r.call = "revoke" /\ Known(c) -> [old EXCEPT !.state = "revoked"]
              [] OTHER -> old
  BY <1>4, <1>5 DEF Changed
<1>7. new \in Link /\ Later(old, new)
  BY <1>6 DEF Link, LinkStates, Later, Bound
<1>8. /\ r.call = "confirm" => Known(c) /\ new.state = "confirmed"
      /\ r.call = "revoke" => Known(c) /\ new.state = "revoked"
  BY <1>1, <1>5, <1>6 DEF Post, Proceeds, Answers, Link, LinkStates
<1>9. /\ links' = [links EXCEPT ![g][k] = new]
      /\ UNCHANGED <<connection, identities, epoch, lapses>>
  BY <1>1, <1>2, <1>4 DEF Post
<1>10. /\ links' \in [Gateways -> [Keys -> Link]] /\ links'[g][k] = new
       /\ \A h \in Gateways, j \in Keys : Later(links[h][j], links'[h][j])
  BY <1>3, <1>7, <1>9 DEF IInv, TypeOK, Later, Bound
<1>11. PICK subject \in Accounts \cup {None} : subject = new.account
  BY <1>7 DEF Link
<1>12. OnlyOf(c) /\ requests'[c] = [r EXCEPT !.step = "answered", !.subject = subject]
  BY <1>1, <1>2, <1>10, <1>11 DEF Post, OnlyOf, IInv, TypeOK
<1>13. [r EXCEPT !.step = "answered", !.subject = subject] \in LinkRequest
  BY DEF LinkRequest
<1>14. /\ requests'[c] \in LinkRequest /\ requests'[c].call = r.call /\ requests'[c].row = r.row
       /\ requests'[c].gateway = g /\ requests'[c].key = k /\ requests'[c].subject = new.account
  BY <1>2, <1>11, <1>12, <1>13 DEF LinkRequest
<1>15. TypeOK' /\ TokenInv' /\ Moved
  BY <1>9, <1>10, <1>12, <1>14, TypedLinks DEF IInv, TypeOK
<1>16. StatusWasGranted'
  <2> SUFFICES ASSUME NEW j \in Keys, identities[j] # None
               PROVE  LET row == identities[j]  link == links'[row.home][j] IN
                      /\ row.status = "Verified" => /\ link.state \in {"confirmed", "revoked"}
                                                    /\ link.account = row.subject
                      /\ row.status = "Revoked" => link.state = "revoked"
    BY <1>9, <1>15 DEF StatusWasGranted
  <2>1. identities[j].home \in Gateways
    BY RowFields DEF IInv, TypeOK
  <2> QED BY <1>10, <2>1 DEF IInv, LinkInv, StatusWasGranted, Later, Bound
<1>17. RowsCarried'
  <2>1. r.call \in {"confirm", "revoke"} => r.row # None /\ identities[k] # None
    BY <1>1, <1>2, LinkFields DEF IInv, LinkInv, RowsCarried, Makes
  <2>2. ASSUME NEW d \in Clients, (Makes(d, "confirm") \/ Makes(d, "revoke"))'
        PROVE  requests'[d].row # None /\ identities'[requests'[d].key] # None
    <3>1. CASE d = c
      BY <1>9, <1>14, <2>1, <2>2, <3>1 DEF Makes
    <3>2. CASE d # c
      BY <1>9, <1>12, <2>2, <3>2 DEF IInv, LinkInv, RowsCarried, Makes, OnlyOf
    <3> QED BY <3>1, <3>2
  <2> QED BY <2>2 DEF RowsCarried
<1>18. AnswersHold'
  <2> SUFFICES ASSUME NEW d \in Clients
               PROVE  /\ At(d, "confirm", "answered")' =>
                           Known(d)' /\ Bound(LinkOf(d))' /\ (LinkOf(d).account = requests[d].subject)'
                      /\ At(d, "revoke", "answered")' => Known(d)' /\ (LinkOf(d).state = "revoked")'
    BY DEF AnswersHold
  <2>1. CASE d = c
    <3>1. LinkOf(d)' = new /\ (Known(d)' <=> Known(c))
      BY <1>1, <1>2, <1>10, <1>14, <2>1 DEF LinkOf, Known
    <3>2. r.call = "confirm" => Bound(new)
      BY <1>8 DEF Bound
    <3> QED BY <1>8, <1>14, <2>1, <3>1, <3>2 DEF At, Bound
  <2>2. CASE d # c
    <3>1. requests'[d] = requests[d]
      BY <1>12, <2>2 DEF OnlyOf
    <3>2. ASSUME NEW e \in LinkRequest, e = requests[d]
          PROVE  Later(LinkOf(d), LinkOf(d)')
      BY <1>10, <3>1, <3>2, LinkFields DEF LinkOf
    <3>3. At(d, "confirm", "answered") \/ At(d, "revoke", "answered") =>
            Later(LinkOf(d), LinkOf(d)')
      BY <3>2 DEF At, IInv, TypeOK, LinkCalls
    <3> QED BY <3>1, <3>3 DEF IInv, LinkInv, AnswersHold, At, Later, Bound, Known
  <2> QED BY <2>1, <2>2
<1> QED BY <1>15, <1>16, <1>17, <1>18 DEF IInv, LinkInv

(* What a row says, said of the row alone. *)
Granted(row, k) ==
  LET link == links[row.home][k] IN
  /\ row.status = "Verified" => Bound(link) /\ link.account = row.subject
  /\ row.status = "Revoked" => link.state = "revoked"

LEMMA RowsChange ==
  ASSUME IInv, TypeOK', UNCHANGED links,
         \A d \in Clients : requests'[d] = requests[d] \/ requests'[d] = None,
         \A k \in Keys : identities'[k] # identities[k] =>
           identities'[k] # None /\ Granted(identities'[k], k)
  PROVE  LinkInv'
<1>1. \A k \in Keys : identities[k] # None => Granted(identities[k], k)
  BY DEF IInv, LinkInv, StatusWasGranted, Granted, Bound
<1>2. StatusWasGranted'
  BY <1>1 DEF StatusWasGranted, Granted, Bound
<1>3. RowsCarried'
  <2> SUFFICES ASSUME NEW d \in Clients, (Makes(d, "confirm") \/ Makes(d, "revoke"))'
               PROVE  requests'[d].row # None /\ identities'[requests'[d].key] # None
    BY DEF RowsCarried
  <2>1. requests'[d] = requests[d] /\ requests[d] \in LinkRequest
    BY DEF IInv, TypeOK, Makes, LinkCalls
  <2> QED BY <2>1, LinkFields DEF IInv, LinkInv, RowsCarried, Makes
<1>4. AnswersHold'
  BY DEF IInv, LinkInv, AnswersHold, At, Known, LinkOf
<1> QED BY <1>2, <1>3, <1>4 DEF LinkInv

LEMMA SaveKeeps ==
  ASSUME IInv, NEW c \in Clients, NEW row \in IdentityRow, requests[c] \in LinkRequest,
         Save(c, row), Granted(row, requests[c].key)
  PROVE  IInv' /\ Moved
<1>1. PICK k \in Keys : k = requests[c].key
  BY LinkFields
<1>2. OnlyOf(c) /\ requests'[c] = None
  BY Returned DEF Save, IInv
<1>3. /\ identities' = [identities EXCEPT ![k] = row]
      /\ UNCHANGED <<connection, links, epoch, lapses>>
  BY <1>1 DEF Save
<1>4. /\ identities' \in [Keys -> IdentityRow \cup {None}]
      /\ \A j \in Keys : identities'[j] # identities[j] => j = k /\ identities'[j] = row
  BY <1>3 DEF IInv, TypeOK
<1>5. TypeOK' /\ TokenInv' /\ Moved
  BY <1>2, <1>3, <1>4, TypedLinks DEF IInv, TypeOK
<1>6. LinkInv'
  <2>1. \A d \in Clients : requests'[d] = requests[d] \/ requests'[d] = None
    BY <1>2 DEF OnlyOf
  <2>2. row # None
    BY RowFields
  <2> QED BY <1>1, <1>3, <1>4, <1>5, <2>1, <2>2, RowsChange
<1> QED BY <1>5, <1>6 DEF IInv

LEMMA InsertIdentityKeeps ==
  ASSUME IInv, NEW c \in Clients, InsertIdentity(c)
  PROVE  IInv' /\ Moved
<1>1. requests[c] \in LinkRequest
  BY DEF IInv, TypeOK, InsertIdentity, At, LinkCalls
<1>2. PICK row : row = [status |-> "Pending", home |-> requests[c].gateway, subject |-> None,
                        epoch |-> requests[c].epoch, late |-> FALSE, revision |-> 0]
  OBVIOUS
<1>3. row \in IdentityRow /\ row.status = "Pending"
  BY <1>1, <1>2, LinkFields DEF IdentityRow, Statuses
<1>4. Granted(row, requests[c].key)
  BY <1>3 DEF Granted
<1> QED BY <1>1, <1>2, <1>3, <1>4, SaveKeeps DEF InsertIdentity

LEMMA SaveConfirmedKeeps ==
  ASSUME IInv, NEW c \in Clients, SaveConfirmed(c)
  PROVE  IInv' /\ Moved
<1>1. PICK r \in LinkRequest : r = requests[c]
  BY DEF IInv, TypeOK, SaveConfirmed, At, LinkCalls
<1>2. r.call = "confirm" /\ r.row # None /\ r.row.home = r.gateway
      /\ identities[r.key] # None
      /\ Bound(links[r.gateway][r.key]) /\ links[r.gateway][r.key].account = r.subject
  BY <1>1, LinkFields
     DEF SaveConfirmed, At, IInv, LinkInv, RowsCarried, AnswersHold, Makes, Known, LinkOf
<1>3. PICK old \in IdentityRow : old = r.row
  BY <1>2, LinkFields
<1>4. PICK late \in BOOLEAN : late = identities[r.key].late
  <2>1. r.key \in Keys /\ identities[r.key] \in IdentityRow \cup {None}
    BY LinkFields DEF IInv, TypeOK
  <2> QED BY <1>2, <2>1, RowFields
<1>a. PICK n \in Nat : n = old.revision + 1
  BY RowFields
<1>5. PICK row : row = [old EXCEPT !.status = "Verified", !.subject = r.subject,
                                   !.late = late, !.revision = n]
  OBVIOUS
<1>6. r.subject \in Accounts \cup {None}
  BY LinkFields
<1>7. row \in IdentityRow
  BY <1>5, <1>6 DEF IdentityRow, Statuses
<1>8. row.status = "Verified" /\ row.home = r.gateway /\ row.subject = r.subject
  BY <1>2, <1>3, <1>5 DEF IdentityRow
<1>9. Granted(row, r.key)
  BY <1>2, <1>8 DEF Granted
<1>10. Save(c, row)
  BY <1>1, <1>3, <1>4, <1>a, <1>5 DEF SaveConfirmed
<1> QED BY <1>1, <1>7, <1>9, <1>10, SaveKeeps

LEMMA SaveRevokedKeeps ==
  ASSUME IInv, NEW c \in Clients, SaveRevoked(c)
  PROVE  IInv' /\ Moved
<1>1. PICK r \in LinkRequest : r = requests[c]
  BY DEF IInv, TypeOK, SaveRevoked, At, LinkCalls
<1>2. r.call = "revoke" /\ r.row # None /\ r.row.home = r.gateway
      /\ identities[r.key] # None
      /\ links[r.gateway][r.key].state = "revoked"
  BY <1>1, LinkFields
     DEF SaveRevoked, At, IInv, LinkInv, RowsCarried, AnswersHold, Makes, Known, LinkOf
<1>3. PICK old \in IdentityRow : old = r.row
  BY <1>2, LinkFields
<1>4. PICK late \in BOOLEAN : late = identities[r.key].late
  <2>1. r.key \in Keys /\ identities[r.key] \in IdentityRow \cup {None}
    BY LinkFields DEF IInv, TypeOK
  <2> QED BY <1>2, <2>1, RowFields
<1>a. PICK n \in Nat : n = old.revision + 1
  BY RowFields
<1>5. PICK row : row = [old EXCEPT !.status = "Revoked", !.late = late, !.revision = n]
  OBVIOUS
<1>6. row \in IdentityRow
  BY <1>5 DEF IdentityRow, Statuses
<1>7. row.status = "Revoked" /\ row.home = r.gateway
  BY <1>2, <1>3, <1>5 DEF IdentityRow
<1>8. Granted(row, r.key)
  BY <1>2, <1>7 DEF Granted
<1>9. Save(c, row)
  BY <1>1, <1>3, <1>4, <1>a, <1>5 DEF SaveRevoked
<1> QED BY <1>1, <1>6, <1>8, <1>9, SaveKeeps

(* Steps that change rows where no request has. *)
LEMMA RowsPass ==
  ASSUME IInv, UNCHANGED <<connection, links, epoch, requests>>, lapses' \in 0..MaxLapses,
         identities' \in [Keys -> IdentityRow \cup {None}],
         \A k \in Keys : identities'[k] # identities[k] =>
           identities'[k] # None /\ Granted(identities'[k], k)
  PROVE  IInv' /\ Moved
<1>1. TypeOK'
  BY DEF connection, IInv, TypeOK
<1>2. TokenInv' /\ LinkInv'
  BY <1>1, TokensUntouched, RowsChange
<1> QED BY <1>1, <1>2 DEF IInv, Moved

LEMMA PruneKeeps ==
  ASSUME IInv, Prune
  PROVE  IInv' /\ Moved
<1>1. ASSUME NEW k \in Keys, identities[k] # None, identities[k].status = "Pending", identities[k].late
      PROVE  identities'[k] \in IdentityRow /\ identities'[k].status = "Expired"
  <2>1. PICK old \in IdentityRow : old = identities[k]
    BY <1>1 DEF IInv, TypeOK
  <2>2. PICK row : row = [old EXCEPT !.status = "Expired"]
    OBVIOUS
  <2>3. row \in IdentityRow /\ row.status = "Expired"
    BY <2>2 DEF IdentityRow, Statuses
  <2> QED BY <1>1, <2>1, <2>2, <2>3 DEF Prune
<1>2. ASSUME NEW k \in Keys, ~(identities[k] # None /\ identities[k].status = "Pending" /\ identities[k].late)
      PROVE  identities'[k] = identities[k]
  BY <1>2 DEF Prune
<1>3. identities' \in [Keys -> IdentityRow \cup {None}]
  <2>1. \A k \in Keys : identities'[k] \in IdentityRow \cup {None}
    BY <1>1, <1>2 DEF IInv, TypeOK
  <2>2. identities' = [k \in Keys |-> identities'[k]]
    BY DEF Prune
  <2> QED BY <2>1, <2>2
<1>4. ASSUME NEW k \in Keys, identities'[k] # identities[k]
      PROVE  identities'[k] # None /\ Granted(identities'[k], k)
  <2>1. identities'[k] \in IdentityRow /\ identities'[k].status = "Expired"
    BY <1>1, <1>2, <1>4
  <2> QED BY <2>1, RowFields DEF Granted
<1> QED BY <1>3, <1>4, RowsPass DEF Prune, channel, IInv, TypeOK

LEMMA PassLimitKeeps ==
  ASSUME IInv, NEW k \in Keys, PassLimit(k)
  PROVE  IInv' /\ Moved
<1>1. PICK old \in IdentityRow : old = identities[k]
  BY DEF IInv, TypeOK, PassLimit
<1>2. PICK row : row = [old EXCEPT !.late = TRUE]
  OBVIOUS
<1>3. /\ row \in IdentityRow /\ row.status = old.status /\ row.home = old.home
      /\ row.subject = old.subject
  BY <1>2 DEF IdentityRow
<1>4. identities' = [identities EXCEPT ![k] = row]
  BY <1>1, <1>2 DEF PassLimit
<1>5. Granted(old, k)
  BY <1>1, RowFields DEF IInv, LinkInv, StatusWasGranted, Granted, Bound
<1>6. Granted(row, k)
  BY <1>3, <1>5 DEF Granted
<1>7. row # None
  BY <1>3, RowFields
<1>8. identities' \in [Keys -> IdentityRow \cup {None}]
  BY <1>3, <1>4 DEF IInv, TypeOK
<1>9. \A j \in Keys : identities'[j] # identities[j] => j = k /\ identities'[j] = row
  BY <1>4 DEF IInv, TypeOK
<1>10. lapses' \in 0..MaxLapses /\ UNCHANGED <<connection, links, epoch, requests>>
  BY DEF PassLimit, Lapse, connection, IInv, TypeOK
<1> QED BY <1>6, <1>7, <1>8, <1>9, <1>10, RowsPass

LEMMA ReauthorizeKeeps ==
  ASSUME IInv, Reauthorize
  PROVE  IInv' /\ Moved
<1>1. TypeOK'
  BY DEF Reauthorize, Lapse, IInv, TypeOK
<1>2. TokenInv' /\ LinkInv'
  BY <1>1, TokensUntouched, LinksUntouched DEF Reauthorize, Lapse, connection, channel
<1> QED BY <1>1, <1>2 DEF IInv, Moved, Reauthorize

LEMMA AbortKeeps ==
  ASSUME IInv, NEW c \in Clients, Abort(c)
  PROVE  IInv' /\ Moved
<1>1. OnlyOf(c) /\ requests'[c] = None
  BY Returned DEF Abort, IInv
<1>2. TypeOK'
  BY <1>1, RequestsTyped DEF Abort, connection, channel, IInv, TypeOK, OnlyOf, Typed
<1>3. \A d \in Clients : requests'[d] = requests[d] \/ requests'[d] = None
  BY <1>1 DEF OnlyOf
<1>4. TokenInv' /\ LinkInv'
  BY <1>2, <1>3, TokensUntouched, LinksUntouched DEF Abort
<1> QED BY <1>2, <1>3, <1>4 DEF IInv, Moved

LEMMA LinkStepKeeps ==
  ASSUME IInv, NEW c \in Clients, LinkStep(c)
  PROVE  IInv' /\ Moved
<1>1. ASSUME NEW k \in Keys, Issue(c, k) \/ Confirm(c, k) \/ Revoke(c, k)
      PROVE  IInv' /\ Moved
  <2>1. CASE Issue(c, k)
    BY <2>1, CallingKeeps DEF Issue, LinkCalls
  <2>2. CASE Confirm(c, k)
    BY <2>2, CallingKeeps DEF Confirm, LinkCalls
  <2>3. CASE Revoke(c, k)
    BY <2>3, CallingKeeps DEF Revoke, LinkCalls
  <2> QED BY <1>1, <2>1, <2>2, <2>3
<1> QED BY <1>1, PostKeeps, InsertIdentityKeeps, SaveConfirmedKeeps, SaveRevokedKeeps DEF LinkStep

LEMMA CacheStepKeeps ==
  ASSUME IInv, (\E s \in States : BeginConnection(s)) \/ (\E t \in Tokens : LapseLock(t) \/ Forget(t))
  PROVE  IInv' /\ Moved
<1>1. TypeOK' /\ TokenInv' /\ UNCHANGED <<channel, requests>>
  BY BeginConnectionKeeps, LapseLockKeeps, ForgetKeeps
     DEF BeginConnection, LapseLock, Forget, Lapse, channel
<1>2. LinkInv'
  BY <1>1, LinksUntouched
<1> QED BY <1>1, <1>2 DEF IInv, Moved

LEMMA InitIInv == Init => IInv
<1> SUFFICES ASSUME Init PROVE IInv
  OBVIOUS
<1>1. TypeOK
  <2>1. [k \in Keys |-> [state |-> "none", account |-> None]] \in [Keys -> Link]
    BY DEF Link, LinkStates
  <2>2. links \in [Gateways -> [Keys -> Link]]
    BY <2>1 DEF Init
  <2>3. trust \in [gateway : Gateways \cup {None}, revision : Nat]
    BY DEF Init
  <2>4. epoch \in Nat /\ lapses \in 0..MaxLapses
    BY DEF Init
  <2>5. requests = [c \in Clients |-> requests[c]] /\ \A c \in Clients : requests[c] = None
    BY DEF Init
  <2>6. lock \in [Tokens -> Clients \cup {None}] /\ exchanged \in [Tokens -> Nat]
    BY DEF Init
  <2>7. /\ identities \in [Keys -> IdentityRow \cup {None}]
        /\ cache \subseteq Tokens /\ forgotten \subseteq Tokens /\ made \subseteq States
    BY DEF Init
  <2> QED BY <2>2, <2>3, <2>4, <2>5, <2>6, <2>7 DEF TypeOK
<1>2. TokenInv
  BY DEF Init, TokenInv, ExchangedOnce, StatesMade, SpentStays, UsedIsSpent, OneConsumer,
         Used, Consumes, Spends, At, MayPass, Tokens
<1>3. LinkInv
  BY <1>1 DEF Init, LinkInv, StatusWasGranted, RowsCarried, AnswersHold, Makes, At
<1> QED BY <1>1, <1>2, <1>3 DEF IInv

LEMMA NextIInv == IInv /\ [Next]_vars => IInv' /\ Moved
<1> SUFFICES ASSUME IInv, [Next]_vars PROVE IInv' /\ Moved
  OBVIOUS
<1>1. CASE Next
  BY <1>1, ConnectKeeps, TakeLockKeeps, ReadTokenKeeps, SpendTokenKeeps, LeaveLockKeeps,
     ExchangeKeeps, PersistTrustKeeps, LinkStepKeeps, AbortKeeps, CacheStepKeeps, PassLimitKeeps,
     PruneKeeps, ReauthorizeKeeps DEF Next, ConnectionStep
<1>2. CASE UNCHANGED vars
  <2>1. TypeOK'
    BY <1>2 DEF vars, IInv, TypeOK
  <2> QED BY <1>2, <2>1, TokensUntouched, LinksUntouched DEF IInv, Moved, vars, connection, channel
<1> QED BY <1>1, <1>2

THEOREM Invariant == Spec => []IInv
BY InitIInv, NextIInv, PTL DEF Spec

(* A state or nonce is exchanged with its gateway once, for any number of connections whose
   locks run out (_consume_pending, _consume_fallback_nonce). *)
THEOREM ExchangedOnceCorrect == Spec => []ExchangedOnce
<1>1. IInv => ExchangedOnce
  BY DEF IInv, TokenInv
<1> QED BY <1>1, Invariant, PTL

(* A row's status was granted by the gateway that issued its link, whatever calls were lost,
   and whatever gateway is trusted now (confirm_telegram_link, revoke_telegram_link). *)
THEOREM StatusWasGrantedOfLinks == Spec => []StatusWasGranted
<1>1. IInv => StatusWasGranted
  BY DEF IInv, LinkInv
<1> QED BY <1>1, Invariant, PTL

-----------------------------------------------------------------------------
(* Steps of BrowserSessions *)

LEMMA NotNullHere ==
  /\ \A x \in Grant : x # None
  /\ \A x \in TicketRequest : x # None
  /\ \A x \in ConsumeRequest : x # None
BY NoGrantAssumption

LEMMA TicketFields ==
  ASSUME NEW r \in TicketRequest
  PROVE  /\ r.call = "ticket" /\ r.step = "begun" /\ r.ticket \in Tickets /\ r.grant \in Grant
         /\ r # None
BY NotNullHere DEF TicketRequest

LEMMA ConsumeFields ==
  ASSUME NEW r \in ConsumeRequest
  PROVE  /\ r.call = "consume" /\ r.ticket \in Tickets /\ r.context \in Contexts
         /\ r.step \in {"begun", "locked", "read", "deleted", "consumed"}
         /\ r.held \in BOOLEAN /\ r # None
BY NotNullHere DEF ConsumeRequest

LEMMA RequestOfCall ==
  ASSUME BrowserTypeOK, NEW c \in Clients, requests[c] # None
  PROVE  /\ requests[c].call = "ticket" => requests[c] \in TicketRequest
         /\ requests[c].call = "consume" => requests[c] \in ConsumeRequest
BY ConnectFields, LinkFields, TicketFields, ConsumeFields DEF BrowserTypeOK, LinkCalls

(* A step of this module leaves SiteConnection's rows, tokens and requests alone. *)
LEMMA ForeignKeeps ==
  ASSUME IInv, UNCHANGED <<connection, channel>>, epoch' \in Nat, lapses' \in 0..MaxLapses,
         requests' = [c \in Clients |-> requests'[c]],
         \A d \in Clients : \/ requests'[d] \in {requests[d], None}
                            \/ requests'[d] \in TicketRequest \/ requests'[d] \in ConsumeRequest
  PROVE  IInv'
<1>1. \A d \in Clients : \/ requests'[d] = requests[d] \/ requests'[d] = None
                         \/ requests'[d].call \notin {"connect"} \cup LinkCalls
  BY TicketFields, ConsumeFields DEF LinkCalls
<1>2. TypeOK'
  BY <1>1 DEF connection, channel, IInv, TypeOK
<1> QED BY <1>1, <1>2, TokensUntouched, LinksUntouched DEF IInv, LinkCalls

(* Steps that touch no ticket, and begin or advance none of this module's requests. *)
LEMMA TicketsUntouched ==
  ASSUME BrowserInv, IInv', Moved, UNCHANGED browser, running' \in BOOLEAN
  PROVE  TicketInv'
<1>1. \A d \in Clients : \/ requests'[d] = requests[d] \/ requests'[d] = None
                         \/ requests'[d].call \notin {"ticket", "consume"}
  BY ConnectFields, LinkFields DEF Moved, LinkCalls
<1>2. BrowserTypeOK'
  <2>1. \A d \in Clients : requests'[d] \in
           {None} \cup ConnectRequest \cup LinkRequest \cup TicketRequest \cup ConsumeRequest
    BY DEF Moved, BrowserInv, TicketInv, UsedOnce, BrowserTypeOK
  <2>2. requests' = [c \in Clients |-> requests'[c]]
    BY DEF IInv, TypeOK
  <2> QED BY <2>1, <2>2 DEF BrowserInv, TicketInv, UsedOnce, BrowserTypeOK, browser
<1>3. UsedOnce'
  BY <1>2 DEF IInv, TokenInv, BrowserInv, TicketInv, UsedOnce, browser
<1>4. \A d \in Clients : \A step : At(d, "consume", step)' =>
        At(d, "consume", step) /\ requests'[d] = requests[d]
  BY <1>1 DEF At
<1>5. MadeOnce'
  BY <1>1 DEF BrowserInv, TicketInv, MadeOnce, browser
<1>6. DeletedStays'
  BY <1>4 DEF BrowserInv, TicketInv, DeletedStays, browser
<1>7. \A d \in Clients : \A b :
        /\ Redeems(d, b)' => Redeems(d, b)
        /\ MayRedeem(d, b)' => MayRedeem(d, b)
  BY <1>4 DEF Redeems, MayRedeem, browser
<1>8. RedeemedIsDeleted'
  BY <1>7 DEF BrowserInv, TicketInv, RedeemedIsDeleted, browser
<1>9. OneRedeemer'
  BY <1>7 DEF BrowserInv, TicketInv, OneRedeemer, browser
<1> QED BY <1>3, <1>5, <1>6, <1>8, <1>9 DEF TicketInv

(* A step of one of this module's requests. *)
LEMMA BrowserTyped ==
  ASSUME BrowserInv, NEW c \in Clients, OnlyOf(c),
         requests'[c] \in {None} \cup TicketRequest \cup ConsumeRequest,
         UNCHANGED <<connection, channel, epoch, lapses, running>>,
         issued' \in [Tickets -> Grant \cup {None}], cached' \subseteq Tickets,
         ticketLock' \in [Tickets -> Clients \cup {None}], opened' \in [Tickets -> Seq(Contexts)]
  PROVE  IInv' /\ BrowserTypeOK'
<1>1. IInv'
  BY ForeignKeeps DEF BrowserInv, IInv, TypeOK, OnlyOf
<1>2. requests' \in [Clients -> {None} \cup ConnectRequest \cup LinkRequest
                                \cup TicketRequest \cup ConsumeRequest]
  BY DEF OnlyOf, BrowserInv, TicketInv, UsedOnce, BrowserTypeOK
<1> QED BY <1>1, <1>2 DEF BrowserInv, TicketInv, UsedOnce, BrowserTypeOK

LEMMA AskKeeps ==
  ASSUME BrowserInv, NEW c \in Clients, NEW b \in Tickets, NEW x \in Contexts, Ask(c, b, x)
  PROVE  BrowserInv'
<1>1. PICK r : r = [call |-> "ticket", step |-> "begun", ticket |-> b,
                    grant |-> [gateway |-> trust.gateway, epoch |-> epoch, context |-> x]]
  OBVIOUS
<1>2. trust.gateway \in Gateways /\ epoch \in Nat
  BY DEF BrowserInv, IInv, TypeOK, Ask, TrustedBinding
<1>3. r \in TicketRequest /\ r.ticket = b
  BY <1>1, <1>2 DEF TicketRequest, Grant
<1>4. OnlyOf(c) /\ requests'[c] = r /\ requests[c] = None /\ UNCHANGED browser
  BY <1>1, Started DEF Ask, BrowserInv, IInv
<1>5. IInv' /\ BrowserTypeOK'
  BY <1>3, <1>4, BrowserTyped
     DEF Ask, browser, BrowserInv, TicketInv, UsedOnce, BrowserTypeOK
<1>6. UsedOnce'
  BY <1>4, <1>5 DEF BrowserInv, TicketInv, UsedOnce, IInv, TokenInv, browser
<1>7. \A d \in Clients : \A step : At(d, "consume", step)' =>
        At(d, "consume", step) /\ requests'[d] = requests[d]
  BY <1>3, <1>4, TicketFields DEF At, OnlyOf
<1>8. MadeOnce'
  <2>1. \A d \in Clients : requests[d] # None /\ requests[d].call = "ticket" =>
          requests[d].ticket # b
    BY DEF Ask
  <2>2. issued[b] = None
    BY DEF Ask
  <2>3. \A d \in Clients \ {c} : requests'[d] = requests[d]
    BY <1>4 DEF OnlyOf
  <2>4. requests'[c].call = "ticket" /\ requests'[c].ticket = b
    BY <1>3, <1>4, TicketFields
  <2> QED BY <1>4, <2>1, <2>2, <2>3, <2>4 DEF BrowserInv, TicketInv, MadeOnce, browser
<1>9. DeletedStays'
  BY <1>4, <1>7 DEF BrowserInv, TicketInv, DeletedStays, browser
<1>10. \A d \in Clients : \A y :
        /\ Redeems(d, y)' => Redeems(d, y)
        /\ MayRedeem(d, y)' => MayRedeem(d, y)
  BY <1>4, <1>7 DEF Redeems, MayRedeem, browser
<1>11. RedeemedIsDeleted' /\ OneRedeemer'
  BY <1>4, <1>10 DEF BrowserInv, TicketInv, RedeemedIsDeleted, OneRedeemer, browser
<1> QED BY <1>5, <1>6, <1>8, <1>9, <1>11 DEF BrowserInv, TicketInv

LEMMA CacheTicketKeeps ==
  ASSUME BrowserInv, NEW c \in Clients, CacheTicket(c)
  PROVE  BrowserInv'
<1>1. PICK r \in TicketRequest : r = requests[c]
  BY RequestOfCall DEF CacheTicket, At, BrowserInv, TicketInv, UsedOnce
<1>2. PICK b \in Tickets : b = r.ticket
  BY TicketFields
<1>3. /\ issued' = [issued EXCEPT ![b] = r.grant] /\ cached' = cached \cup {b}
      /\ UNCHANGED <<connection, channel, epoch, lapses, running, ticketLock, opened>>
  BY <1>1, <1>2 DEF CacheTicket
<1>4. OnlyOf(c) /\ requests'[c] = None
  BY Returned DEF CacheTicket, BrowserInv, IInv
<1>5. r.grant \in Grant /\ r.grant # None
  BY TicketFields, NotNullHere
<1>6. /\ issued' \in [Tickets -> Grant \cup {None}] /\ issued'[b] # None
      /\ \A x \in Tickets \ {b} : issued'[x] = issued[x]
  BY <1>3, <1>5 DEF BrowserInv, TicketInv, UsedOnce, BrowserTypeOK
<1>7. IInv' /\ BrowserTypeOK'
  BY <1>3, <1>4, <1>6, BrowserTyped DEF BrowserInv, TicketInv, UsedOnce, BrowserTypeOK
<1>8. /\ issued[b] = None /\ opened[b] = <<>>
      /\ \A d \in Clients : requests[d] # None /\ requests[d].ticket = b =>
           /\ requests[d].call = "ticket" => c = d
           /\ requests[d].call # "consume"
  BY <1>1, <1>2, TicketFields DEF BrowserInv, TicketInv, MadeOnce
<1>9. \A d \in Clients : requests'[d] # None => requests'[d] = requests[d] /\ d # c
  BY <1>4 DEF OnlyOf
<1>10. UsedOnce'
  <2>1. \A x \in Tickets : opened[x] = <<>> \/ opened[x] = <<issued'[x].context>>
    BY <1>6, <1>8 DEF BrowserInv, TicketInv, UsedOnce
  <2> QED BY <1>3, <1>7, <2>1 DEF UsedOnce, IInv, TokenInv
<1>11. MadeOnce'
  <2>1. \A x \in cached' : x \in Tickets /\ issued'[x] # None
    BY <1>3, <1>6 DEF BrowserInv, TicketInv, MadeOnce, UsedOnce, BrowserTypeOK
  <2>2. \A x \in Tickets : opened'[x] # <<>> => issued'[x] # None
    BY <1>3, <1>6 DEF BrowserInv, TicketInv, MadeOnce
  <2>3. ASSUME NEW d \in Clients, requests'[d] # None, requests'[d].call = "consume"
        PROVE  issued'[requests'[d].ticket] # None
    <3>1. requests'[d] = requests[d] /\ requests[d] \in ConsumeRequest
      BY <1>9, <2>3, RequestOfCall DEF BrowserInv, TicketInv, UsedOnce
    <3>2. requests[d].ticket \in Tickets /\ issued[requests[d].ticket] # None
      BY <2>3, <3>1, ConsumeFields DEF BrowserInv, TicketInv, MadeOnce
    <3> QED BY <1>6, <3>1, <3>2
  <2>4. ASSUME NEW d \in Clients, requests'[d] # None, requests'[d].call = "ticket"
        PROVE  /\ issued'[requests'[d].ticket] = None
               /\ \A e \in Clients : requests'[e] # None /\ requests'[e].call = "ticket"
                    /\ requests'[e].ticket = requests'[d].ticket => d = e
    <3>1. requests'[d] = requests[d] /\ requests[d] \in TicketRequest /\ d # c
      BY <1>9, <2>4, RequestOfCall DEF BrowserInv, TicketInv, UsedOnce
    <3>2. requests[d].ticket \in Tickets \ {b}
      BY <1>8, <2>4, <3>1, TicketFields
    <3>3. issued'[requests'[d].ticket] = None
      BY <1>6, <2>4, <3>1, <3>2 DEF BrowserInv, TicketInv, MadeOnce
    <3> QED BY <1>9, <2>4, <3>1, <3>3 DEF BrowserInv, TicketInv, MadeOnce
  <2> QED BY <2>1, <2>2, <2>3, <2>4 DEF MadeOnce
<1>12. \A d \in Clients : \A x :
        /\ Redeems(d, x)' => Redeems(d, x) /\ x # b
        /\ MayRedeem(d, x)' => MayRedeem(d, x)
  BY <1>3, <1>8, <1>9 DEF Redeems, MayRedeem, At
<1>13. DeletedStays'
  BY <1>3, <1>8, <1>9 DEF BrowserInv, TicketInv, DeletedStays, At
<1>14. RedeemedIsDeleted' /\ OneRedeemer'
  BY <1>3, <1>8, <1>12 DEF BrowserInv, TicketInv, RedeemedIsDeleted, OneRedeemer
<1> QED BY <1>7, <1>10, <1>11, <1>13, <1>14 DEF BrowserInv, TicketInv

(* A step of one consuming request that redeems nothing and makes no ticket. *)
LEMMA TicketsBeforeUse ==
  ASSUME BrowserInv, IInv', BrowserTypeOK', NEW c \in Clients, OnlyOf(c),
         requests'[c] \in ConsumeRequest, requests'[c].step \in {"begun", "locked", "read"},
         requests'[c].step = "read" /\ requests'[c].held => requests'[c].ticket \in cached,
         issued[requests'[c].ticket] # None,
         UNCHANGED <<issued, cached, opened>>,
         \A b \in Tickets : ticketLock'[b] = ticketLock[b] \/ ticketLock'[b] = c
  PROVE  BrowserInv'
<1>1. \A d \in Clients, b \in Tickets : Redeems(d, b)' => Redeems(d, b) /\ d # c
  BY DEF Redeems, At, OnlyOf
<1>2. ASSUME NEW d \in Clients, NEW b \in Tickets, MayRedeem(d, b)'
      PROVE  MayRedeem(d, b) \/ b \in cached
  <2>1. CASE d = c
    BY <1>2, <2>1 DEF MayRedeem, At
  <2>2. CASE d # c
    BY <1>2, <2>2 DEF MayRedeem, At, OnlyOf
  <2> QED BY <2>1, <2>2
<1>3. UsedOnce'
  BY DEF BrowserInv, TicketInv, UsedOnce, IInv, TokenInv
<1>4. MadeOnce'
  <2>1. requests'[c].call = "consume"
    BY ConsumeFields
  <2> QED BY <2>1 DEF BrowserInv, TicketInv, MadeOnce, OnlyOf
<1>5. DeletedStays'
  BY DEF BrowserInv, TicketInv, DeletedStays, At, OnlyOf
<1>6. RedeemedIsDeleted' /\ OneRedeemer'
  BY <1>1, <1>2 DEF BrowserInv, TicketInv, RedeemedIsDeleted, OneRedeemer
<1> QED BY <1>3, <1>4, <1>5, <1>6 DEF BrowserInv, TicketInv

LEMMA ConsumeKeeps ==
  ASSUME BrowserInv, NEW c \in Clients, NEW b \in Tickets, NEW x \in Contexts, Consume(c, b, x)
  PROVE  BrowserInv'
<1>1. PICK r : r = [call |-> "consume", step |-> "begun", ticket |-> b, context |-> x, held |-> FALSE]
  OBVIOUS
<1>2. r \in ConsumeRequest /\ r.ticket = b /\ r.step = "begun"
  BY <1>1 DEF ConsumeRequest
<1>3. OnlyOf(c) /\ requests'[c] = r
  BY <1>1, Started DEF Consume, BrowserInv, IInv
<1>4. issued[b] # None
  BY DEF Consume, BrowserInv, TicketInv, MadeOnce
<1>5. IInv' /\ BrowserTypeOK'
  BY <1>2, <1>3, BrowserTyped DEF Consume, browser, BrowserInv, TicketInv, UsedOnce, BrowserTypeOK
<1> QED BY <1>2, <1>3, <1>4, <1>5, TicketsBeforeUse DEF Consume, browser

LEMMA ConsumeAdvanced ==
  ASSUME BrowserInv, NEW c \in Clients, NEW from, NEW to, At(c, "consume", from), Advance(c, to),
         to \in {"begun", "locked", "read", "deleted", "consumed"}
  PROVE  /\ OnlyOf(c) /\ requests[c] \in ConsumeRequest /\ requests'[c] \in ConsumeRequest
         /\ requests'[c].step = to /\ requests'[c].ticket = requests[c].ticket
         /\ requests'[c].held = requests[c].held
         /\ issued[requests[c].ticket] # None /\ requests[c].ticket \in Tickets
<1>1. PICK r \in ConsumeRequest : r = requests[c]
  BY RequestOfCall DEF At, BrowserInv, TicketInv, UsedOnce
<1>2. requests'[c] = [r EXCEPT !.step = to] /\ OnlyOf(c)
  BY <1>1 DEF BrowserInv, IInv, TypeOK, Advance, OnlyOf
<1>3. /\ [r EXCEPT !.step = to] \in ConsumeRequest /\ [r EXCEPT !.step = to].step = to
      /\ [r EXCEPT !.step = to].ticket = r.ticket /\ [r EXCEPT !.step = to].held = r.held
  BY DEF ConsumeRequest
<1>4. issued[requests[c].ticket] # None
  BY DEF At, BrowserInv, TicketInv, MadeOnce
<1> QED BY <1>1, <1>2, <1>3, <1>4, ConsumeFields

LEMMA TakeTicketLockKeeps ==
  ASSUME BrowserInv, NEW c \in Clients, TakeTicketLock(c)
  PROVE  BrowserInv'
<1>1. /\ OnlyOf(c) /\ requests'[c] \in ConsumeRequest /\ requests'[c].step = "locked"
      /\ requests'[c].ticket = requests[c].ticket /\ issued[requests[c].ticket] # None
  BY ConsumeAdvanced DEF TakeTicketLock
<1>2. /\ \A b \in Tickets : ticketLock'[b] = ticketLock[b] \/ ticketLock'[b] = c
      /\ ticketLock' \in [Tickets -> Clients \cup {None}]
  BY DEF TakeTicketLock, BrowserInv, TicketInv, UsedOnce, BrowserTypeOK
<1>3. IInv' /\ BrowserTypeOK'
  BY <1>1, <1>2, BrowserTyped DEF TakeTicketLock, BrowserInv, TicketInv, UsedOnce, BrowserTypeOK
<1> QED BY <1>1, <1>2, <1>3, TicketsBeforeUse DEF TakeTicketLock

LEMMA ReadTicketKeeps ==
  ASSUME BrowserInv, NEW c \in Clients, ReadTicket(c)
  PROVE  BrowserInv'
<1>1. PICK r \in ConsumeRequest : r = requests[c]
  BY RequestOfCall DEF ReadTicket, At, BrowserInv, TicketInv, UsedOnce
<1>2. PICK h : h = (r.ticket \in cached) /\ h \in BOOLEAN
  <2>1. (r.ticket \in cached) \in BOOLEAN
    OBVIOUS
  <2> QED BY <2>1
<1>3. OnlyOf(c) /\ requests'[c] = [r EXCEPT !.step = "read", !.held = h]
  <2>1. requests' = [requests EXCEPT ![c] = [r EXCEPT !.step = "read", !.held = h]]
    BY <1>1, <1>2, Zenon DEF ReadTicket
  <2> QED BY <2>1 DEF OnlyOf, BrowserInv, IInv, TypeOK
<1>4. [r EXCEPT !.step = "read", !.held = h] \in ConsumeRequest
  BY <1>2 DEF ConsumeRequest
<1>5. /\ requests'[c] \in ConsumeRequest /\ requests'[c].step = "read"
      /\ requests'[c].ticket = r.ticket /\ requests'[c].held = h
  BY <1>3, <1>4 DEF ConsumeRequest
<1>6. issued[r.ticket] # None
  BY <1>1, ConsumeFields DEF BrowserInv, TicketInv, MadeOnce
<1>7. IInv' /\ BrowserTypeOK'
  BY <1>3, <1>5, BrowserTyped
     DEF ReadTicket, browser, BrowserInv, TicketInv, UsedOnce, BrowserTypeOK
<1>8. requests'[c].held => requests'[c].ticket \in cached
  BY <1>2, <1>5
<1> QED BY <1>3, <1>5, <1>6, <1>7, <1>8, TicketsBeforeUse DEF ReadTicket, browser

LEMMA DeleteTicketKeeps ==
  ASSUME BrowserInv, NEW c \in Clients, DeleteTicket(c)
  PROVE  BrowserInv'
<1>1. /\ OnlyOf(c) /\ requests[c] \in ConsumeRequest /\ requests'[c] \in ConsumeRequest
      /\ requests'[c].step = "deleted" /\ requests'[c].ticket = requests[c].ticket
      /\ requests'[c].held = requests[c].held /\ issued[requests[c].ticket] # None
      /\ requests[c].ticket \in Tickets
  BY ConsumeAdvanced DEF DeleteTicket
<1>2. IInv' /\ BrowserTypeOK'
  BY <1>1, BrowserTyped DEF DeleteTicket, BrowserInv, TicketInv, UsedOnce, BrowserTypeOK
<1>3. UsedOnce'
  BY <1>2 DEF DeleteTicket, BrowserInv, TicketInv, UsedOnce, IInv, TokenInv
<1>4. MadeOnce'
  BY <1>1, ConsumeFields DEF DeleteTicket, BrowserInv, TicketInv, MadeOnce, OnlyOf
<1>5. DeletedStays'
  BY <1>1 DEF DeleteTicket, BrowserInv, TicketInv, DeletedStays, At, OnlyOf
<1>6. \A d \in Clients, b \in Tickets : Redeems(d, b)' => Redeems(d, b)
  BY <1>1 DEF Redeems, At, OnlyOf
<1>7. \A d \in Clients, b \in Tickets : MayRedeem(d, b)' => MayRedeem(d, b)
  BY <1>1, ConsumeFields DEF DeleteTicket, MayRedeem, At, OnlyOf
<1>8. RedeemedIsDeleted' /\ OneRedeemer'
  BY <1>6, <1>7 DEF DeleteTicket, BrowserInv, TicketInv, RedeemedIsDeleted, OneRedeemer
<1> QED BY <1>2, <1>3, <1>4, <1>5, <1>8 DEF BrowserInv, TicketInv

(* Steps that only end requests, let go of locks and drop tickets from the cache. *)
LEMMA TicketsGivenUp ==
  ASSUME BrowserInv, IInv', BrowserTypeOK', UNCHANGED <<issued, opened>>,
         \A d \in Clients : requests'[d] = requests[d] \/ requests'[d] = None,
         cached' \subseteq cached,
         \A b \in Tickets : ticketLock'[b] = ticketLock[b] \/ ticketLock'[b] = None
  PROVE  BrowserInv'
<1>1. \A d \in Clients : \A step : At(d, "consume", step)' =>
        At(d, "consume", step) /\ requests'[d] = requests[d]
  BY DEF At
<1>2. \A d \in Clients, b \in Tickets : Redeems(d, b)' => Redeems(d, b)
  BY <1>1 DEF Redeems
<1>3. \A d \in Clients, b \in Tickets : MayRedeem(d, b)' => MayRedeem(d, b)
  BY <1>1, NotNull DEF MayRedeem
<1>4. UsedOnce'
  BY DEF BrowserInv, TicketInv, UsedOnce, IInv, TokenInv
<1>5. MadeOnce'
  BY DEF BrowserInv, TicketInv, MadeOnce
<1>6. DeletedStays'
  BY <1>1 DEF BrowserInv, TicketInv, DeletedStays
<1>7. RedeemedIsDeleted' /\ OneRedeemer'
  BY <1>2, <1>3 DEF BrowserInv, TicketInv, RedeemedIsDeleted, OneRedeemer
<1> QED BY <1>4, <1>5, <1>6, <1>7 DEF BrowserInv, TicketInv

LEMMA LeaveTicketLockKeeps ==
  ASSUME BrowserInv, NEW c \in Clients, LeaveTicketLock(c)
  PROVE  BrowserInv'
<1>1. requests[c] \in ConsumeRequest /\ requests[c].step = "deleted"
  BY RequestOfCall DEF LeaveTicketLock, At, BrowserInv, TicketInv, UsedOnce
<1>2. PICK b \in Tickets : b = requests[c].ticket
  BY <1>1, ConsumeFields
<1>3. /\ ticketLock' = IF ticketLock[b] = c THEN [ticketLock EXCEPT ![b] = None] ELSE ticketLock
      /\ UNCHANGED <<connection, channel, epoch, lapses, running, issued, cached, opened>>
  BY <1>2 DEF LeaveTicketLock
<1>4. /\ \A x \in Tickets : ticketLock'[x] = ticketLock[x] \/ ticketLock'[x] = None
      /\ ticketLock' \in [Tickets -> Clients \cup {None}]
      /\ ticketLock[b] = c => ticketLock'[b] = None
  BY <1>3 DEF BrowserInv, TicketInv, UsedOnce, BrowserTypeOK
<1>5. CASE Return(c)
  <2>1. OnlyOf(c) /\ requests'[c] = None
    BY <1>5, Returned DEF BrowserInv, IInv
  <2>2. IInv' /\ BrowserTypeOK'
    BY <1>3, <1>4, <2>1, BrowserTyped DEF BrowserInv, TicketInv, UsedOnce, BrowserTypeOK
  <2> QED BY <1>3, <1>4, <2>1, <2>2, TicketsGivenUp DEF OnlyOf
<1>6. CASE HoldsTicket(c) /\ requests[c].held /\ Advance(c, "consumed")
  <2>1. /\ OnlyOf(c) /\ requests'[c] \in ConsumeRequest
        /\ requests'[c].step = "consumed" /\ requests'[c].ticket = b
        /\ issued[b] # None
    BY <1>2, <1>6, ConsumeAdvanced DEF LeaveTicketLock
  <2>2. IInv' /\ BrowserTypeOK'
    BY <1>3, <1>4, <2>1, BrowserTyped DEF BrowserInv, TicketInv, UsedOnce, BrowserTypeOK
  <2>3. MayRedeem(c, b) /\ b \notin cached /\ ticketLock'[b] = None
    BY <1>2, <1>4, <1>6
       DEF LeaveTicketLock, HoldsTicket, MayRedeem, At, BrowserInv, TicketInv, DeletedStays
  <2>4. opened[b] = <<>> /\ \A d \in Clients : ~Redeems(d, b)
    BY <2>3 DEF BrowserInv, TicketInv, RedeemedIsDeleted
  <2>5. \A d \in Clients, x \in Tickets : Redeems(d, x)' <=> Redeems(d, x) \/ (d = c /\ x = b)
    BY <1>1, <2>1, ConsumeFields DEF Redeems, At, OnlyOf
  <2>6. \A d \in Clients, x \in Tickets : MayRedeem(d, x)' => MayRedeem(d, x) /\ x # b
    BY <1>4, <2>1, <2>3, NotNull DEF MayRedeem, At, OnlyOf
  <2>7. UsedOnce'
    BY <1>3, <2>2 DEF BrowserInv, TicketInv, UsedOnce, IInv, TokenInv
  <2>8. MadeOnce'
    BY <1>3, <2>1, ConsumeFields DEF BrowserInv, TicketInv, MadeOnce, OnlyOf
  <2>9. DeletedStays'
    BY <1>3, <2>1, <2>3 DEF BrowserInv, TicketInv, DeletedStays, At, OnlyOf
  <2>10. RedeemedIsDeleted'
    BY <1>3, <2>3, <2>5, <2>6 DEF BrowserInv, TicketInv, RedeemedIsDeleted
  <2>11. OneRedeemer'
    BY <1>3, <2>4, <2>5 DEF BrowserInv, TicketInv, OneRedeemer
  <2> QED BY <2>2, <2>7, <2>8, <2>9, <2>10, <2>11 DEF BrowserInv, TicketInv
<1> QED BY <1>5, <1>6 DEF LeaveTicketLock

LEMMA OpenSessionKeeps ==
  ASSUME BrowserInv, NEW c \in Clients, OpenSession(c)
  PROVE  BrowserInv'
<1>1. PICK r \in ConsumeRequest : r = requests[c] /\ r.step = "consumed"
  BY RequestOfCall DEF OpenSession, At, BrowserInv, TicketInv, UsedOnce
<1>2. PICK b \in Tickets : b = r.ticket
  BY ConsumeFields
<1>3. Redeems(c, b)
  BY <1>1, <1>2, ConsumeFields DEF Redeems, At
<1>4. /\ opened[b] = <<>> /\ b \notin cached /\ issued[b] # None
      /\ \A d \in Clients : (Redeems(d, b) => d = c) /\ ~MayRedeem(d, b)
  BY <1>1, <1>2, <1>3, ConsumeFields
     DEF BrowserInv, TicketInv, OneRedeemer, RedeemedIsDeleted, MadeOnce
<1>5. issued[b].context = r.context /\ r.context \in Contexts
  BY <1>1, <1>2, ConsumeFields DEF OpenSession
<1>6. opened' = [opened EXCEPT ![b] = <<r.context>>]
  <2>1. Append(opened[b], r.context) = <<r.context>>
    BY <1>4, <1>5
  <2> QED BY <1>1, <1>2, <2>1 DEF OpenSession
<1>7. /\ opened' \in [Tickets -> Seq(Contexts)] /\ opened'[b] = <<issued[b].context>>
      /\ \A x \in Tickets \ {b} : opened'[x] = opened[x]
  BY <1>5, <1>6 DEF BrowserInv, TicketInv, UsedOnce, BrowserTypeOK
<1>8. OnlyOf(c) /\ requests'[c] = None
  BY Returned DEF OpenSession, BrowserInv, IInv
<1>9. UNCHANGED <<connection, channel, epoch, lapses, running, issued, cached, ticketLock>>
  BY DEF OpenSession
<1>10. IInv' /\ BrowserTypeOK'
  BY <1>7, <1>8, <1>9, BrowserTyped DEF BrowserInv, TicketInv, UsedOnce, BrowserTypeOK
<1>11. \A d \in Clients : requests'[d] # None => requests'[d] = requests[d] /\ d # c
  BY <1>8 DEF OnlyOf
<1>12. \A d \in Clients, x \in Tickets :
        /\ Redeems(d, x)' => Redeems(d, x) /\ d # c
        /\ MayRedeem(d, x)' => MayRedeem(d, x)
  BY <1>9, <1>11 DEF Redeems, MayRedeem, At
<1>13. UsedOnce'
  <2>1. \A x \in Tickets : opened'[x] = <<>> \/ opened'[x] = <<issued'[x].context>>
    BY <1>7, <1>9 DEF BrowserInv, TicketInv, UsedOnce
  <2> QED BY <1>10, <2>1 DEF UsedOnce, IInv, TokenInv
<1>14. MadeOnce'
  BY <1>4, <1>7, <1>9, <1>11 DEF BrowserInv, TicketInv, MadeOnce
<1>15. DeletedStays'
  BY <1>9, <1>11 DEF BrowserInv, TicketInv, DeletedStays, At
<1>16. RedeemedIsDeleted'
  BY <1>4, <1>7, <1>9, <1>12 DEF BrowserInv, TicketInv, RedeemedIsDeleted
<1>17. OneRedeemer'
  BY <1>4, <1>7, <1>12 DEF BrowserInv, TicketInv, OneRedeemer
<1> QED BY <1>10, <1>13, <1>14, <1>15, <1>16, <1>17 DEF BrowserInv, TicketInv

(* Time passes for locks, tickets and the mission. *)
LEMMA TimePasses ==
  ASSUME BrowserInv, StopMission \/ \E b \in Tickets : LapseTicketLock(b) \/ ExpireTicket(b)
  PROVE  BrowserInv'
<1>1. /\ UNCHANGED <<connection, channel, epoch, requests, issued, opened>> /\ Lapse
      /\ cached' \subseteq cached /\ running' \in BOOLEAN
      /\ \A b \in Tickets : ticketLock'[b] = ticketLock[b] \/ ticketLock'[b] = None
      /\ ticketLock' \in [Tickets -> Clients \cup {None}]
  <2>1. BrowserTypeOK
    BY DEF BrowserInv, TicketInv, UsedOnce
  <2>2. CASE StopMission
    BY <2>1, <2>2 DEF StopMission, Lapse, browser, connection, channel, BrowserTypeOK
  <2>3. CASE \E b \in Tickets : LapseTicketLock(b)
    BY <2>1, <2>3 DEF LapseTicketLock, Lapse, connection, channel, BrowserTypeOK
  <2>4. CASE \E b \in Tickets : ExpireTicket(b)
    BY <2>1, <2>4 DEF ExpireTicket, Lapse, connection, channel, BrowserTypeOK
  <2> QED BY <2>2, <2>3, <2>4
<1>2. lapses' \in 0..MaxLapses /\ epoch' \in Nat /\ requests' = [c \in Clients |-> requests'[c]]
  <2>1. lapses \in 0..MaxLapses /\ epoch \in Nat /\ requests = [c \in Clients |-> requests[c]]
    BY DEF BrowserInv, IInv, TypeOK
  <2>2. lapses < MaxLapses /\ lapses' = lapses + 1
    BY <1>1 DEF Lapse
  <2> QED BY <1>1, <2>1, <2>2
<1>3. IInv'
  BY <1>1, <1>2, ForeignKeeps DEF BrowserInv
<1>4. BrowserTypeOK'
  BY <1>1 DEF BrowserInv, TicketInv, UsedOnce, BrowserTypeOK
<1> QED BY <1>1, <1>3, <1>4, TicketsGivenUp

LEMMA InitBrowserInv == BrowserInit => BrowserInv
<1> SUFFICES ASSUME BrowserInit PROVE BrowserInv
  OBVIOUS
<1>1. IInv
  BY InitIInv DEF BrowserInit
<1>2. BrowserTypeOK
  <2>1. <<>> \in Seq(Contexts)
    OBVIOUS
  <2>2. requests = [c \in Clients |-> None]
    BY DEF BrowserInit, Init
  <2> QED BY <2>1, <2>2 DEF BrowserInit, BrowserTypeOK
<1>3. TicketInv
  BY <1>1, <1>2 DEF BrowserInit, Init, TicketInv, UsedOnce, IInv, TokenInv, MadeOnce,
     DeletedStays, RedeemedIsDeleted, OneRedeemer, Redeems, MayRedeem, At
<1> QED BY <1>1, <1>3 DEF BrowserInv

LEMMA NextBrowserInv == BrowserInv /\ [BrowserNext]_browserVars => BrowserInv'
<1> SUFFICES ASSUME BrowserInv, [BrowserNext]_browserVars PROVE BrowserInv'
  OBVIOUS
<1>1. CASE [Next]_vars /\ UNCHANGED <<running, browser>>
  <2>1. IInv' /\ Moved
    BY <1>1, NextIInv DEF BrowserInv
  <2>2. running' \in BOOLEAN
    BY <1>1 DEF BrowserInv, TicketInv, UsedOnce, BrowserTypeOK
  <2> QED BY <1>1, <2>1, <2>2, TicketsUntouched DEF BrowserInv
<1>2. CASE \E c \in Clients : BrowserStep(c)
  BY <1>2, AskKeeps, ConsumeKeeps, CacheTicketKeeps, TakeTicketLockKeeps, ReadTicketKeeps,
     DeleteTicketKeeps, LeaveTicketLockKeeps, OpenSessionKeeps DEF BrowserStep
<1>3. CASE StopMission \/ \E b \in Tickets : LapseTicketLock(b) \/ ExpireTicket(b)
  BY <1>3, TimePasses
<1> QED BY <1>1, <1>2, <1>3 DEF BrowserNext, browserVars

THEOREM BrowserInvariant == BrowserSpec => []BrowserInv
BY InitBrowserInv, NextBrowserInv, PTL DEF BrowserSpec

(* However slow the workers that hold the locks, a token is exchanged once and a ticket opens
   at most one session, in the context it was issued for (consume). *)
THEOREM UsedOnceCorrect == BrowserSpec => []UsedOnce
<1>1. BrowserInv => UsedOnce
  BY DEF BrowserInv, TicketInv
<1> QED BY <1>1, BrowserInvariant, PTL

(* The same of the links' rows when browsers come and go beside them. *)
THEOREM StatusWasGrantedCorrect == BrowserSpec => []StatusWasGranted
<1>1. BrowserInv => StatusWasGranted
  BY DEF BrowserInv, IInv, LinkInv
<1> QED BY <1>1, BrowserInvariant, PTL
=============================================================================
