---------------------------- MODULE BrowserSessions ----------------------------
(***************************************************************************)
(* How an isolated browser gets a session of a mission's requester           *)
(* (api/browser_session.py): the gateway the site trusts has a ticket issued *)
(* for one browser context, and the browser consumes it, without a session,  *)
(* behind a lock in the cache that runs out by itself.  The trust and the    *)
(* permission epoch both depend on are those of SiteConnection, whose steps  *)
(* this module extends; the cache is no part of a request's transaction.     *)
(***************************************************************************)
EXTENDS SiteConnection, Sequences

CONSTANTS
  Tickets,   \* random, never made twice
  Contexts   \* browser contexts, by their challenge

VARIABLES
  running,     \* is the mission Running, under its root run and requester?
  issued,      \* what each ticket was issued for, or None
  cached,      \* tickets the cache holds
  ticketLock,  \* who holds the cache lock of each ticket
  opened       \* the contexts sessions were opened in with each ticket, in order

browser == <<issued, cached, ticketLock, opened>>
browserVars == <<vars, running, browser>>

Grant == [gateway : Gateways, epoch : Nat, context : Contexts]
TicketRequest == [call : {"ticket"}, step : {"begun"}, ticket : Tickets, grant : Grant]
ConsumeRequest ==
  [call : {"consume"}, step : {"begun", "locked", "read", "deleted", "consumed"},
   ticket : Tickets, context : Contexts, held : BOOLEAN]

ASSUME NoGrantAssumption ==
  None \notin Grant /\ None \notin TicketRequest /\ None \notin ConsumeRequest

(* Bound: links and tickets, which share no row, are not followed in one behaviour. *)
Calls(call) == \E c \in Clients : requests[c] # None /\ requests[c].call \in call
Linking == Calls(LinkCalls) \/ \E k \in Keys : identities[k] # None
Browsing == Calls({"ticket"}) \/ \E b \in Tickets : issued[b] # None
Apart == Browsing => ~Linking'

-----------------------------------------------------------------------------
(* The callback comes from the gateway the site trusts, for a mission it executes. *)
TrustedBinding(g) == g # None /\ trust.gateway = g
Execution == running

(* The gateway asks for a ticket: binding, mission and epoch as the request reads them. *)
Ask(c, b, x) ==
  /\ issued[b] = None /\ TrustedBinding(trust.gateway) /\ Execution /\ ~Linking
  /\ \A d \in Clients : requests[d] # None /\ requests[d].call = "ticket" => requests[d].ticket # b
  /\ Start(c, [call |-> "ticket", step |-> "begun", ticket |-> b,
               grant |-> [gateway |-> trust.gateway, epoch |-> epoch, context |-> x]])
  /\ UNCHANGED <<connection, channel, epoch, lapses, running, browser>>

CacheTicket(c) ==
  /\ At(c, "ticket", "begun") /\ Return(c)
  /\ issued' = [issued EXCEPT ![requests[c].ticket] = requests[c].grant]
  /\ cached' = cached \cup {requests[c].ticket}
  /\ UNCHANGED <<connection, channel, epoch, lapses, running, ticketLock, opened>>

(* Anyone may post a ticket with the challenge of a context; a ticket the cache does not
   hold, never made again, is refused. *)
Consume(c, b, x) ==
  /\ b \in cached
  /\ Start(c, [call |-> "consume", step |-> "begun", ticket |-> b, context |-> x, held |-> FALSE])
  /\ UNCHANGED <<connection, channel, epoch, lapses, running, browser>>

TakeTicketLock(c) ==
  /\ At(c, "consume", "begun") /\ ticketLock[requests[c].ticket] = None
  /\ Advance(c, "locked") /\ ticketLock' = [ticketLock EXCEPT ![requests[c].ticket] = c]
  /\ UNCHANGED <<connection, channel, epoch, lapses, running, issued, cached, opened>>

ReadTicket(c) ==
  /\ At(c, "consume", "locked")
  /\ requests' = [requests EXCEPT ![c].step = "read", ![c].held = requests[c].ticket \in cached]
  /\ UNCHANGED <<connection, channel, epoch, lapses, running, browser>>

(* Deleted before anything in it is looked at. *)
DeleteTicket(c) ==
  /\ At(c, "consume", "read") /\ Advance(c, "deleted")
  /\ cached' = cached \ {requests[c].ticket}
  /\ UNCHANGED <<connection, channel, epoch, lapses, running, issued, ticketLock, opened>>

(* Mutant of HoldsTicket: leaving the lock never raises. *)
WhoeverHolds(c) == TRUE

(* Leaving the lock raises when it ran out meanwhile. *)
HoldsTicket(c) == ticketLock[requests[c].ticket] = c

LeaveTicketLock(c) ==
  /\ At(c, "consume", "deleted")
  /\ ticketLock' = IF ticketLock[requests[c].ticket] = c
                   THEN [ticketLock EXCEPT ![requests[c].ticket] = None] ELSE ticketLock
  /\ IF HoldsTicket(c) /\ requests[c].held THEN Advance(c, "consumed") ELSE Return(c)
  /\ UNCHANGED <<connection, channel, epoch, lapses, running, issued, cached, opened>>

(* The mission still runs and its requester's permissions are those of the issue. *)
CurrentMission(grant) == running /\ epoch = grant.epoch

(* The challenge, the first read of the database, and login_as. *)
OpenSession(c) ==
  /\ At(c, "consume", "consumed") /\ Return(c)
  /\ LET grant == issued[requests[c].ticket] IN
       /\ grant.context = requests[c].context
       /\ TrustedBinding(grant.gateway) /\ CurrentMission(grant)
  /\ opened' = [opened EXCEPT ![requests[c].ticket] = Append(@, requests[c].context)]
  /\ UNCHANGED <<connection, channel, epoch, lapses, running, issued, cached, ticketLock>>

-----------------------------------------------------------------------------
LapseTicketLock(b) ==
  /\ ticketLock[b] # None /\ ticketLock' = [ticketLock EXCEPT ![b] = None]
  /\ Lapse /\ UNCHANGED <<cache, lock, forgotten, identities, epoch, requests, running, issued, cached, opened>>

(* The ninety seconds of a ticket; the mission's end or pause. *)
ExpireTicket(b) ==
  /\ b \in cached /\ cached' = cached \ {b}
  /\ Lapse /\ UNCHANGED <<cache, lock, forgotten, identities, epoch, requests, running, issued, ticketLock, opened>>

StopMission ==
  /\ running /\ running' = FALSE
  /\ Lapse /\ UNCHANGED <<cache, lock, forgotten, identities, epoch, requests, browser>>

BrowserInit ==
  /\ Init /\ running = TRUE
  /\ issued = [b \in Tickets |-> None] /\ cached = {}
  /\ ticketLock = [b \in Tickets |-> None] /\ opened = [b \in Tickets |-> <<>>]

BrowserStep(c) ==
  \/ \E b \in Tickets, x \in Contexts : Ask(c, b, x) \/ Consume(c, b, x)
  \/ CacheTicket(c) \/ TakeTicketLock(c) \/ ReadTicket(c) \/ DeleteTicket(c)
  \/ LeaveTicketLock(c) \/ OpenSession(c)

BrowserNext ==
  \/ Next /\ Apart /\ UNCHANGED <<running, browser>>
  \/ \E c \in Clients : BrowserStep(c)
  \/ \E b \in Tickets : LapseTicketLock(b) \/ ExpireTicket(b)
  \/ StopMission

BrowserSpec == BrowserInit /\ [][BrowserNext]_browserVars

-----------------------------------------------------------------------------
(* Properties *)

BrowserTypeOK ==
  /\ requests \in
       [Clients -> {None} \cup ConnectRequest \cup LinkRequest \cup TicketRequest \cup ConsumeRequest]
  /\ running \in BOOLEAN
  /\ issued \in [Tickets -> Grant \cup {None}] /\ cached \subseteq Tickets
  /\ ticketLock \in [Tickets -> Clients \cup {None}] /\ opened \in [Tickets -> Seq(Contexts)]

(* What may be used once is used once, however slow the worker that holds its lock in the
   cache: a token is exchanged once with the gateway (ExchangedOnce), and a ticket opens at
   most one session, in the browser context it was issued for (consume).  Requests and
   tickets are of their types. *)
UsedOnce ==
  /\ BrowserTypeOK
  /\ ExchangedOnce
  /\ \A b \in Tickets : opened[b] = <<>> \/ opened[b] = <<issued[b].context>>
=============================================================================
