-------------------------- MODULE IdentitySessions --------------------------
(***************************************************************************)
(* One human's login tickets and sessions: PostgresIdentityRepository      *)
(* (packages/db/src/identity.ts), statement by statement.  Transactions    *)
(* are READ COMMITTED and take no authority locks; what orders them are    *)
(* the row locks of SELECT ... FOR UPDATE and of UPDATE.  A call waits for *)
(* its row, looks again once it has it, and commits what it wrote; other   *)
(* calls, the clock and operators go on between these steps.               *)
(*                                                                         *)
(* Whether the human may choose an organization (membershipAccess), and    *)
(* the tickets of an identity provider, are the subject of Organizations;  *)
(* here a call about an organization may be refused at any time.           *)
(***************************************************************************)
EXTENDS Naturals

CONSTANTS
  Connection,     \* pooled database connections, one call each
  Ticket, Session, Org, None,
  TicketLifetime, Lifetime, IdleTime,     \* ticks
  MaxClock, MaxContext, MaxAuth           \* bounds of a model

ASSUME IdentitySessionsAssumption ==
  /\ None \notin Connection \cup Ticket \cup Session \cup Org
  /\ {TicketLifetime, Lifetime, IdleTime} \subseteq Nat \ {0}
  /\ IdleTime <= Lifetime

VARIABLES
  human,       \* [active, auth_version]
  ticket,      \* [Ticket -> [auth_version, deadline, consumed]], 0: no row
  session,     \* [Session -> row], state "none" where there is no row
  ticketLock,  \* [Ticket -> Connection or None], whose FOR UPDATE holds it
  sessionLock, \* [Session -> Connection or None]
  call,        \* [Connection -> the call it serves]
  contexts,    \* what tenantContext() and selectOrganization() answered
  clock

tables == <<human, ticket, session>>
locks == <<ticketLock, sessionLock>>
vars == <<human, ticket, session, ticketLock, sessionLock, call,
          contexts, clock>>

SessionRow ==
  [state: {"none", "live", "revoked"}, login: Ticket \cup {None},
   auth_version: Nat, org: Org \cup {None}, context_version: Nat,
   expires: Nat, idle: Nat]
Call ==
  [op: {"idle", "login", "read", "select", "context", "rotate"},
   at: {"row", "again", "commit"}, ticket: Ticket \cup {None},
   session: Session \cup {None}, org: Org \cup {None}, version: Nat]
Context == [login: Ticket, version: Nat, org: Org]

NoRow == [state |-> "none", login |-> None, auth_version |-> 0, org |-> None,
          context_version |-> 0, expires |-> 0, idle |-> 0]
Idle == [op |-> "idle", at |-> "row", ticket |-> None, session |-> None,
         org |-> None, version |-> 0]

Init ==
  /\ human = [active |-> TRUE, auth_version |-> 1]
  /\ ticket = [t \in Ticket |->
                 [auth_version |-> 0, deadline |-> 0, consumed |-> FALSE]]
  /\ session = [s \in Session |-> NoRow]
  /\ ticketLock = [t \in Ticket |-> None]
  /\ sessionLock = [s \in Session |-> None]
  /\ call = [c \in Connection |-> Idle]
  /\ contexts = {}
  /\ clock = 0

-----------------------------------------------------------------------------

(* The conditions of consumeTicket() on the ticket row and its human.      *)
Redeemable(t) ==
  /\ ticket[t].auth_version > 0 /\ ~ticket[t].consumed
  /\ clock < ticket[t].deadline
  /\ human.active /\ human.auth_version = ticket[t].auth_version

(* The conditions of lockedSession().                                      *)
Authenticates(s) ==
  /\ session[s].state = "live"
  /\ clock < session[s].expires /\ clock < session[s].idle
  /\ human.active /\ human.auth_version = session[s].auth_version

Earlier(a, b) == IF a < b THEN a ELSE b

(* touch(): idle time starts again, within the absolute lifetime.          *)
Touched(row) == [row EXCEPT !.idle = Earlier(row.expires, clock + IdleTime)]

(* A call of the service reaches a connection.  The version is one the     *)
(* browser was given, if not the latest.                                   *)
Begin(c, new) ==
  /\ call[c] = Idle
  /\ call' = [call EXCEPT ![c] = new]
  /\ UNCHANGED <<tables, locks, contexts, clock>>

BeginLogin(c, t, prior) ==
  Begin(c, [Idle EXCEPT !.op = "login", !.ticket = t, !.session = prior])

BeginSession(c, op, s, org, version) ==
  /\ version <= session[s].context_version
  /\ Begin(c, [Idle EXCEPT !.op = op, !.session = s, !.org = org,
                           !.version = version])

(* The call ends, committed or rolled back: its locks are released.        *)
End(c) ==
  /\ call' = [call EXCEPT ![c] = Idle]
  /\ ticketLock' = [t \in Ticket |->
       IF ticketLock[t] = c THEN None ELSE ticketLock[t]]
  /\ sessionLock' = [s \in Session |->
       IF sessionLock[s] = c THEN None ELSE sessionLock[s]]

Refuse(c) ==
  /\ End(c)
  /\ UNCHANGED <<tables, contexts, clock>>

Goto(c, at) == call' = [call EXCEPT ![c].at = at]

-----------------------------------------------------------------------------
(* consumeTicket().                                                        *)

SessionNeedNotBeFree(s) == TRUE

(* Nobody else's FOR UPDATE or UPDATE holds the row.                       *)
TicketFree(t) == ticketLock[t] = None
SessionFree(s) == sessionLock[s] = None

LockTicket(c) ==
  /\ call[c].op = "login" /\ call[c].at = "row"
  /\ TicketFree(call[c].ticket)
  /\ \/ /\ ~Redeemable(call[c].ticket)
        /\ Refuse(c)
     \/ /\ Redeemable(call[c].ticket)
        /\ ticketLock' = [ticketLock EXCEPT ![call[c].ticket] = c]
        /\ Goto(c, "again")
        /\ UNCHANGED <<tables, sessionLock, contexts, clock>>

LookAtTicketAgain(c) ==
  /\ call[c].op = "login" /\ call[c].at = "again"
  /\ \/ /\ ~Redeemable(call[c].ticket)
        /\ Refuse(c)
     \/ /\ Redeemable(call[c].ticket)
        /\ Goto(c, "commit")
        /\ UNCHANGED <<tables, locks, contexts, clock>>

OpenedAsOfNow(t) ==
  [state |-> "live", login |-> t, auth_version |-> human.auth_version,
   org |-> None, context_version |-> 1, expires |-> clock + Lifetime,
   idle |-> clock + IdleTime]

(* A session lives as its ticket says, whatever became of the human since. *)
OpenedBy(t) ==
  [state |-> "live", login |-> t, auth_version |-> ticket[t].auth_version,
   org |-> None, context_version |-> 1, expires |-> clock + Lifetime,
   idle |-> clock + IdleTime]

(* The prior session's row is revoked too, once nobody else holds it.      *)
CommitLogin(c, s) ==
  LET t == call[c].ticket
      prior == call[c].session IN
  /\ call[c].op = "login" /\ call[c].at = "commit"
  /\ session[s].state = "none"
  /\ prior # None => SessionFree(prior)
  /\ ticket' = [ticket EXCEPT ![t].consumed = TRUE]
  /\ session' = [x \in Session |->
       IF x = s THEN OpenedBy(t)
       ELSE IF x = prior /\ session[x].state = "live"
       THEN [session[x] EXCEPT !.state = "revoked"]
       ELSE session[x]]
  /\ End(c)
  /\ UNCHANGED <<human, contexts, clock>>

-----------------------------------------------------------------------------
(* lockedSession(), and the calls that begin with it.                      *)

LockSession(c) ==
  /\ call[c].op \notin {"idle", "login"} /\ call[c].at = "row"
  /\ SessionFree(call[c].session)
  /\ \/ /\ ~Authenticates(call[c].session)
        /\ Refuse(c)
     \/ /\ Authenticates(call[c].session)
        /\ sessionLock' = [sessionLock EXCEPT ![call[c].session] = c]
        /\ Goto(c, "again")
        /\ UNCHANGED <<tables, ticketLock, contexts, clock>>

LookAtSessionAgain(c) ==
  /\ call[c].op \notin {"idle", "login"} /\ call[c].at = "again"
  /\ \/ /\ ~Authenticates(call[c].session)
        /\ Refuse(c)
     \/ /\ Authenticates(call[c].session)
        /\ Goto(c, "commit")
        /\ UNCHANGED <<tables, locks, contexts, clock>>

Ready(c, op) == call[c].op = op /\ call[c].at = "commit"

ReadSession(c) ==
  /\ Ready(c, "read")
  /\ session' = [session EXCEPT ![call[c].session] = Touched(@)]
  /\ End(c)
  /\ UNCHANGED <<human, ticket, contexts, clock>>

AnyVersion(c) == TRUE
SameVersion(c) ==
  call[c].version = session[call[c].session].context_version

(* The answer is made of what was written, not of the row read before.     *)
Answer(c, version) ==
  [login |-> session[call[c].session].login, version |-> version,
   org |-> call[c].org]

SelectOrganization(c) ==
  /\ Ready(c, "select")
  /\ \/ Refuse(c)
     \/ LET row == session[call[c].session] IN
        /\ SameVersion(c)
        /\ row.context_version < MaxContext
        /\ session' = [session EXCEPT ![call[c].session] =
             Touched([row EXCEPT !.org = call[c].org,
                        !.context_version = row.context_version + 1])]
        /\ contexts' = contexts \cup {Answer(c, row.context_version + 1)}
        /\ End(c)
        /\ UNCHANGED <<human, ticket, clock>>

TenantContext(c) ==
  /\ Ready(c, "context")
  /\ \/ Refuse(c)
     \/ /\ SameVersion(c)
        /\ session[call[c].session].org = call[c].org
        /\ session' = [session EXCEPT ![call[c].session] = Touched(@)]
        /\ contexts' = contexts \cup {Answer(c, call[c].version)}
        /\ End(c)
        /\ UNCHANGED <<human, ticket, clock>>

(* The successor inherits the organization and the absolute expiry.        *)
Successor(row) ==
  Touched([row EXCEPT !.state = "live",
                      !.context_version = row.context_version + 1])

RotateSession(c, s) ==
  /\ Ready(c, "rotate")
  /\ \/ /\ ~SameVersion(c)
        /\ Refuse(c)
     \/ LET old == call[c].session IN
        /\ SameVersion(c)
        /\ session[old].context_version < MaxContext
        /\ session[s].state = "none"
        /\ session' = [session EXCEPT ![old].state = "revoked",
                                      ![s] = Successor(session[old])]
        /\ End(c)
        /\ UNCHANGED <<human, ticket, contexts, clock>>

(* One UPDATE, which waits for the row.                                    *)
RevokeSession(s) ==
  /\ session[s].state = "live" /\ SessionFree(s)
  /\ session' = [session EXCEPT ![s].state = "revoked"]
  /\ UNCHANGED <<human, ticket, locks, call, contexts, clock>>

-----------------------------------------------------------------------------
(* Operators, and time.                                                    *)

IssueTicket(t) ==
  /\ ticket[t].auth_version = 0 /\ human.active
  /\ ticket' = [ticket EXCEPT ![t] =
       [auth_version |-> human.auth_version,
        deadline |-> clock + TicketLifetime, consumed |-> FALSE]]
  /\ UNCHANGED <<human, session, locks, call, contexts, clock>>

SetHumanStatus(active) ==
  /\ human.auth_version < MaxAuth
  /\ human' = [active |-> active, auth_version |-> human.auth_version + 1]
  /\ UNCHANGED <<ticket, session, locks, call, contexts, clock>>

Tick ==
  /\ clock < MaxClock
  /\ clock' = clock + 1
  /\ UNCHANGED <<tables, locks, call, contexts>>

Service(c) ==
  \/ \E t \in Ticket, prior \in Session \cup {None} : BeginLogin(c, t, prior)
  \/ \E s \in Session : BeginSession(c, "read", s, None, 0)
  \/ \E s \in Session, v \in 1 .. MaxContext :
       \/ BeginSession(c, "rotate", s, None, v)
       \/ \E o \in Org : \/ BeginSession(c, "select", s, o, v)
                         \/ BeginSession(c, "context", s, o, v)

Statement(c) ==
  \/ LockTicket(c) \/ LookAtTicketAgain(c)
  \/ LockSession(c) \/ LookAtSessionAgain(c)
  \/ ReadSession(c) \/ SelectOrganization(c) \/ TenantContext(c)
  \/ \E s \in Session : CommitLogin(c, s) \/ RotateSession(c, s)

Environment ==
  \/ \E s \in Session : RevokeSession(s)
  \/ \E t \in Ticket : IssueTicket(t)
  \/ \E active \in BOOLEAN : SetHumanStatus(active)
  \/ Tick

Next == (\E c \in Connection : Service(c) \/ Statement(c)) \/ Environment

Spec == Init /\ [][Next]_vars

-----------------------------------------------------------------------------
(* Properties.                                                             *)

(* Every row, call and answer has values of its type.                      *)
TypeOK ==
  /\ human \in [active: BOOLEAN, auth_version: Nat]
  /\ ticket \in [Ticket ->
                   [auth_version: Nat, deadline: Nat, consumed: BOOLEAN]]
  /\ session \in [Session -> SessionRow]
  /\ ticketLock \in [Ticket -> Connection \cup {None}]
  /\ sessionLock \in [Session -> Connection \cup {None}]
  /\ call \in [Connection -> Call]
  /\ contexts \subseteq Context
  /\ clock \in Nat

(* A ticket buys one session with one life.  However often a login, a      *)
(* rotation or both are sent at once, no two sessions of one login are     *)
(* alive; and however often it is rotated, touched or moved to another     *)
(* organization, a session ends when the first of its line would have.     *)
OneSessionPerLogin ==
  \A s1, s2 \in Session :
    /\ session[s1].state # "none" /\ session[s2].state # "none"
    /\ session[s1].login = session[s2].login
    => /\ session[s1].state = "live" /\ session[s2].state = "live" => s1 = s2
       /\ session[s1].idle <= session[s1].expires /\ session[s1].expires = session[s2].expires

(* Disabling a human ends every session and every ticket of the time       *)
(* before, also those whose login is under way, and enabling the human     *)
(* again revives none (docs/adr/ADR-011-identity-sessions.md).             *)
SessionsDieWithTickets ==
  \A s \in Session : Authenticates(s) =>
    /\ ticket[session[s].login].auth_version = human.auth_version
    /\ ticket[session[s].login].consumed

(* Within one login a context version stands for one organization.  Two    *)
(* windows that were given the same version are in the same organization,  *)
(* so a request made for one never acts in the other.                      *)
VersionMeansOneOrganization ==
  \A a, b \in contexts :
    a.login = b.login /\ a.version = b.version => a.org = b.org
=============================================================================
