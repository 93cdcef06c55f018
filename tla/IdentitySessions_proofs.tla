----------------------- MODULE IdentitySessions_proofs -----------------------
(***************************************************************************)
(* What one human's logins and sessions keep, for any number of tickets,   *)
(* sessions, organizations and connections, any lifetimes and no bound on  *)
(* time or on versions.                                                    *)
(***************************************************************************)
EXTENDS IdentitySessions, TLAPS

SessionOp == {"read", "select", "context", "rotate"}

(* What a call refers to is there: the ticket of a login, the session of   *)
(* any other call, the organization of one about an organization.          *)
CallRefers(c) ==
  /\ call[c].op = "login" => call[c].ticket \in Ticket
  /\ call[c].op \in SessionOp => call[c].session \in Session
  /\ call[c].op \in {"select", "context"} => call[c].org \in Org

Typed == TypeOK /\ \A c \in Connection : CallRefers(c)

(* A call past its first statement still holds its row, and the row is     *)
(* still what a first look has to find.                                    *)
HoldsTicket(c) == call[c].op = "login" /\ call[c].at # "row"
HoldsSession(c) == call[c].op \in SessionOp /\ call[c].at # "row"

HeldRows(c) ==
  /\ HoldsTicket(c) =>
       /\ ticketLock[call[c].ticket] = c
       /\ ticket[call[c].ticket].auth_version > 0
       /\ ~ticket[call[c].ticket].consumed
  /\ HoldsSession(c) =>
       /\ sessionLock[call[c].session] = c
       /\ session[call[c].session].state = "live"

LocksInv == \A c \in Connection : HeldRows(c)

(* A session comes of a ticket that was consumed, and has its version.     *)
RowOfTicket(row, tickets) ==
  /\ row.login \in Ticket
  /\ tickets[row.login].consumed
  /\ row.auth_version = tickets[row.login].auth_version

RowsInv ==
  /\ \A s \in Session :
       session[s].state # "none" => RowOfTicket(session[s], ticket)
  /\ \A t \in Ticket : ticket[t].consumed => ticket[t].auth_version > 0

(* What was answered about a login is of the version its session has now,  *)
(* or an earlier one; and of the organization it has now, if the same.     *)
AnsweredBefore(a, row) ==
  a.login = row.login =>
    /\ a.version <= row.context_version
    /\ a.version = row.context_version => a.org = row.org

ContextsInv ==
  /\ \A a \in contexts : ticket[a.login].consumed
  /\ \A a \in contexts, s \in Session :
       session[s].state = "live" => AnsweredBefore(a, session[s])

IInv ==
  /\ Typed /\ LocksInv /\ RowsInv
  /\ OneSessionPerLogin /\ ContextsInv /\ VersionMeansOneOrganization

-----------------------------------------------------------------------------
(* Parts several steps share.                                              *)

LEMMA IdleIsACall == Idle \in Call
BY DEF Idle, Call

LEMMA EarlierBounds ==
  ASSUME NEW a \in Nat, NEW b \in Nat
  PROVE  Earlier(a, b) \in Nat /\ Earlier(a, b) <= a
BY DEF Earlier

(* touch() changes how long a session may idle, within its life.           *)
LEMMA TouchedRow ==
  ASSUME clock \in Nat, NEW row \in SessionRow
  PROVE  /\ Touched(row) \in SessionRow
         /\ Touched(row).state = row.state
         /\ Touched(row).login = row.login
         /\ Touched(row).auth_version = row.auth_version
         /\ Touched(row).org = row.org
         /\ Touched(row).context_version = row.context_version
         /\ Touched(row).expires = row.expires
         /\ Touched(row).idle <= row.expires
<1>1. row.expires \in Nat /\ clock + IdleTime \in Nat
  BY IdentitySessionsAssumption DEF SessionRow
<1>2. Earlier(row.expires, clock + IdleTime) \in Nat
      /\ Earlier(row.expires, clock + IdleTime) <= row.expires
  BY <1>1, EarlierBounds
<1> QED
  BY <1>2 DEF Touched, SessionRow

(* The end of a call leaves the calls and locks of the others.             *)
LEMMA EndOfCall ==
  ASSUME Typed, NEW c \in Connection, End(c)
  PROVE  /\ call' \in [Connection -> Call]
         /\ ticketLock' \in [Ticket -> Connection \cup {None}]
         /\ sessionLock' \in [Session -> Connection \cup {None}]
         /\ call'[c] = Idle
         /\ \A d \in Connection \ {c} : call'[d] = call[d]
         /\ \A t \in Ticket : ticketLock[t] # c => ticketLock'[t] = ticketLock[t]
         /\ \A s \in Session : sessionLock[s] # c => sessionLock'[s] = sessionLock[s]
BY IdleIsACall DEF Typed, TypeOK, End

(* A call that goes on is the same call.                                   *)
LEMMA GoesOn ==
  ASSUME Typed, NEW c \in Connection, NEW at \in {"row", "again", "commit"},
         Goto(c, at)
  PROVE  /\ call' \in [Connection -> Call]
         /\ call'[c].at = at
         /\ call'[c].op = call[c].op
         /\ call'[c].ticket = call[c].ticket
         /\ call'[c].session = call[c].session
         /\ call'[c].org = call[c].org
         /\ \A d \in Connection \ {c} : call'[d] = call[d]
BY DEF Typed, TypeOK, Goto, Call

(* The new session of a login.                                             *)
LEMMA OpenedRow ==
  ASSUME Typed, NEW t \in Ticket
  PROVE  /\ OpenedBy(t) \in SessionRow
         /\ OpenedBy(t).state = "live"
         /\ OpenedBy(t).login = t
         /\ OpenedBy(t).auth_version = ticket[t].auth_version
         /\ OpenedBy(t).idle <= OpenedBy(t).expires
BY IdentitySessionsAssumption DEF Typed, TypeOK, OpenedBy, SessionRow

(* The row that follows a rotated one.                                     *)
LEMMA SuccessorRow ==
  ASSUME clock \in Nat, NEW row \in SessionRow
  PROVE  /\ Successor(row) \in SessionRow
         /\ Successor(row).state = "live"
         /\ Successor(row).login = row.login
         /\ Successor(row).auth_version = row.auth_version
         /\ Successor(row).org = row.org
         /\ Successor(row).context_version = row.context_version + 1
         /\ Successor(row).expires = row.expires
         /\ Successor(row).idle <= row.expires
<1> DEFINE next == [row EXCEPT !.state = "live",
                               !.context_version = row.context_version + 1]
<1>0. row.context_version + 1 \in Nat
  BY DEF SessionRow
<1>1. next \in SessionRow
  BY <1>0 DEF SessionRow
<1>2. /\ next.state = "live" /\ next.login = row.login
      /\ next.auth_version = row.auth_version /\ next.org = row.org
      /\ next.context_version = row.context_version + 1
      /\ next.expires = row.expires
  BY DEF SessionRow
<1>3. Successor(row) = Touched(next)
  BY DEF Successor
<1> HIDE DEF next
<1> QED
  BY <1>1, <1>2, <1>3, TouchedRow

(* The row of a session that was moved to organization o.                  *)
LEMMA MovedRow ==
  ASSUME clock \in Nat, NEW row \in SessionRow, NEW o \in Org
  PROVE  LET moved == Touched([row EXCEPT !.org = o,
                                 !.context_version = row.context_version + 1])
         IN  /\ moved \in SessionRow
             /\ moved.state = row.state
             /\ moved.login = row.login
             /\ moved.auth_version = row.auth_version
             /\ moved.org = o
             /\ moved.context_version = row.context_version + 1
             /\ moved.expires = row.expires
             /\ moved.idle <= row.expires
<1> DEFINE next == [row EXCEPT !.org = o,
                               !.context_version = row.context_version + 1]
<1>0. row.context_version + 1 \in Nat
  BY DEF SessionRow
<1>1. next \in SessionRow
  BY <1>0 DEF SessionRow
<1>2. /\ next.state = row.state /\ next.login = row.login
      /\ next.auth_version = row.auth_version /\ next.org = o
      /\ next.context_version = row.context_version + 1
      /\ next.expires = row.expires
  BY DEF SessionRow
<1> HIDE DEF next
<1>3. LET moved == Touched(next)
      IN  /\ moved \in SessionRow
             /\ moved.state = row.state
             /\ moved.login = row.login
             /\ moved.auth_version = row.auth_version
             /\ moved.org = o
             /\ moved.context_version = row.context_version + 1
             /\ moved.expires = row.expires
             /\ moved.idle <= row.expires
  BY <1>1, <1>2, TouchedRow
<1> QED
  BY <1>3 DEF next

-----------------------------------------------------------------------------
(* Types.                                                                  *)

LEMMA TypedInit == Init => Typed
BY IdleIsACall DEF Init, Typed, TypeOK, CallRefers, NoRow, SessionRow, Idle,
   SessionOp

(* A call that ends refers to nothing any more.                            *)
LEMMA RefersAfterEnd ==
  ASSUME Typed, NEW c \in Connection, End(c)
  PROVE  \A d \in Connection : CallRefers(d)'
<1> SUFFICES ASSUME NEW d \in Connection PROVE CallRefers(d)'
  OBVIOUS
<1>1. CASE d = c
  BY <1>1, EndOfCall DEF CallRefers, Idle, SessionOp
<1>2. CASE d # c
  BY <1>2, EndOfCall DEF CallRefers, Typed
<1> QED
  BY <1>1, <1>2

LEMMA RefersWhenGoingOn ==
  ASSUME Typed, NEW c \in Connection, NEW at \in {"row", "again", "commit"},
         Goto(c, at)
  PROVE  \A d \in Connection : CallRefers(d)'
<1> SUFFICES ASSUME NEW d \in Connection PROVE CallRefers(d)'
  OBVIOUS
<1>1. CASE d = c
  BY <1>1, GoesOn DEF CallRefers, Typed
<1>2. CASE d # c
  BY <1>2, GoesOn DEF CallRefers, Typed
<1> QED
  BY <1>1, <1>2

LEMMA TypedRefuse ==
  ASSUME Typed, NEW c \in Connection, Refuse(c)
  PROVE  Typed'
<1>1. End(c)
  BY DEF Refuse
<1> QED
  BY <1>1, EndOfCall, RefersAfterEnd DEF Refuse, tables, Typed, TypeOK

(* A call with what it refers to begins.                                   *)
LEMMA TypedBegin ==
  ASSUME Typed, NEW c \in Connection, NEW new \in Call, Begin(c, new),
         new.op = "login" => new.ticket \in Ticket,
         new.op \in SessionOp => new.session \in Session,
         new.op \in {"select", "context"} => new.org \in Org
  PROVE  Typed'
<1>1. call' \in [Connection -> Call]
  BY DEF Begin, Typed, TypeOK
<1>2. call'[c] = new /\ \A d \in Connection \ {c} : call'[d] = call[d]
  BY DEF Begin, Typed, TypeOK
<1>3. \A d \in Connection : CallRefers(d)'
  BY <1>2 DEF CallRefers, Typed
<1> QED
  BY <1>1, <1>3 DEF Begin, tables, locks, Typed, TypeOK

LEMMA TypedService ==
  ASSUME Typed, NEW c \in Connection, Service(c)
  PROVE  Typed'
<1>1. ASSUME NEW t \in Ticket, NEW prior \in Session \cup {None},
             BeginLogin(c, t, prior)
      PROVE  Typed'
  <2> DEFINE new == [Idle EXCEPT !.op = "login", !.ticket = t,
                                 !.session = prior]
  <2>1. new \in Call /\ new.op = "login" /\ new.ticket = t
    BY DEF Idle, Call
  <2>2. Begin(c, new)
    BY <1>1 DEF BeginLogin
  <2> HIDE DEF new
  <2> QED
    BY <2>1, <2>2, TypedBegin DEF SessionOp
<1>2. ASSUME NEW op \in SessionOp, NEW s \in Session, NEW o \in Org \cup {None},
             NEW v \in Nat, BeginSession(c, op, s, o, v),
             op \in {"select", "context"} => o \in Org
      PROVE  Typed'
  <2> DEFINE new == [Idle EXCEPT !.op = op, !.session = s, !.org = o,
                                 !.version = v]
  <2>1. new \in Call /\ new.op = op /\ new.session = s /\ new.org = o
    BY DEF Idle, Call, SessionOp
  <2>2. Begin(c, new)
    BY <1>2 DEF BeginSession
  <2>3. op # "login"
    BY DEF SessionOp
  <2> HIDE DEF new
  <2> QED
    BY <1>2, <2>1, <2>2, <2>3, TypedBegin
<1>3. "read" \in SessionOp /\ "rotate" \in SessionOp
      /\ "select" \in SessionOp /\ "context" \in SessionOp
  BY DEF SessionOp
<1>4. \A v \in 1 .. MaxContext : v \in Nat
  OBVIOUS
<1>5. 0 \in Nat
  OBVIOUS
<1> QED
  BY <1>1, <1>2, <1>3, <1>4, <1>5, Zenon DEF Service

(* A statement about a session refers to one, and it is a row of its type. *)
LEMMA ReadyRefers ==
  ASSUME Typed, NEW c \in Connection, NEW op \in SessionOp, Ready(c, op)
  PROVE  /\ call[c].session \in Session
         /\ session[call[c].session] \in SessionRow
         /\ op \in {"select", "context"} => call[c].org \in Org
BY DEF Typed, TypeOK, CallRefers, Ready

LEMMA TypedAnswer ==
  ASSUME Typed, RowsInv, NEW c \in Connection, NEW op \in {"select", "context"},
         Ready(c, op), session[call[c].session].state # "none",
         NEW v \in Nat
  PROVE  Answer(c, v) \in Context
<1>1. op \in SessionOp
  BY DEF SessionOp
<1>2. call[c].session \in Session /\ call[c].org \in Org
  BY <1>1, ReadyRefers
<1> QED
  BY <1>2 DEF Answer, Context, RowsInv, RowOfTicket

(* Who has looked twice at a session holds it, and it is alive.            *)
LEMMA ReadyHolds ==
  ASSUME Typed, LocksInv, NEW c \in Connection, NEW op \in SessionOp,
         Ready(c, op)
  PROVE  /\ sessionLock[call[c].session] = c
         /\ session[call[c].session].state = "live"
BY DEF LocksInv, HeldRows, HoldsSession, Ready

LEMMA TypedStatement ==
  ASSUME Typed, LocksInv, RowsInv, NEW c \in Connection, Statement(c)
  PROVE  Typed'
<1>1. CASE LockTicket(c)
  <2>1. CASE Refuse(c)
    BY <2>1, TypedRefuse
  <2>2. CASE ~Refuse(c)
    <3>1. call[c].ticket \in Ticket
      BY <1>1 DEF LockTicket, Typed, CallRefers
    <3>2. Goto(c, "again") /\ UNCHANGED <<tables, sessionLock, contexts, clock>>
          /\ ticketLock' = [ticketLock EXCEPT ![call[c].ticket] = c]
      BY <1>1, <2>2 DEF LockTicket
    <3> QED
      BY <3>1, <3>2, GoesOn, RefersWhenGoingOn DEF Typed, TypeOK, tables
  <2> QED
    BY <2>1, <2>2
<1>2. CASE LookAtTicketAgain(c)
  <2>1. CASE Refuse(c)
    BY <2>1, TypedRefuse
  <2>2. CASE Goto(c, "commit") /\ UNCHANGED <<tables, locks, contexts, clock>>
    BY <2>2, GoesOn, RefersWhenGoingOn DEF Typed, TypeOK, tables, locks
  <2> QED
    BY <1>2, <2>1, <2>2 DEF LookAtTicketAgain
<1>3. CASE LockSession(c)
  <2>1. CASE Refuse(c)
    BY <2>1, TypedRefuse
  <2>2. CASE ~Refuse(c)
    <3>1. call[c].session \in Session
      BY <1>3 DEF LockSession, Typed, TypeOK, CallRefers, Call, SessionOp
    <3>2. Goto(c, "again") /\ UNCHANGED <<tables, ticketLock, contexts, clock>>
          /\ sessionLock' = [sessionLock EXCEPT ![call[c].session] = c]
      BY <1>3, <2>2 DEF LockSession
    <3> QED
      BY <3>1, <3>2, GoesOn, RefersWhenGoingOn DEF Typed, TypeOK, tables
  <2> QED
    BY <2>1, <2>2
<1>4. CASE LookAtSessionAgain(c)
  <2>1. CASE Refuse(c)
    BY <2>1, TypedRefuse
  <2>2. CASE Goto(c, "commit") /\ UNCHANGED <<tables, locks, contexts, clock>>
    BY <2>2, GoesOn, RefersWhenGoingOn DEF Typed, TypeOK, tables, locks
  <2> QED
    BY <1>4, <2>1, <2>2 DEF LookAtSessionAgain
<1>5. CASE ReadSession(c)
  <2>1. End(c) /\ Ready(c, "read") /\ "read" \in SessionOp
    BY <1>5 DEF ReadSession, SessionOp
  <2>2. Touched(session[call[c].session]) \in SessionRow
    BY <2>1, ReadyRefers, TouchedRow DEF Typed, TypeOK
  <2> QED
    BY <1>5, <2>1, <2>2, EndOfCall, RefersAfterEnd DEF ReadSession, Typed, TypeOK
<1>6. CASE SelectOrganization(c)
  <2>1. CASE Refuse(c)
    BY <2>1, TypedRefuse
  <2>2. CASE ~Refuse(c)
    <3> DEFINE row == session[call[c].session]
               moved == Touched([row EXCEPT !.org = call[c].org,
                                   !.context_version = row.context_version + 1])
    <3>1. End(c) /\ Ready(c, "select") /\ "select" \in SessionOp
      BY <1>6, <2>2 DEF SelectOrganization, SessionOp
    <3>2. row \in SessionRow /\ call[c].org \in Org /\ clock \in Nat
      BY <3>1, ReadyRefers DEF Typed, TypeOK
    <3>3. moved \in SessionRow
      BY <3>2, MovedRow
    <3>4. row.context_version + 1 \in Nat
      BY <3>2 DEF SessionRow
    <3>5. Answer(c, row.context_version + 1) \in Context
      BY <3>1, <3>4, ReadyHolds, TypedAnswer
    <3>6. /\ session' = [session EXCEPT ![call[c].session] = moved]
          /\ contexts' = contexts \cup {Answer(c, row.context_version + 1)}
          /\ UNCHANGED <<human, ticket, clock>>
      BY <1>6, <2>2 DEF SelectOrganization
    <3> HIDE DEF moved, row
    <3> QED
      BY <3>1, <3>3, <3>5, <3>6, EndOfCall, RefersAfterEnd DEF Typed, TypeOK
  <2> QED
    BY <2>1, <2>2
<1>7. CASE TenantContext(c)
  <2>1. CASE Refuse(c)
    BY <2>1, TypedRefuse
  <2>2. CASE ~Refuse(c)
    <3>1. End(c) /\ Ready(c, "context") /\ "context" \in SessionOp
      BY <1>7, <2>2 DEF TenantContext, SessionOp
    <3>2. Touched(session[call[c].session]) \in SessionRow
      BY <3>1, ReadyRefers, TouchedRow DEF Typed, TypeOK
    <3>3. call[c].version \in Nat
      BY DEF Typed, TypeOK, Call
    <3>4. Answer(c, call[c].version) \in Context
      BY <3>1, <3>3, ReadyHolds, TypedAnswer
    <3> QED
      BY <1>7, <2>2, <3>1, <3>2, <3>4, EndOfCall, RefersAfterEnd
         DEF TenantContext, Typed, TypeOK
  <2> QED
    BY <2>1, <2>2
<1>8. ASSUME NEW s \in Session, CommitLogin(c, s)
      PROVE  Typed'
  <2>1. End(c) /\ call[c].ticket \in Ticket
    BY <1>8 DEF CommitLogin, Typed, CallRefers
  <2>2. OpenedBy(call[c].ticket) \in SessionRow
    BY <2>1, OpenedRow
  <2>3. \A x \in Session : [session[x] EXCEPT !.state = "revoked"] \in SessionRow
    BY DEF Typed, TypeOK, SessionRow
  <2>4. session' \in [Session -> SessionRow]
    BY <1>8, <2>2, <2>3 DEF CommitLogin, Typed, TypeOK
  <2>5. ticket' \in [Ticket -> [auth_version: Nat, deadline: Nat,
                                consumed: BOOLEAN]]
    BY <1>8, <2>1 DEF CommitLogin, Typed, TypeOK
  <2> QED
    BY <1>8, <2>1, <2>4, <2>5, EndOfCall, RefersAfterEnd
       DEF CommitLogin, Typed, TypeOK
<1>9. ASSUME NEW s \in Session, RotateSession(c, s)
      PROVE  Typed'
  <2>1. CASE Refuse(c)
    BY <2>1, TypedRefuse
  <2>2. CASE ~Refuse(c)
    <3> DEFINE old == call[c].session
    <3>1. End(c) /\ Ready(c, "rotate") /\ "rotate" \in SessionOp
      BY <1>9, <2>2 DEF RotateSession, SessionOp
    <3>2. old \in Session /\ session[old] \in SessionRow
      BY <3>1, ReadyRefers
    <3>3. Successor(session[old]) \in SessionRow
      BY <3>2, SuccessorRow DEF Typed, TypeOK
    <3>4. [session[old] EXCEPT !.state = "revoked"] \in SessionRow
      BY <3>2 DEF SessionRow
    <3>5. session' \in [Session -> SessionRow]
      BY <1>9, <2>2, <3>2, <3>3, <3>4 DEF RotateSession, Typed, TypeOK
    <3> QED
      BY <1>9, <2>2, <3>1, <3>5, EndOfCall, RefersAfterEnd
         DEF RotateSession, Typed, TypeOK
  <2> QED
    BY <2>1, <2>2
<1> QED
  BY <1>1, <1>2, <1>3, <1>4, <1>5, <1>6, <1>7, <1>8, <1>9 DEF Statement

LEMMA TypedEnvironment ==
  ASSUME Typed, Environment
  PROVE  Typed'
<1>0. UNCHANGED call => \A c \in Connection : CallRefers(c)'
  BY DEF Typed, CallRefers
<1>1. ASSUME NEW s \in Session, RevokeSession(s)
      PROVE  Typed'
  <2>1. [session[s] EXCEPT !.state = "revoked"] \in SessionRow
    BY DEF Typed, TypeOK, SessionRow
  <2> QED
    BY <1>0, <1>1, <2>1 DEF RevokeSession, locks, Typed, TypeOK
<1>2. ASSUME NEW t \in Ticket, IssueTicket(t)
      PROVE  Typed'
  BY <1>0, <1>2, IdentitySessionsAssumption
     DEF IssueTicket, locks, Typed, TypeOK
<1>3. ASSUME NEW active \in BOOLEAN, SetHumanStatus(active)
      PROVE  Typed'
  BY <1>0, <1>3 DEF SetHumanStatus, locks, Typed, TypeOK
<1>4. CASE Tick
  BY <1>0, <1>4 DEF Tick, tables, locks, Typed, TypeOK
<1> QED
  BY <1>1, <1>2, <1>3, <1>4 DEF Environment

(* Every step keeps every row, call and answer well typed.                 *)
LEMMA TypedStep == Typed /\ LocksInv /\ RowsInv /\ [Next]_vars => Typed'
<1> SUFFICES ASSUME Typed, LocksInv, RowsInv, [Next]_vars PROVE Typed'
  OBVIOUS
<1>1. CASE UNCHANGED vars
  BY <1>1 DEF vars, Typed, TypeOK, CallRefers
<1> QED
  BY <1>1, TypedService, TypedStatement, TypedEnvironment DEF Next

-----------------------------------------------------------------------------
(* Row locks.                                                              *)

LEMMA LocksInit == Init => LocksInv
<1>1. Idle.op = "idle" /\ "idle" \notin SessionOp
  BY DEF Idle, SessionOp
<1>2. Init => \A c \in Connection : call[c] = Idle
  BY DEF Init
<1> QED
  BY <1>1, <1>2 DEF LocksInv, HeldRows, HoldsTicket, HoldsSession

(* The end of a call leaves the others their locks; what they hold must    *)
(* not be changed by what the call wrote.                                  *)
LEMMA OthersHold ==
  ASSUME Typed, LocksInv, NEW c \in Connection, End(c),
         \A d \in Connection \ {c} : HoldsTicket(d) =>
           ticket'[call[d].ticket] = ticket[call[d].ticket],
         \A d \in Connection \ {c} : HoldsSession(d) =>
           session'[call[d].session].state = "live"
  PROVE  LocksInv'
<1> SUFFICES ASSUME NEW d \in Connection PROVE HeldRows(d)'
  BY DEF LocksInv
<1>1. CASE d = c
  BY <1>1, EndOfCall DEF HeldRows, HoldsTicket, HoldsSession, Idle
<1>2. CASE d # c
  <2>1. call'[d] = call[d]
    BY <1>2, EndOfCall
  <2>2. HoldsTicket(d) => ticketLock'[call[d].ticket] = d
    BY <1>2, EndOfCall DEF LocksInv, HeldRows, HoldsTicket, Typed, CallRefers
  <2>3. HoldsSession(d) => sessionLock'[call[d].session] = d
    BY <1>2, EndOfCall DEF LocksInv, HeldRows, HoldsSession, Typed, CallRefers
  <2> QED
    BY <1>2, <2>1, <2>2, <2>3 DEF LocksInv, HeldRows, HoldsTicket, HoldsSession
<1> QED
  BY <1>1, <1>2

LEMMA LocksRefuse ==
  ASSUME Typed, LocksInv, NEW c \in Connection, Refuse(c)
  PROVE  LocksInv'
<1>1. End(c) /\ UNCHANGED tables
  BY DEF Refuse
<1>2. \A d \in Connection : HoldsSession(d) => session[call[d].session].state = "live"
  BY DEF LocksInv, HeldRows
<1> QED
  BY <1>1, <1>2, OthersHold DEF tables

(* A row is held by one call at a time.                                    *)
LEMMA HeldByOne ==
  ASSUME Typed, LocksInv, NEW c \in Connection, NEW d \in Connection, d # c
  PROVE  /\ HoldsTicket(c) /\ HoldsTicket(d) => call[c].ticket # call[d].ticket
         /\ HoldsSession(c) /\ HoldsSession(d) =>
              call[c].session # call[d].session
         /\ HoldsSession(d) => /\ ~SessionFree(call[d].session)
                               /\ session[call[d].session].state = "live"
BY IdentitySessionsAssumption DEF LocksInv, HeldRows, SessionFree

LEMMA LocksStatement ==
  ASSUME Typed, LocksInv, NEW c \in Connection, Statement(c)
  PROVE  LocksInv'
<1>0. \A d \in Connection : HoldsSession(d) =>
        /\ call[d].session \in Session
        /\ session[call[d].session].state = "live"
  BY DEF LocksInv, HeldRows, HoldsSession, Typed, CallRefers
<1>1. CASE LockTicket(c)
  <2>1. CASE Refuse(c)
    BY <2>1, LocksRefuse
  <2>2. CASE ~Refuse(c)
    <3>1. call[c].ticket \in Ticket /\ TicketFree(call[c].ticket)
      BY <1>1 DEF LockTicket, Typed, CallRefers
    <3>2. /\ Goto(c, "again") /\ UNCHANGED <<tables, sessionLock>>
          /\ ticketLock' = [ticketLock EXCEPT ![call[c].ticket] = c]
          /\ Redeemable(call[c].ticket)
      BY <1>1, <2>2 DEF LockTicket
    <3> SUFFICES ASSUME NEW d \in Connection PROVE HeldRows(d)'
      BY DEF LocksInv
    <3>3. CASE d = c
      <4>1. ~HoldsSession(c)'
        BY <1>1, <3>2, GoesOn DEF LockTicket, HoldsSession, SessionOp
      <4>2. ticketLock'[call[c].ticket] = c
        BY <3>1, <3>2 DEF Typed, TypeOK
      <4> QED
        BY <3>2, <3>3, <4>1, <4>2, GoesOn DEF HeldRows, Redeemable, tables
    <3>4. CASE d # c
      <4>1. call'[d] = call[d]
        BY <3>2, <3>4, GoesOn
      <4>2. HoldsTicket(d) => ticketLock'[call[d].ticket] = d
        BY <3>1, <3>2, IdentitySessionsAssumption
           DEF TicketFree, LocksInv, HeldRows, HoldsTicket, Typed, TypeOK,
               CallRefers
      <4> QED
        BY <3>2, <4>1, <4>2 DEF LocksInv, HeldRows, HoldsTicket, HoldsSession,
           tables
    <3> QED
      BY <3>3, <3>4
  <2> QED
    BY <2>1, <2>2
<1>2. CASE LookAtTicketAgain(c)
  <2>1. CASE Refuse(c)
    BY <2>1, LocksRefuse
  <2>2. CASE Goto(c, "commit") /\ UNCHANGED <<tables, locks, contexts, clock>>
    BY <1>2, <2>2, GoesOn DEF LookAtTicketAgain, LocksInv, HeldRows,
       HoldsTicket, HoldsSession, SessionOp, tables, locks
  <2> QED
    BY <1>2, <2>1, <2>2 DEF LookAtTicketAgain
<1>3. CASE LockSession(c)
  <2>1. CASE Refuse(c)
    BY <2>1, LocksRefuse
  <2>2. CASE ~Refuse(c)
    <3>1. call[c].session \in Session /\ SessionFree(call[c].session)
      BY <1>3 DEF LockSession, Typed, TypeOK, CallRefers, Call, SessionOp
    <3>2. /\ Goto(c, "again") /\ UNCHANGED <<tables, ticketLock>>
          /\ sessionLock' = [sessionLock EXCEPT ![call[c].session] = c]
          /\ Authenticates(call[c].session)
      BY <1>3, <2>2 DEF LockSession
    <3> SUFFICES ASSUME NEW d \in Connection PROVE HeldRows(d)'
      BY DEF LocksInv
    <3>3. CASE d = c
      <4>1. ~HoldsTicket(c)'
        BY <1>3, <3>2, GoesOn DEF LockSession, HoldsTicket
      <4>2. sessionLock'[call[c].session] = c
        BY <3>1, <3>2 DEF Typed, TypeOK
      <4> QED
        BY <3>2, <3>3, <4>1, <4>2, GoesOn DEF HeldRows, Authenticates, tables
    <3>4. CASE d # c
      <4>1. call'[d] = call[d]
        BY <3>2, <3>4, GoesOn
      <4>2. HoldsSession(d) => sessionLock'[call[d].session] = d
        BY <3>1, <3>2, IdentitySessionsAssumption
           DEF SessionFree, LocksInv, HeldRows, HoldsSession, Typed, TypeOK,
               CallRefers
      <4> QED
        BY <3>2, <4>1, <4>2 DEF LocksInv, HeldRows, HoldsTicket, HoldsSession,
           tables
    <3> QED
      BY <3>3, <3>4
  <2> QED
    BY <2>1, <2>2
<1>4. CASE LookAtSessionAgain(c)
  <2>1. CASE Refuse(c)
    BY <2>1, LocksRefuse
  <2>2. CASE Goto(c, "commit") /\ UNCHANGED <<tables, locks, contexts, clock>>
    BY <1>4, <2>2, GoesOn DEF LookAtSessionAgain, LocksInv, HeldRows,
       HoldsTicket, HoldsSession, SessionOp, tables, locks
  <2> QED
    BY <1>4, <2>1, <2>2 DEF LookAtSessionAgain
<1>5. ASSUME NEW op \in SessionOp, NEW row \in SessionRow, Ready(c, op), End(c),
             session' = [session EXCEPT ![call[c].session] = row],
             row.state = session[call[c].session].state, UNCHANGED ticket
      PROVE  LocksInv'
  <2>1. call[c].session \in Session
    BY <1>5, ReadyRefers
  <2>2. \A d \in Connection : HoldsSession(d) =>
          session'[call[d].session].state = "live"
    BY <1>0, <1>5, <2>1 DEF Typed, TypeOK
  <2> QED
    BY <1>5, <2>2, OthersHold
<1>6. CASE ReadSession(c)
  <2>1. "read" \in SessionOp /\ Ready(c, "read")
    BY <1>6 DEF ReadSession, SessionOp
  <2>2. /\ Touched(session[call[c].session]) \in SessionRow
        /\ Touched(session[call[c].session]).state
             = session[call[c].session].state
    BY <2>1, ReadyRefers, TouchedRow DEF Typed, TypeOK
  <2>3. session' = [session EXCEPT ![call[c].session] =
                      Touched(session[call[c].session])]
    BY <1>6 DEF ReadSession
  <2> QED
    BY <1>5, <1>6, <2>1, <2>2, <2>3 DEF ReadSession
<1>7. CASE SelectOrganization(c)
  <2>1. CASE Refuse(c)
    BY <2>1, LocksRefuse
  <2>2. CASE ~Refuse(c)
    <3> DEFINE row == session[call[c].session]
               moved == Touched([row EXCEPT !.org = call[c].org,
                                   !.context_version = row.context_version + 1])
    <3>1. "select" \in SessionOp /\ Ready(c, "select")
      BY <1>7 DEF SelectOrganization, SessionOp
    <3>2. moved \in SessionRow /\ moved.state = row.state
      BY <3>1, ReadyRefers, MovedRow DEF Typed, TypeOK
    <3>3. /\ session' = [session EXCEPT ![call[c].session] = moved]
          /\ End(c) /\ UNCHANGED ticket
      BY <1>7, <2>2 DEF SelectOrganization
    <3> QED
      BY <1>5, <3>1, <3>2, <3>3
  <2> QED
    BY <2>1, <2>2
<1>8. CASE TenantContext(c)
  <2>1. CASE Refuse(c)
    BY <2>1, LocksRefuse
  <2>2. CASE ~Refuse(c)
    <3>1. "context" \in SessionOp /\ Ready(c, "context")
      BY <1>8 DEF TenantContext, SessionOp
    <3>2. /\ Touched(session[call[c].session]) \in SessionRow
          /\ Touched(session[call[c].session]).state
               = session[call[c].session].state
      BY <3>1, ReadyRefers, TouchedRow DEF Typed, TypeOK
    <3>3. /\ session' = [session EXCEPT ![call[c].session] =
                           Touched(session[call[c].session])]
          /\ End(c) /\ UNCHANGED ticket
      BY <1>8, <2>2 DEF TenantContext
    <3> QED
      BY <1>5, <3>1, <3>2, <3>3
  <2> QED
    BY <2>1, <2>2
<1>9. ASSUME NEW s \in Session, CommitLogin(c, s)
      PROVE  LocksInv'
  <2>1. HoldsTicket(c) /\ End(c)
    BY <1>9 DEF CommitLogin, HoldsTicket
  <2>2. ASSUME NEW d \in Connection \ {c}, HoldsTicket(d)
        PROVE  ticket'[call[d].ticket] = ticket[call[d].ticket]
    BY <1>9, <2>1, <2>2, HeldByOne DEF CommitLogin, Typed, TypeOK
  <2>3. ASSUME NEW d \in Connection \ {c}, HoldsSession(d)
        PROVE  session'[call[d].session].state = "live"
    <3> DEFINE x == call[d].session
    <3>1. x \in Session /\ session[x].state = "live" /\ ~SessionFree(x)
      BY <1>0, <2>3, HeldByOne
    <3>2. x # s
      BY <1>9, <3>1 DEF CommitLogin
    <3>3. x # call[c].session
      BY <1>9, <3>1, IdentitySessionsAssumption DEF CommitLogin
    <3>4. session'[x] = session[x]
      BY <1>9, <3>1, <3>2, <3>3 DEF CommitLogin
    <3> QED
      BY <3>1, <3>4
  <2> QED
    BY <2>1, <2>2, <2>3, OthersHold
<1>10. ASSUME NEW s \in Session, RotateSession(c, s)
       PROVE  LocksInv'
  <2>1. CASE Refuse(c)
    BY <2>1, LocksRefuse
  <2>2. CASE ~Refuse(c)
    <3>1. "rotate" \in SessionOp /\ Ready(c, "rotate") /\ End(c)
          /\ UNCHANGED ticket
      BY <1>10, <2>2 DEF RotateSession, SessionOp
    <3>2. HoldsSession(c)
      BY <3>1 DEF HoldsSession, Ready
    <3>3. ASSUME NEW d \in Connection \ {c}, HoldsSession(d)
          PROVE  session'[call[d].session].state = "live"
      <4> DEFINE x == call[d].session
      <4>1. x \in Session /\ session[x].state = "live"
        BY <1>0, <3>3
      <4>2. x # s
        BY <1>10, <2>2, <4>1 DEF RotateSession
      <4>3. x # call[c].session
        BY <3>2, <3>3, HeldByOne
      <4>4. session'[x] = session[x]
        BY <1>10, <2>2, <4>1, <4>2, <4>3 DEF RotateSession, Typed, TypeOK
      <4> QED
        BY <4>1, <4>4
    <3> QED
      BY <3>1, <3>3, OthersHold
  <2> QED
    BY <2>1, <2>2
<1> QED
  BY <1>1, <1>2, <1>3, <1>4, <1>6, <1>7, <1>8, <1>9, <1>10 DEF Statement

LEMMA LocksService ==
  ASSUME Typed, LocksInv, NEW c \in Connection, Service(c)
  PROVE  LocksInv'
<1>1. PICK new : Begin(c, new) /\ new.at = "row"
  <2>1. \A t, prior :
          [Idle EXCEPT !.op = "login", !.ticket = t, !.session = prior].at = "row"
    BY DEF Idle
  <2>2. \A op, s, o, v :
          [Idle EXCEPT !.op = op, !.session = s, !.org = o, !.version = v].at
            = "row"
    BY DEF Idle
  <2>3. \/ \E t, prior : BeginLogin(c, t, prior)
        \/ \E op, s, o, v : BeginSession(c, op, s, o, v)
    BY Zenon DEF Service
  <2>4. CASE \E t, prior : BeginLogin(c, t, prior)
    BY <2>1, <2>4, Zenon DEF BeginLogin
  <2>5. CASE \E op, s, o, v : BeginSession(c, op, s, o, v)
    <3>1. PICK op, s, o, v : BeginSession(c, op, s, o, v)
      BY <2>5
    <3> DEFINE new == [Idle EXCEPT !.op = op, !.session = s, !.org = o,
                                   !.version = v]
    <3>2. Begin(c, new)
      BY <3>1 DEF BeginSession
    <3>3. new.at = "row"
      BY <2>2
    <3> HIDE DEF new
    <3> QED
      BY <3>2, <3>3
  <2> QED
    BY <2>3, <2>4, <2>5
<1>2. call'[c] = new /\ \A d \in Connection \ {c} : call'[d] = call[d]
  BY <1>1 DEF Begin, Typed, TypeOK
<1> SUFFICES ASSUME NEW d \in Connection PROVE HeldRows(d)'
  BY DEF LocksInv
<1>3. CASE d = c
  BY <1>1, <1>2, <1>3 DEF HeldRows, HoldsTicket, HoldsSession
<1>4. CASE d # c
  BY <1>1, <1>2, <1>4 DEF Begin, tables, locks, LocksInv, HeldRows,
     HoldsTicket, HoldsSession
<1> QED
  BY <1>3, <1>4

LEMMA LocksEnvironment ==
  ASSUME Typed, LocksInv, Environment
  PROVE  LocksInv'
<1>1. ASSUME NEW s \in Session, RevokeSession(s)
      PROVE  LocksInv'
  <2>1. \A d \in Connection : HoldsSession(d) => call[d].session # s
    BY <1>1, IdentitySessionsAssumption DEF RevokeSession, SessionFree,
       LocksInv, HeldRows
  <2> QED
    BY <1>1, <2>1 DEF RevokeSession, locks, LocksInv, HeldRows, HoldsTicket,
       HoldsSession, Typed, TypeOK
<1>2. ASSUME NEW t \in Ticket, IssueTicket(t)
      PROVE  LocksInv'
  <2>1. \A d \in Connection : HoldsTicket(d) => call[d].ticket # t
    BY <1>2 DEF IssueTicket, LocksInv, HeldRows
  <2> QED
    BY <1>2, <2>1 DEF IssueTicket, locks, LocksInv, HeldRows, HoldsTicket,
       HoldsSession, Typed, TypeOK
<1>3. CASE \E active \in BOOLEAN : SetHumanStatus(active)
  BY <1>3 DEF SetHumanStatus, locks, LocksInv, HeldRows, HoldsTicket,
     HoldsSession
<1>4. CASE Tick
  BY <1>4 DEF Tick, tables, locks, LocksInv, HeldRows, HoldsTicket,
     HoldsSession
<1> QED
  BY <1>1, <1>2, <1>3, <1>4 DEF Environment

(* A call keeps its row, as it found it, until it ends.                    *)
LEMMA LocksStep == Typed /\ LocksInv /\ [Next]_vars => LocksInv'
<1> SUFFICES ASSUME Typed, LocksInv, [Next]_vars PROVE LocksInv'
  OBVIOUS
<1>1. CASE UNCHANGED vars
  BY <1>1 DEF vars, LocksInv, HeldRows, HoldsTicket, HoldsSession
<1> QED
  BY <1>1, LocksService, LocksStatement, LocksEnvironment DEF Next

-----------------------------------------------------------------------------
(* What a step does to tickets, sessions and answers: nothing; it issues a *)
(* ticket; it touches or revokes a live session, maybe answering with what *)
(* that one is; it moves a live session to another organization and so to  *)
(* the next version; it opens a session; or it rotates one.                *)

Quiet == UNCHANGED <<ticket, session, contexts>>

Issues(t) ==
  /\ ticket[t].auth_version = 0
  /\ \E new : ~new.consumed /\ ticket' = [ticket EXCEPT ![t] = new]
  /\ UNCHANGED <<session, contexts>>

OfOneLine(new, old) ==
  /\ new.login = old.login /\ new.auth_version = old.auth_version
  /\ new.expires = old.expires
  /\ old.idle <= old.expires => new.idle <= new.expires

AnswerOf(row) ==
  [login |-> row.login, version |-> row.context_version, org |-> row.org]

Rewrites(s, row) ==
  /\ session[s].state = "live" /\ row.state \in {"live", "revoked"}
  /\ OfOneLine(row, session[s])
  /\ session' = [session EXCEPT ![s] = row]
  /\ UNCHANGED ticket

Keeps(s, row) ==
  /\ Rewrites(s, row)
  /\ row.context_version = session[s].context_version
  /\ row.org = session[s].org
  /\ contexts' = contexts \/ contexts' = contexts \cup {AnswerOf(row)}

Moves(s, row) ==
  /\ Rewrites(s, row)
  /\ row.context_version = session[s].context_version + 1
  /\ contexts' = contexts \cup {AnswerOf(row)}

Rotates(old, s) ==
  /\ session[old].state = "live" /\ session[s].state = "none"
  /\ session' = [session EXCEPT ![old].state = "revoked",
                                ![s] = Successor(session[old])]
  /\ UNCHANGED <<ticket, contexts>>

KnownStep ==
  \/ Quiet
  \/ \E t \in Ticket : Issues(t)
  \/ \E s \in Session, row \in SessionRow : Keeps(s, row) \/ Moves(s, row)
  \/ \E c \in Connection, s \in Session : CommitLogin(c, s)
  \/ \E old \in Session, s \in Session : Rotates(old, s)

LEMMA TouchKeeps ==
  ASSUME Typed, LocksInv, NEW c \in Connection, NEW op \in SessionOp,
         Ready(c, op), UNCHANGED ticket,
         session' = [session EXCEPT ![call[c].session] = Touched(@)],
         \/ contexts' = contexts
         \/ contexts' = contexts \cup {AnswerOf(session[call[c].session])}
  PROVE  KnownStep
<1> DEFINE s == call[c].session
           row == Touched(session[s])
<1>1. s \in Session /\ session[s] \in SessionRow /\ session[s].state = "live"
  BY ReadyRefers, ReadyHolds
<1>2. /\ row \in SessionRow /\ row.state = session[s].state
      /\ row.login = session[s].login
      /\ row.auth_version = session[s].auth_version
      /\ row.org = session[s].org
      /\ row.context_version = session[s].context_version
      /\ row.expires = session[s].expires /\ row.idle <= session[s].expires
  BY <1>1, TouchedRow DEF Typed, TypeOK
<1>3. session' = [session EXCEPT ![s] = row]
  OBVIOUS
<1>4. AnswerOf(session[s]) = AnswerOf(row)
  BY <1>2 DEF AnswerOf
<1>5. Rewrites(s, row)
  BY <1>1, <1>2, <1>3 DEF Rewrites, OfOneLine
<1>6. Keeps(s, row)
  BY <1>2, <1>4, <1>5 DEF Keeps
<1> HIDE DEF row
<1> QED
  BY <1>1, <1>2, <1>6 DEF KnownStep

LEMMA StatementIsKnown ==
  ASSUME Typed, LocksInv, NEW c \in Connection, Statement(c)
  PROVE  KnownStep
<1>0. Refuse(c) => KnownStep
  BY DEF Refuse, tables, KnownStep, Quiet
<1>1. CASE LockTicket(c)
  BY <1>0, <1>1 DEF LockTicket, tables, KnownStep, Quiet
<1>2. CASE LookAtTicketAgain(c)
  BY <1>0, <1>2 DEF LookAtTicketAgain, tables, KnownStep, Quiet
<1>3. CASE LockSession(c)
  BY <1>0, <1>3 DEF LockSession, tables, KnownStep, Quiet
<1>4. CASE LookAtSessionAgain(c)
  BY <1>0, <1>4 DEF LookAtSessionAgain, tables, KnownStep, Quiet
<1>5. CASE ReadSession(c)
  <2>1. "read" \in SessionOp
    BY DEF SessionOp
  <2> QED
    BY <1>5, <2>1, TouchKeeps DEF ReadSession
<1>6. CASE SelectOrganization(c)
  <2>1. CASE Refuse(c)
    BY <1>0, <2>1
  <2>2. CASE ~Refuse(c)
    <3> DEFINE s == call[c].session
               old == session[s]
               row == Touched([old EXCEPT !.org = call[c].org,
                                  !.context_version = old.context_version + 1])
    <3>1. "select" \in SessionOp /\ Ready(c, "select")
      BY <1>6 DEF SelectOrganization, SessionOp
    <3>2. /\ s \in Session /\ old \in SessionRow /\ old.state = "live"
          /\ call[c].org \in Org /\ clock \in Nat
      BY <3>1, ReadyRefers, ReadyHolds DEF Typed, TypeOK
    <3>3. /\ row \in SessionRow /\ row.state = old.state
          /\ row.login = old.login /\ row.auth_version = old.auth_version
          /\ row.org = call[c].org
          /\ row.context_version = old.context_version + 1
          /\ row.expires = old.expires /\ row.idle <= old.expires
      BY <3>2, MovedRow
    <3>4. /\ session' = [session EXCEPT ![s] = row] /\ UNCHANGED ticket
          /\ contexts' = contexts \cup {Answer(c, old.context_version + 1)}
      BY <1>6, <2>2 DEF SelectOrganization
    <3> HIDE DEF row
    <3>5. Answer(c, old.context_version + 1) = AnswerOf(row)
      BY <3>3 DEF Answer, AnswerOf
    <3>6. Moves(s, row)
      BY <3>2, <3>3, <3>4, <3>5 DEF Moves, Rewrites, OfOneLine
    <3> QED
      BY <3>2, <3>3, <3>6 DEF KnownStep
  <2> QED
    BY <2>1, <2>2
<1>7. CASE TenantContext(c)
  <2>1. CASE Refuse(c)
    BY <1>0, <2>1
  <2>2. CASE ~Refuse(c)
    <3>1. "context" \in SessionOp
      BY DEF SessionOp
    <3>2. Answer(c, call[c].version) = AnswerOf(session[call[c].session])
      BY <1>7, <2>2 DEF TenantContext, SameVersion, Answer, AnswerOf
    <3> QED
      BY <1>7, <2>2, <3>1, <3>2, TouchKeeps DEF TenantContext
  <2> QED
    BY <2>1, <2>2
<1>8. ASSUME NEW s \in Session, CommitLogin(c, s)
      PROVE  KnownStep
  BY <1>8 DEF KnownStep
<1>9. ASSUME NEW s \in Session, RotateSession(c, s)
      PROVE  KnownStep
  <2>1. CASE Refuse(c)
    BY <1>0, <2>1
  <2>2. CASE ~Refuse(c)
    <3>1. "rotate" \in SessionOp /\ Ready(c, "rotate")
      BY <1>9 DEF RotateSession, SessionOp
    <3>2. call[c].session \in Session /\ session[call[c].session].state = "live"
      BY <3>1, ReadyRefers, ReadyHolds
    <3>3. Rotates(call[c].session, s)
      BY <1>9, <2>2, <3>2 DEF RotateSession, Rotates
    <3> QED
      BY <3>2, <3>3 DEF KnownStep
  <2> QED
    BY <2>1, <2>2
<1> QED
  BY <1>1, <1>2, <1>3, <1>4, <1>5, <1>6, <1>7, <1>8, <1>9 DEF Statement

LEMMA EnvironmentIsKnown ==
  ASSUME Typed, LocksInv, Environment
  PROVE  KnownStep
<1>1. ASSUME NEW s \in Session, RevokeSession(s)
      PROVE  KnownStep
  <2> DEFINE row == [session[s] EXCEPT !.state = "revoked"]
  <2>1. session[s] \in SessionRow
    BY DEF Typed, TypeOK
  <2>2. /\ row \in SessionRow /\ row.state = "revoked"
        /\ row.login = session[s].login
        /\ row.auth_version = session[s].auth_version
        /\ row.org = session[s].org
        /\ row.context_version = session[s].context_version
        /\ row.expires = session[s].expires /\ row.idle = session[s].idle
    BY <2>1 DEF SessionRow
  <2>3. /\ session[s].state = "live" /\ session' = [session EXCEPT ![s] = row]
        /\ UNCHANGED <<ticket, contexts>>
    BY <1>1 DEF RevokeSession
  <2> HIDE DEF row
  <2>4. Keeps(s, row)
    BY <2>2, <2>3 DEF Keeps, Rewrites, OfOneLine
  <2> QED
    BY <2>2, <2>4 DEF KnownStep
<1>2. ASSUME NEW t \in Ticket, IssueTicket(t)
      PROVE  KnownStep
  <2>1. Issues(t)
    BY <1>2 DEF IssueTicket, Issues
  <2> QED
    BY <2>1 DEF KnownStep
<1>3. CASE \E active \in BOOLEAN : SetHumanStatus(active)
  BY <1>3 DEF SetHumanStatus, KnownStep, Quiet
<1>4. CASE Tick
  BY <1>4 DEF Tick, tables, KnownStep, Quiet
<1> QED
  BY <1>1, <1>2, <1>3, <1>4 DEF Environment

LEMMA StepIsKnown ==
  ASSUME Typed, LocksInv, [Next]_vars
  PROVE  KnownStep
<1>1. ASSUME NEW c \in Connection, Service(c)
      PROVE  KnownStep
  <2>1. PICK new : Begin(c, new)
    BY <1>1, Zenon DEF Service, BeginLogin, BeginSession
  <2> QED
    BY <2>1 DEF Begin, tables, KnownStep, Quiet
<1>2. CASE UNCHANGED vars
  BY <1>2 DEF vars, KnownStep, Quiet
<1> QED
  BY <1>1, <1>2, StatementIsKnown, EnvironmentIsKnown DEF Next

-----------------------------------------------------------------------------
(* Sessions come of tickets.                                               *)

(* What a login that commits does: the ticket was not consumed and is now; *)
(* the prior session may be revoked.                                       *)
LEMMA LoginCommits ==
  ASSUME Typed, LocksInv, NEW c \in Connection, NEW s \in Session,
         CommitLogin(c, s)
  PROVE  LET t == call[c].ticket IN
         /\ t \in Ticket
         /\ ticket[t].auth_version > 0 /\ ~ticket[t].consumed
         /\ ticket'[t].consumed
         /\ ticket'[t].auth_version = ticket[t].auth_version
         /\ \A u \in Ticket \ {t} : ticket'[u] = ticket[u]
         /\ session'[s] = OpenedBy(t)
         /\ \A x \in Session \ {s} :
              \/ session'[x] = session[x]
              \/ /\ session[x].state = "live"
                 /\ session'[x] = [session[x] EXCEPT !.state = "revoked"]
         /\ UNCHANGED contexts
<1>1. HoldsTicket(c) /\ call[c].ticket \in Ticket
  BY DEF CommitLogin, HoldsTicket, Typed, CallRefers
<1>2. ticket[call[c].ticket].auth_version > 0 /\ ~ticket[call[c].ticket].consumed
  BY <1>1 DEF LocksInv, HeldRows
<1> QED
  BY <1>1, <1>2 DEF CommitLogin, Typed, TypeOK

LEMMA RevokedRow ==
  ASSUME NEW row \in SessionRow
  PROVE  LET gone == [row EXCEPT !.state = "revoked"] IN
         /\ gone.state = "revoked" /\ gone.login = row.login
         /\ gone.auth_version = row.auth_version
         /\ gone.expires = row.expires /\ gone.idle = row.idle
BY DEF SessionRow

(* What rotation does: the old session is revoked and has a successor.     *)
LEMMA RotationReplaces ==
  ASSUME Typed, NEW old \in Session, NEW s \in Session, Rotates(old, s)
  PROVE  /\ old # s
         /\ session'[old] = [session[old] EXCEPT !.state = "revoked"]
         /\ session'[s] = Successor(session[old])
         /\ \A x \in Session \ {old, s} : session'[x] = session[x]
BY DEF Rotates, Typed, TypeOK

LEMMA RowsInit == Init => RowsInv
BY DEF Init, RowsInv, NoRow

LEMMA RowsStep ==
  ASSUME Typed, LocksInv, RowsInv, [Next]_vars
  PROVE  RowsInv'
<1>1. CASE Quiet
  BY <1>1 DEF Quiet, RowsInv, RowOfTicket
<1>2. ASSUME NEW t \in Ticket, Issues(t)
      PROVE  RowsInv'
  <2>1. ~ticket[t].consumed /\ ~ticket'[t].consumed
    BY <1>2 DEF Issues, RowsInv, Typed, TypeOK
  <2>2. \A u \in Ticket \ {t} : ticket'[u] = ticket[u]
    BY <1>2 DEF Issues, Typed, TypeOK
  <2> QED
    BY <1>2, <2>1, <2>2 DEF Issues, RowsInv, RowOfTicket
<1>3. ASSUME NEW s \in Session, NEW row \in SessionRow, Rewrites(s, row)
      PROVE  RowsInv'
  <2>1. RowOfTicket(session[s], ticket)
    BY <1>3 DEF Rewrites, RowsInv
  <2>2. RowOfTicket(row, ticket)
    BY <1>3, <2>1 DEF Rewrites, OfOneLine, RowOfTicket
  <2>3. session'[s] = row /\ \A x \in Session \ {s} : session'[x] = session[x]
    BY <1>3 DEF Rewrites, Typed, TypeOK
  <2> QED
    BY <1>3, <2>2, <2>3 DEF Rewrites, RowsInv, RowOfTicket
<1>4. ASSUME NEW c \in Connection, NEW s \in Session, CommitLogin(c, s)
      PROVE  RowsInv'
  <2> DEFINE t == call[c].ticket
  <2>1. /\ t \in Ticket /\ ticket'[t].consumed /\ ticket[t].auth_version > 0
        /\ ticket'[t].auth_version = ticket[t].auth_version
        /\ \A u \in Ticket \ {t} : ticket'[u] = ticket[u]
        /\ session'[s] = OpenedBy(t)
    BY <1>4, LoginCommits
  <2>2. RowOfTicket(session'[s], ticket')
    BY <2>1, OpenedRow DEF RowOfTicket
  <2>3. ASSUME NEW row, RowOfTicket(row, ticket)
        PROVE  RowOfTicket(row, ticket')
    BY <2>1, <2>3 DEF RowOfTicket
  <2>4. ASSUME NEW x \in Session \ {s}, session'[x].state # "none"
        PROVE  RowOfTicket(session'[x], ticket')
    <3>1. CASE session'[x] = session[x]
      BY <2>3, <2>4, <3>1 DEF RowsInv
    <3>2. CASE /\ session[x].state = "live"
               /\ session'[x] = [session[x] EXCEPT !.state = "revoked"]
      <4>1. session[x] \in SessionRow /\ RowOfTicket(session[x], ticket)
        BY <3>2 DEF RowsInv, Typed, TypeOK
      <4>2. RowOfTicket(session'[x], ticket)
        BY <3>2, <4>1, RevokedRow DEF RowOfTicket
      <4> QED
        BY <2>3, <4>2
    <3> QED
      BY <1>4, <3>1, <3>2, LoginCommits
  <2>5. \A u \in Ticket : ticket'[u].consumed => ticket'[u].auth_version > 0
    BY <2>1 DEF RowsInv
  <2> QED
    BY <2>2, <2>4, <2>5 DEF RowsInv
<1>5. ASSUME NEW old \in Session, NEW s \in Session, Rotates(old, s)
      PROVE  RowsInv'
  <2>1. session[old] \in SessionRow /\ RowOfTicket(session[old], ticket)
    BY <1>5 DEF Rotates, RowsInv, Typed, TypeOK
  <2>2. RowOfTicket([session[old] EXCEPT !.state = "revoked"], ticket)
    BY <2>1, RevokedRow DEF RowOfTicket
  <2>3. RowOfTicket(Successor(session[old]), ticket)
    BY <2>1, SuccessorRow DEF RowOfTicket, Typed, TypeOK
  <2>4. UNCHANGED ticket
    BY <1>5 DEF Rotates
  <2> QED
    BY <1>5, <2>2, <2>3, <2>4, RotationReplaces DEF RowsInv
<1> QED
  BY <1>1, <1>2, <1>3, <1>4, <1>5, StepIsKnown DEF KnownStep, Keeps, Moves

-----------------------------------------------------------------------------
(* One session per login.                                                  *)

OfOneLogin(r1, r2) ==
  r1.state # "none" /\ r2.state # "none" /\ r1.login = r2.login

LEMMA OneSessionInit == Init => OneSessionPerLogin
BY DEF Init, OneSessionPerLogin, NoRow

LEMMA OneSessionStep ==
  ASSUME Typed, LocksInv, RowsInv, OneSessionPerLogin, [Next]_vars
  PROVE  OneSessionPerLogin'
<1>0. SUFFICES ASSUME NEW x \in Session, NEW y \in Session,
                      OfOneLogin(session'[x], session'[y])
               PROVE  /\ session'[x].state = "live" /\ session'[y].state = "live"
                           => x = y
                      /\ session'[x].idle <= session'[x].expires
                      /\ session'[x].expires = session'[y].expires
  BY DEF OneSessionPerLogin, OfOneLogin
<1> DEFINE Goal == /\ session'[x].state = "live" /\ session'[y].state = "live"
                        => x = y
                   /\ session'[x].idle <= session'[x].expires
                   /\ session'[x].expires = session'[y].expires
<1>1. CASE UNCHANGED session
  BY <1>0, <1>1 DEF OneSessionPerLogin, OfOneLogin
<1>2. ASSUME NEW s \in Session, NEW row \in SessionRow, Rewrites(s, row)
      PROVE  Goal
  <2>1. session'[s] = row /\ \A z \in Session \ {s} : session'[z] = session[z]
    BY <1>2 DEF Rewrites, Typed, TypeOK
  <2>2. /\ row.login = session[s].login /\ row.expires = session[s].expires
        /\ session[s].state = "live"
        /\ session[s].idle <= session[s].expires => row.idle <= row.expires
    BY <1>2 DEF Rewrites, OfOneLine
  <2>3. session[s].idle <= session[s].expires
    BY <2>2 DEF OneSessionPerLogin
  <2>4. OfOneLogin(session[x], session[y])
    BY <1>0, <2>1, <2>2 DEF OfOneLogin
  <2> QED
    BY <2>1, <2>2, <2>3, <2>4 DEF OneSessionPerLogin, OfOneLogin
<1>3. ASSUME NEW c \in Connection, NEW s \in Session, CommitLogin(c, s)
      PROVE  Goal
  <2> DEFINE t == call[c].ticket
  <2>1. /\ t \in Ticket /\ ~ticket[t].consumed
        /\ session'[s] = OpenedBy(t)
        /\ \A z \in Session \ {s} :
             \/ session'[z] = session[z]
             \/ /\ session[z].state = "live"
                /\ session'[z] = [session[z] EXCEPT !.state = "revoked"]
    BY <1>3, LoginCommits
  <2>2. /\ OpenedBy(t).login = t
        /\ OpenedBy(t).idle <= OpenedBy(t).expires
    BY <2>1, OpenedRow
  <2>3. ASSUME NEW z \in Session \ {s}, session'[z].state # "none"
        PROVE  /\ session[z].state # "none"
               /\ session'[z].login = session[z].login
               /\ session'[z].login # t
               /\ session'[z].expires = session[z].expires
               /\ session'[z].idle = session[z].idle
               /\ session'[z].state = "live" => session[z].state = "live"
    <3>1. session[z] \in SessionRow
      BY DEF Typed, TypeOK
    <3>2. CASE session'[z] = session[z]
      BY <2>1, <2>3, <3>2 DEF RowsInv, RowOfTicket
    <3>3. CASE /\ session[z].state = "live"
               /\ session'[z] = [session[z] EXCEPT !.state = "revoked"]
      <4>1. session[z].login # t
        BY <2>1, <3>3 DEF RowsInv, RowOfTicket
      <4> QED
        BY <3>1, <3>3, <4>1, RevokedRow
    <3> QED
      BY <2>1, <3>2, <3>3
  <2>4. CASE x = s /\ y = s
    BY <2>1, <2>2, <2>4
  <2>5. CASE x # s /\ y # s
    <3>1. OfOneLogin(session[x], session[y])
      BY <1>0, <2>3, <2>5 DEF OfOneLogin
    <3> QED
      BY <1>0, <2>3, <2>5, <3>1 DEF OneSessionPerLogin, OfOneLogin
  <2>6. CASE (x = s) # (y = s)
    BY <1>0, <2>1, <2>2, <2>3, <2>6 DEF OfOneLogin
  <2> QED
    BY <2>4, <2>5, <2>6
<1>4. ASSUME NEW old \in Session, NEW s \in Session, Rotates(old, s)
      PROVE  Goal
  <2>1. /\ session[old] \in SessionRow /\ session[old].state = "live"
        /\ session[s].state = "none"
    BY <1>4 DEF Rotates, Typed, TypeOK
  <2>2. session[old].idle <= session[old].expires
    BY <2>1 DEF OneSessionPerLogin
  <2> DEFINE From(z) == IF z = s THEN old ELSE z
  <2>3. ASSUME NEW z \in Session, session'[z].state # "none"
        PROVE  /\ From(z) \in Session
               /\ session[From(z)].state # "none"
               /\ session'[z].login = session[From(z)].login
               /\ session'[z].expires = session[From(z)].expires
               /\ session'[z].idle <= session'[z].expires
               /\ session'[z].state = "live" =>
                    session[From(z)].state = "live" /\ z # old
    <3>0. /\ old # s /\ session'[s] = Successor(session[old])
          /\ session'[old] = [session[old] EXCEPT !.state = "revoked"]
          /\ \A v \in Session \ {old, s} : session'[v] = session[v]
      BY <1>4, RotationReplaces
    <3>1. CASE z = s
      <4>1. clock \in Nat
        BY DEF Typed, TypeOK
      <4>2. /\ session'[z].login = session[old].login
            /\ session'[z].expires = session[old].expires
            /\ session'[z].idle <= session[old].expires
        BY <2>1, <3>0, <3>1, <4>1, SuccessorRow
      <4> QED
        BY <2>1, <3>0, <3>1, <4>2
    <3>2. CASE z = old
      <4>1. /\ session'[z].login = session[old].login
            /\ session'[z].expires = session[old].expires
            /\ session'[z].idle = session[old].idle
            /\ session'[z].state = "revoked"
        BY <2>1, <3>0, <3>2, RevokedRow
      <4> QED
        BY <2>1, <2>2, <3>0, <3>2, <4>1
    <3>3. CASE z \notin {s, old}
      BY <2>3, <3>0, <3>3 DEF OneSessionPerLogin
    <3> QED
      BY <3>1, <3>2, <3>3
  <2>4. OfOneLogin(session[From(x)], session[From(y)])
    BY <1>0, <2>3 DEF OfOneLogin
  <2>5. /\ session[From(x)].state = "live" /\ session[From(y)].state = "live"
             => From(x) = From(y)
        /\ session[From(x)].expires = session[From(y)].expires
    BY <1>0, <2>3, <2>4 DEF OneSessionPerLogin, OfOneLogin
  <2>6. session'[x].state # "none" /\ session'[y].state # "none"
    BY <1>0 DEF OfOneLogin
  <2> QED
    BY <2>3, <2>5, <2>6
<1> QED
  BY <1>1, <1>2, <1>3, <1>4, StepIsKnown
     DEF KnownStep, Quiet, Issues, Keeps, Moves

-----------------------------------------------------------------------------
(* Answers.                                                                *)

LEMMA ContextsInit == Init => ContextsInv /\ VersionMeansOneOrganization
BY DEF Init, ContextsInv, VersionMeansOneOrganization

(* A ticket that was consumed stays so.                                    *)
LEMMA ConsumedStays ==
  ASSUME Typed, LocksInv, RowsInv, [Next]_vars, NEW t \in Ticket,
         ticket[t].consumed
  PROVE  ticket'[t].consumed
<1>1. ASSUME NEW u \in Ticket, Issues(u)
      PROVE  ticket'[t].consumed
  BY <1>1 DEF Issues, RowsInv, Typed, TypeOK
<1>2. ASSUME NEW c \in Connection, NEW s \in Session, CommitLogin(c, s)
      PROVE  ticket'[t].consumed
  BY <1>2, LoginCommits
<1>3. CASE UNCHANGED ticket
  BY <1>3
<1> QED
  BY <1>1, <1>2, <1>3, StepIsKnown
     DEF KnownStep, Quiet, Keeps, Moves, Rewrites, Rotates

(* A live session whose login has none other is asked about its version:   *)
(* what is answered agrees with all that was answered before.              *)
LEMMA ContextsStep ==
  ASSUME Typed, Typed', LocksInv, RowsInv, OneSessionPerLogin, ContextsInv,
         VersionMeansOneOrganization, [Next]_vars
  PROVE  ContextsInv' /\ VersionMeansOneOrganization'
<1>0. \A a \in contexts : a.login \in Ticket /\ a.version \in Nat
  BY DEF Typed, TypeOK, Context
<1>1. \A a \in contexts : ticket'[a.login].consumed
  BY <1>0, ConsumedStays DEF ContextsInv
<1>2. CASE UNCHANGED <<session, contexts>>
  BY <1>1, <1>2 DEF ContextsInv, VersionMeansOneOrganization
<1>3. ASSUME NEW s \in Session, NEW row \in SessionRow, Rewrites(s, row),
             \A a \in contexts : AnsweredBefore(a, row),
             \/ contexts' = contexts
             \/ /\ contexts' = contexts \cup {AnswerOf(row)}
                /\ \A a \in contexts :
                     a.login = row.login /\ a.version = row.context_version
                       => a.org = row.org
      PROVE  ContextsInv' /\ VersionMeansOneOrganization'
  <2>1. session'[s] = row /\ \A z \in Session \ {s} : session'[z] = session[z]
    BY <1>3 DEF Rewrites, Typed, TypeOK
  <2>2. session[s].state = "live" /\ row.login = session[s].login
    BY <1>3 DEF Rewrites, OfOneLine
  <2>3. /\ AnswerOf(row).login = row.login
        /\ AnswerOf(row).version = row.context_version
        /\ AnswerOf(row).org = row.org
    BY DEF AnswerOf
  <2>4. row.context_version \in Nat
    BY DEF SessionRow
  <2>5. ticket'[row.login].consumed
    BY <2>2, <1>3 DEF RowsInv, RowOfTicket, Rewrites
  <2>6. ASSUME NEW a \in contexts', NEW z \in Session,
               session'[z].state = "live"
        PROVE  AnsweredBefore(a, session'[z])
    <3>1. CASE z = s
      BY <1>3, <2>1, <2>3, <2>4, <3>1 DEF AnsweredBefore
    <3>2. CASE z # s
      <4>1. session[z].state = "live" /\ session'[z] = session[z]
        BY <2>1, <2>6, <3>2
      <4>2. session[z].login # row.login
        BY <2>2, <3>2, <4>1 DEF OneSessionPerLogin
      <4> QED
        BY <1>3, <2>3, <4>1, <4>2 DEF ContextsInv, AnsweredBefore
    <3> QED
      BY <3>1, <3>2
  <2>7. \A a \in contexts' : ticket'[a.login].consumed
    BY <1>1, <1>3, <2>3, <2>5
  <2>8. VersionMeansOneOrganization'
    BY <1>3, <2>3 DEF VersionMeansOneOrganization
  <2> QED
    BY <2>6, <2>7, <2>8 DEF ContextsInv
<1>4. ASSUME NEW s \in Session, NEW row \in SessionRow, Keeps(s, row)
      PROVE  ContextsInv' /\ VersionMeansOneOrganization'
  <2>1. \A a \in contexts : AnsweredBefore(a, session[s])
    BY <1>4 DEF Keeps, Rewrites, ContextsInv
  <2>2. \A a \in contexts : AnsweredBefore(a, row)
    BY <1>4, <2>1 DEF Keeps, Rewrites, OfOneLine, AnsweredBefore
  <2> QED
    BY <1>3, <1>4, <2>2 DEF Keeps, AnsweredBefore
<1>5. ASSUME NEW s \in Session, NEW row \in SessionRow, Moves(s, row)
      PROVE  ContextsInv' /\ VersionMeansOneOrganization'
  <2>1. \A a \in contexts : AnsweredBefore(a, session[s])
    BY <1>5 DEF Moves, Rewrites, ContextsInv
  <2>2. session[s].context_version \in Nat
    BY DEF Typed, TypeOK, SessionRow
  <2>3. \A a \in contexts : a.login = row.login =>
          a.version < row.context_version
    BY <1>0, <1>5, <2>1, <2>2
       DEF Moves, Rewrites, OfOneLine, AnsweredBefore
  <2>4. row.context_version \in Nat
    BY DEF SessionRow
  <2>5. \A a \in contexts : AnsweredBefore(a, row)
    BY <1>0, <2>3, <2>4 DEF AnsweredBefore
  <2> QED
    BY <1>3, <1>5, <2>5 DEF Moves, AnsweredBefore
<1>6. ASSUME NEW c \in Connection, NEW s \in Session, CommitLogin(c, s)
      PROVE  ContextsInv' /\ VersionMeansOneOrganization'
  <2> DEFINE t == call[c].ticket
  <2>1. /\ t \in Ticket /\ ~ticket[t].consumed
        /\ session'[s] = OpenedBy(t)
        /\ \A z \in Session \ {s} :
             \/ session'[z] = session[z]
             \/ /\ session[z].state = "live"
                /\ session'[z] = [session[z] EXCEPT !.state = "revoked"]
        /\ UNCHANGED contexts
    BY <1>6, LoginCommits
  <2>2. OpenedBy(t).login = t
    BY <2>1, OpenedRow
  <2>3. ASSUME NEW a \in contexts, NEW z \in Session,
               session'[z].state = "live"
        PROVE  AnsweredBefore(a, session'[z])
    <3>1. CASE z = s
      BY <2>1, <2>2, <3>1 DEF AnsweredBefore, ContextsInv
    <3>2. CASE z # s
      <4>1. session[z] \in SessionRow
        BY DEF Typed, TypeOK
      <4>2. session'[z] = session[z]
        BY <2>1, <2>3, <3>2, <4>1, RevokedRow
      <4> QED
        BY <2>3, <4>2 DEF ContextsInv
    <3> QED
      BY <3>1, <3>2
  <2> QED
    BY <1>1, <2>1, <2>3 DEF ContextsInv, VersionMeansOneOrganization
<1>7. ASSUME NEW old \in Session, NEW s \in Session, Rotates(old, s)
      PROVE  ContextsInv' /\ VersionMeansOneOrganization'
  <2>0. /\ old # s /\ session'[s] = Successor(session[old])
        /\ session'[old] = [session[old] EXCEPT !.state = "revoked"]
        /\ \A v \in Session \ {old, s} : session'[v] = session[v]
    BY <1>7, RotationReplaces
  <2>1. /\ session[old] \in SessionRow /\ session[old].state = "live"
        /\ clock \in Nat /\ UNCHANGED contexts
    BY <1>7 DEF Rotates, Typed, TypeOK
  <2>2. ASSUME NEW a \in contexts, NEW z \in Session,
               session'[z].state = "live"
        PROVE  AnsweredBefore(a, session'[z])
    <3>1. CASE z = s
      <4>1. AnsweredBefore(a, session[old])
        BY <2>1 DEF ContextsInv
      <4>2. /\ session'[z].login = session[old].login
            /\ session'[z].context_version = session[old].context_version + 1
        BY <2>0, <2>1, <3>1, SuccessorRow
      <4>3. session[old].context_version \in Nat
        BY <2>1 DEF SessionRow
      <4> QED
        BY <1>0, <4>1, <4>2, <4>3 DEF AnsweredBefore
    <3>2. CASE z = old
      BY <2>0, <2>1, <2>2, <3>2, RevokedRow
    <3>3. CASE z \notin {old, s}
      BY <2>0, <2>2, <3>3 DEF ContextsInv
    <3> QED
      BY <3>1, <3>2, <3>3
  <2> QED
    BY <1>1, <2>1, <2>2 DEF ContextsInv, VersionMeansOneOrganization
<1> QED
  BY <1>2, <1>4, <1>5, <1>6, <1>7, StepIsKnown DEF KnownStep, Quiet, Issues

-----------------------------------------------------------------------------
(* The theorems.                                                           *)

LEMMA IInvAlways == Spec => []IInv
<1>1. Init => IInv
  BY TypedInit, LocksInit, RowsInit, OneSessionInit, ContextsInit DEF IInv
<1>2. IInv /\ [Next]_vars => IInv'
  <2> SUFFICES ASSUME IInv, [Next]_vars PROVE IInv'
    OBVIOUS
  <2>1. Typed'
    BY TypedStep DEF IInv
  <2>2. LocksInv'
    BY LocksStep DEF IInv
  <2>3. RowsInv'
    BY RowsStep DEF IInv
  <2>4. OneSessionPerLogin'
    BY OneSessionStep DEF IInv
  <2>5. ContextsInv' /\ VersionMeansOneOrganization'
    BY <2>1, ContextsStep DEF IInv
  <2> QED
    BY <2>1, <2>2, <2>3, <2>4, <2>5 DEF IInv
<1> QED
  BY <1>1, <1>2, PTL DEF Spec

(* The rows, locks, calls and answers of identity.ts have their types.     *)
THEOREM TypeCorrect == Spec => []TypeOK
<1>1. IInv => TypeOK
  BY DEF IInv, Typed
<1> QED
  BY <1>1, IInvAlways, PTL

(* However many calls of consumeTicket() and rotateSession() overlap, a    *)
(* login has one live session, and its line ends when its first would.     *)
THEOREM OneSessionAlways == Spec => []OneSessionPerLogin
<1>1. IInv => OneSessionPerLogin
  BY DEF IInv
<1> QED
  BY <1>1, IInvAlways, PTL

(* A session lockedSession() lets pass comes of a consumed ticket of the   *)
(* human's present auth_version.                                           *)
THEOREM SessionsAlwaysDieWithTickets == Spec => []SessionsDieWithTickets
<1>1. IInv => SessionsDieWithTickets
  BY DEF IInv, RowsInv, RowOfTicket, Authenticates, SessionsDieWithTickets
<1> QED
  BY <1>1, IInvAlways, PTL

(* Two answers of tenantContext() or selectOrganization() to one login     *)
(* with one context version name one organization.                         *)
THEOREM VersionsAlwaysMeanOneOrganization == Spec => []VersionMeansOneOrganization
<1>1. IInv => VersionMeansOneOrganization
  BY DEF IInv
<1> QED
  BY <1>1, IInvAlways, PTL
=============================================================================
