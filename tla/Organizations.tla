---------------------------- MODULE Organizations ----------------------------
(***************************************************************************)
(* The life of one organization's members: PostgresOrganizationRepository  *)
(* and PostgresFederationAdmin (packages/db/src/organizations.ts), with    *)
(* the logins, rotations and trusted mutators of identity.ts that write    *)
(* the same rows.  An action is a whole transaction: every method of the   *)
(* first two takes the organization's lock, exclusively where it writes,   *)
(* before the reads it decides on.                                         *)
(*                                                                         *)
(* Approvals and delegations, which several of these transactions          *)
(* invalidate, are the subject of Approvals and Delegations.  Whether an   *)
(* inviter can read the resources a guest is to see only ever refuses an   *)
(* invitation, so it is left to chance.                                    *)
(***************************************************************************)
EXTENDS Naturals, FiniteSetsExt

CONSTANTS
  Person, Session, Invitation, Ticket,
  Founder,        \* the owners an operator sets up
  Nobody,
  AssignedRole,   \* the roles that are given out
  MaxChanges, MaxAround, MaxCutoff, MaxConnection    \* bounds of a model

ASSUME OrganizationsAssumption ==
  /\ Founder \subseteq Person
  /\ Nobody \notin Person
  /\ AssignedRole \subseteq {"owner", "member", "viewer"}

VARIABLES
  human,       \* [Person -> [status, auth_version]]
  org,         \* [status, object_version]
  settings,    \* [invitations_enabled, object_version]
  member,      \* [Person -> row], status "none" where there is no row
  cutoff,      \* [Person -> Nat], how often sessions have been cut off
  session,     \* [Session -> row], human Nobody where there is none
  invitation,  \* [Invitation -> row], state "none" before it is made
  connection,  \* [enabled, object_version, credential_version], 0: no row
  mapping,     \* [Person -> [active, object_version]], 0: no row
  ticket       \* [Ticket -> row], human Nobody where there is none

rows == <<human, org, settings, member>>
federation == <<connection, mapping, ticket>>
vars == <<human, org, settings, member, cutoff, session, invitation,
          connection, mapping, ticket>>

(* A session or ticket was created after `created` cutoffs of its human:   *)
(* created_at > invalid_before says that there has been none since.  Rows  *)
(* that are revoked, expired or consumed are never read again and dropped; *)
(* a session and those it is rotated into are one.                         *)
HumanRow == [status: {"active", "disabled"}, auth_version: Nat]
MemberRow ==
  [status: {"none", "active", "revoked"}, role: {"owner", "member", "viewer"},
   access_kind: {"member", "guest"}, unexpired: BOOLEAN,
   emergency_held: BOOLEAN, object_version: Nat]
SessionRow == [human: Person \cup {Nobody}, auth_version: Nat, created: Nat]
InvitationRow ==
  [state: {"none", "pending", "accepted", "revoked"},
   human: Person \cup {Nobody}, inviter: Person \cup {Nobody},
   role: {"member", "viewer"}, access_kind: {"member", "guest"},
   unexpired: BOOLEAN, inviter_version: Nat, settings_version: Nat,
   org_version: Nat]
TicketRow ==
  [human: Person \cup {Nobody}, auth_version: Nat, created: Nat,
   mapping_version: Nat, connection_version: Nat]

NoSession == [human |-> Nobody, auth_version |-> 0, created |-> 0]
NoInvitation ==
  [state |-> "none", human |-> Nobody, inviter |-> Nobody, role |-> "viewer",
   access_kind |-> "member", unexpired |-> FALSE, inviter_version |-> 0,
   settings_version |-> 0, org_version |-> 0]
NoTicket ==
  [human |-> Nobody, auth_version |-> 0, created |-> 0, mapping_version |-> 0,
   connection_version |-> 0]

Init ==
  /\ human = [h \in Person |-> [status |-> "active", auth_version |-> 1]]
  /\ org = [status |-> "active", object_version |-> 1]
  /\ settings = [invitations_enabled |-> TRUE, object_version |-> 1]
  /\ member = [h \in Person |->
       [status |-> IF h \in Founder THEN "active" ELSE "none",
        role |-> IF h \in Founder THEN "owner" ELSE "viewer",
        access_kind |-> "member", unexpired |-> TRUE,
        emergency_held |-> FALSE,
        object_version |-> IF h \in Founder THEN 1 ELSE 0]]
  /\ cutoff = [h \in Person |-> 0]
  /\ session = [s \in Session |-> NoSession]
  /\ invitation = [i \in Invitation |-> NoInvitation]
  /\ connection = [enabled |-> FALSE, object_version |-> 0,
                   credential_version |-> 0]
  /\ mapping = [h \in Person |-> [active |-> FALSE, object_version |-> 0]]
  /\ ticket = [t \in Ticket |-> NoTicket]

-----------------------------------------------------------------------------
(* Who is let in.                                                          *)

MembershipAccess(h) ==
  /\ member[h].status = "active"
  /\ ~member[h].emergency_held
  /\ member[h].access_kind = "guest" => member[h].unexpired

Authenticates(s) ==
  LET h == session[s].human IN
  /\ h # Nobody
  /\ human[h].status = "active"
  /\ session[s].auth_version = human[h].auth_version

(* current(): the session may act in the organization now.                 *)
Admitted(s) ==
  LET h == session[s].human IN
  /\ Authenticates(s)
  /\ org.status = "active"
  /\ MembershipAccess(h)
  /\ session[s].created >= cutoff[h]

AdmittedOwner(s) ==
  /\ Admitted(s)
  /\ member[session[s].human].role = "owner"
  /\ member[session[s].human].access_kind = "member"

(* federationTicketValid() and the conditions of consumeTicket().          *)
TicketRedeemable(t) ==
  LET h == ticket[t].human IN
  /\ h # Nobody
  /\ human[h].status = "active"
  /\ ticket[t].auth_version = human[h].auth_version
  /\ org.status = "active"
  /\ mapping[h].active /\ connection.enabled
  /\ ticket[t].mapping_version = mapping[h].object_version
  /\ ticket[t].connection_version = connection.object_version
  /\ ticket[t].created >= cutoff[h]
  /\ MembershipAccess(h)

(* What load() in acceptInvitation() asks of an invitation.                *)
Acceptable(i) ==
  LET n == invitation[i].inviter IN
  /\ invitation[i].state = "pending" /\ invitation[i].unexpired
  /\ member[n].status = "active" /\ member[n].role = "owner"
  /\ human[n].status = "active" /\ org.status = "active"
  /\ member[n].object_version = invitation[i].inviter_version
  /\ org.object_version = invitation[i].org_version
  /\ settings.object_version = invitation[i].settings_version
  /\ settings.invitations_enabled

OwnersThoughHeld == {h \in Person :
             /\ member[h].role = "owner" /\ member[h].status = "active"
             /\ human[h].status = "active"}

(* The owners updateMember() counts.                                       *)
Owners == {h \in Person :
             /\ member[h].role = "owner" /\ member[h].status = "active"
             /\ human[h].status = "active" /\ ~member[h].emergency_held}

Managed(h) == mapping[h].object_version > 0

-----------------------------------------------------------------------------
(* Parts several transactions share.                                       *)

Concerning(h) ==
  {i \in Invitation : h \in {invitation[i].human, invitation[i].inviter}}

(* UPDATE invitations SET state='revoked' WHERE ... AND state='pending'.   *)
Withdraw(I) ==
  invitation' = [i \in Invitation |->
    IF i \in I /\ invitation[i].state = "pending"
    THEN [invitation[i] EXCEPT !.state = "revoked"] ELSE invitation[i]]

(* How often members' rights changed, and accounts, the organization and   *)
(* its settings; a model stops at the bounds.                              *)
Room == MapThenSumSet(LAMBDA h : member[h].object_version, Person) < MaxChanges
RoomAround ==
  MapThenSumSet(LAMBDA h : human[h].auth_version, Person) + org.object_version
    < MaxAround

SetMemberKeepsVersion(h, role, status) ==
  /\ Room
  /\ member' = [member EXCEPT ![h].role = role, ![h].status = status]

(* One member's row gets new access and a new version.                     *)
SetMember(h, role, status) ==
  /\ Room
  /\ member' = [member EXCEPT ![h].role = role, ![h].status = status,
                              ![h].object_version = @ + 1]

CutOffOnce(h) ==
  cutoff' = [cutoff EXCEPT ![h] = IF @ = 0 THEN 1 ELSE @]
CutOffUnlessOut(h) ==
  cutoff' = IF MembershipAccess(h) THEN [cutoff EXCEPT ![h] = @ + 1] ELSE cutoff

CutOff(h) == cutoff' = [cutoff EXCEPT ![h] = @ + 1]

(* A new session s of h; those in `ended` are revoked.                     *)
OpenSession(s, h, auth, created, ended) ==
  /\ session[s].human = Nobody
  /\ session' = [x \in Session |->
       IF x = s
       THEN [human |-> h, auth_version |-> auth, created |-> created]
       ELSE IF x \in ended THEN NoSession ELSE session[x]]

-----------------------------------------------------------------------------
(* Sessions (identity.ts).                                                 *)

(* consumeTicket() with a ticket an operator issued; the browser may carry *)
(* a session from before, which ends.                                      *)
LogIn(s, h, prior) ==
  /\ human[h].status = "active"
  /\ OpenSession(s, h, human[h].auth_version, cutoff[h], prior)
  /\ UNCHANGED <<rows, cutoff, invitation, federation>>

(* consumeTicket() with a ticket of the identity provider.                 *)
LogInFederated(s, t, prior) ==
  /\ TicketRedeemable(t)
  /\ ticket' = [ticket EXCEPT ![t] = NoTicket]
  /\ OpenSession(s, ticket[t].human, ticket[t].auth_version,
                 cutoff[ticket[t].human], prior)
  /\ UNCHANGED <<rows, cutoff, invitation, connection, mapping>>

(* The successor is as old as the session it replaces.                     *)
RotateSession(s) ==
  /\ Authenticates(s)
  /\ session' = [session EXCEPT ![s] =
       [human |-> session[s].human, auth_version |-> session[s].auth_version,
        created |-> session[s].created]]
  /\ UNCHANGED <<rows, cutoff, invitation, federation>>

(* revokeSession(), or an expiry is reached.                               *)
SessionEnds(s) ==
  /\ session[s].human # Nobody
  /\ session' = [session EXCEPT ![s] = NoSession]
  /\ UNCHANGED <<rows, cutoff, invitation, federation>>

-----------------------------------------------------------------------------
(* Owners and members (organizations.ts).                                  *)

UpdateSettings(s, enabled) ==
  /\ AdmittedOwner(s)
  /\ RoomAround
  /\ settings' = [invitations_enabled |-> enabled,
                  object_version |-> settings.object_version + 1]
  /\ org' = [org EXCEPT !.object_version = @ + 1]
  /\ Withdraw(Invitation)
  /\ UNCHANGED <<human, member, cutoff, session, federation>>

UpdateMember(s, h, role, status) ==
  /\ AdmittedOwner(s)
  /\ member[h].status # "none"
  /\ ~Managed(h)
  /\ member[h].access_kind = "guest" => role = "viewer"
  /\ member[h].status = "revoked" => status = "revoked"
  /\ (/\ member[h].role = "owner" /\ member[h].status = "active"
      /\ role # "owner" \/ status # "active")
     => Cardinality(Owners) > 1
  /\ SetMember(h, role, status)
  /\ CutOff(h)
  /\ Withdraw(Concerning(h))
  /\ UNCHANGED <<human, org, settings, session, federation>>

RevokeOrganizationSessions(s, h) ==
  /\ Admitted(s)
  /\ session[s].human = h \/ member[session[s].human].role = "owner"
  /\ member[h].status # "none"
  /\ cutoff[h] < MaxCutoff
  /\ CutOff(h)
  /\ UNCHANGED <<rows, session, invitation, federation>>

(* emergencyChange(): hold or release.  A repeated request_id answers its  *)
(* receipt; a new one needs the present versions.                          *)
EmergencyChange(s, h, held) ==
  /\ AdmittedOwner(s)
  /\ session[s].human # h
  /\ member[h].status # "none"
  /\ member[h].emergency_held # held
  /\ Room
  /\ member' = [member EXCEPT ![h].emergency_held = held,
                              ![h].object_version = @ + 1]
  /\ CutOff(h)
  /\ Withdraw(Concerning(h))
  /\ UNCHANGED <<human, org, settings, session, federation>>

InvitableThoughHeld(h) == member[h].status # "active" /\ ~Managed(h)
InvitableThoughManaged(h) ==
  ~member[h].emergency_held /\ member[h].status # "active"

(* Neither an active member nor somebody the provider manages is invited.  *)
Invitable(h) ==
  ~member[h].emergency_held /\ member[h].status # "active" /\ ~Managed(h)

Invite(s, i, h, role, kind) ==
  /\ AdmittedOwner(s)
  /\ invitation[i].state = "none"
  /\ Invitable(h)
  /\ settings.invitations_enabled
  /\ human[h].status = "active"
  /\ kind = "guest" => role = "viewer"
  /\ invitation' = [invitation EXCEPT ![i] =
       [state |-> "pending", human |-> h, inviter |-> session[s].human,
        role |-> role, access_kind |-> kind, unexpired |-> TRUE,
        inviter_version |-> member[session[s].human].object_version,
        settings_version |-> settings.object_version,
        org_version |-> org.object_version]]
  /\ UNCHANGED <<rows, cutoff, session, federation>>

RevokeInvitation(s, i) ==
  /\ AdmittedOwner(s)
  /\ invitation[i].state = "pending"
  /\ Withdraw({i})
  /\ UNCHANGED <<rows, cutoff, session, federation>>

(* INSERT ... ON CONFLICT DO UPDATE: a former member starts afresh.        *)
Joined(h, i) ==
  [member[h] EXCEPT !.role = invitation[i].role, !.status = "active",
     !.access_kind = invitation[i].access_kind, !.unexpired = TRUE,
     !.object_version = @ + 1]

(* The new session is younger than the cutoff its own acceptance sets.     *)
AcceptInvitation(s, i, next) ==
  LET h == session[s].human IN
  /\ Authenticates(s)
  /\ invitation[i].human = h
  /\ Acceptable(i)
  /\ Invitable(h)
  /\ Room
  /\ member' = [member EXCEPT ![h] = Joined(h, i)]
  /\ CutOff(h)
  /\ invitation' = [invitation EXCEPT ![i].state = "accepted"]
  /\ OpenSession(next, h, session[s].auth_version, cutoff[h] + 1, {s})
  /\ UNCHANGED <<human, org, settings, federation>>

-----------------------------------------------------------------------------
(* The identity provider (organizations.ts).                               *)

(* All people mapped through the connection change with it.                *)
ConfigureConnection(s, enabled) ==
  /\ AdmittedOwner(s)
  /\ connection.object_version < MaxConnection
  /\ Room
  /\ connection' = [connection EXCEPT !.enabled = enabled,
                                      !.object_version = @ + 1]
  /\ mapping' = [h \in Person |->
       IF Managed(h) THEN [active |-> mapping[h].active /\ enabled,
                           object_version |-> mapping[h].object_version + 1]
       ELSE mapping[h]]
  /\ member' = [h \in Person |->
       IF Managed(h)
       THEN [member[h] EXCEPT !.status = IF enabled THEN @ ELSE "revoked",
                              !.object_version = @ + 1]
       ELSE member[h]]
  /\ cutoff' = [h \in Person |->
       IF Managed(h) THEN cutoff[h] + 1 ELSE cutoff[h]]
  /\ UNCHANGED <<human, org, settings, session, invitation, ticket>>

FederatedTicket(t, h) ==
  /\ ticket[t].human = Nobody
  /\ Managed(h) /\ mapping[h].active /\ connection.enabled
  /\ human[h].status = "active" /\ org.status = "active"
  /\ member[h].access_kind = "member" /\ MembershipAccess(h)
  /\ ticket' = [ticket EXCEPT ![t] =
       [human |-> h, auth_version |-> human[h].auth_version,
        created |-> cutoff[h], mapping_version |-> mapping[h].object_version,
        connection_version |-> connection.object_version]]
  /\ UNCHANGED <<rows, cutoff, session, invitation, connection, mapping>>

(* provision(): the provider's word on one of its people.                  *)
Provision(h, active) ==
  /\ connection.enabled
  /\ connection.credential_version = connection.object_version
  /\ Managed(h)
  /\ human[h].status = "active" /\ org.status = "active"
  /\ mapping' = [mapping EXCEPT ![h].active = active,
                                ![h].object_version = @ + 1]
  /\ SetMember(h, member[h].role, IF active THEN "active" ELSE "revoked")
  /\ CutOff(h)
  /\ Withdraw(Concerning(h))
  /\ UNCHANGED <<human, org, settings, session, connection, ticket>>

(* PostgresFederationAdmin.link(), by an operator.                         *)
Link(h) ==
  /\ connection.enabled
  /\ ~Managed(h)
  /\ member[h].status = "active" /\ member[h].access_kind = "member"
  /\ human[h].status = "active" /\ org.status = "active"
  /\ mapping' = [mapping EXCEPT ![h] = [active |-> TRUE, object_version |-> 1]]
  /\ SetMember(h, member[h].role, member[h].status)
  /\ CutOff(h)
  /\ UNCHANGED <<human, org, settings, session, invitation, connection, ticket>>

IssueCredential ==
  /\ connection.enabled
  /\ connection' = [connection EXCEPT
       !.credential_version = connection.object_version]
  /\ UNCHANGED <<rows, cutoff, session, invitation, mapping, ticket>>

-----------------------------------------------------------------------------
(* An operator's mutators (identity.ts), and time.                         *)

SetMembership(h, role, status) ==
  /\ member[h].access_kind = "guest" => role = "viewer"
  /\ SetMember(h, role, status)
  /\ UNCHANGED <<human, org, settings, cutoff, session, invitation, federation>>

SetHumanStatus(h, status) ==
  /\ RoomAround
  /\ human' = [human EXCEPT ![h] =
       [status |-> status, auth_version |-> human[h].auth_version + 1]]
  /\ UNCHANGED <<org, settings, member, cutoff, session, invitation, federation>>

SetOrganizationStatus(status) ==
  /\ RoomAround
  /\ org' = [status |-> status, object_version |-> org.object_version + 1]
  /\ UNCHANGED <<human, settings, member, cutoff, session, invitation, federation>>

GuestLapses(h) ==
  /\ member[h].access_kind = "guest" /\ member[h].unexpired
  /\ member' = [member EXCEPT ![h].unexpired = FALSE]
  /\ UNCHANGED <<human, org, settings, cutoff, session, invitation, federation>>

InvitationLapses(i) ==
  /\ invitation[i].state = "pending" /\ invitation[i].unexpired
  /\ invitation' = [invitation EXCEPT ![i].unexpired = FALSE]
  /\ UNCHANGED <<rows, cutoff, session, federation>>

-----------------------------------------------------------------------------

Prior == {{}} \cup {{s} : s \in Session}   \* the session in the cookie

OperatorRestores ==
  \/ \E h \in Person, role \in AssignedRole, status \in {"active", "revoked"} :
       SetMembership(h, role, status)
  \/ \E status \in {"active", "disabled"} : SetOrganizationStatus(status)

Operator ==
  \/ OperatorRestores
  \/ \E h \in Person, status \in {"active", "disabled"} : SetHumanStatus(h, status)

Browser ==
  \/ \E s \in Session, h \in Person, p \in Prior : LogIn(s, h, p)
  \/ \E s \in Session, t \in Ticket, p \in Prior : LogInFederated(s, t, p)
  \/ \E s \in Session : RotateSession(s) \/ SessionEnds(s)

Management ==
  \E s \in Session :
    \/ \E enabled \in BOOLEAN : UpdateSettings(s, enabled)
    \/ \E h \in Person, role \in AssignedRole, status \in {"active", "revoked"} :
         UpdateMember(s, h, role, status)
    \/ \E h \in Person : RevokeOrganizationSessions(s, h)
    \/ \E h \in Person, held \in BOOLEAN : EmergencyChange(s, h, held)
    \/ \E i \in Invitation, h \in Person, role \in AssignedRole \ {"owner"},
          kind \in {"member", "guest"} : Invite(s, i, h, role, kind)
    \/ \E i \in Invitation : RevokeInvitation(s, i)
    \/ \E i \in Invitation, next \in Session : AcceptInvitation(s, i, next)

Configuration == \E s \in Session, enabled \in BOOLEAN : ConfigureConnection(s, enabled)

Federation ==
  \/ \E t \in Ticket, h \in Person : FederatedTicket(t, h)
  \/ \E h \in Person, active \in BOOLEAN : Provision(h, active)
  \/ \E h \in Person : Link(h)
  \/ IssueCredential

Time ==
  \/ \E h \in Person : GuestLapses(h)
  \/ \E i \in Invitation : InvitationLapses(i)

Next == Operator \/ Browser \/ Management \/ Configuration \/ Federation \/ Time

Spec == Init /\ [][Next]_vars

-----------------------------------------------------------------------------
(* Properties.                                                             *)

(* Every row has values of its columns' types, and a guest is a viewer:    *)
(* the CHECKs of the tables never have to refuse a transaction.            *)
TypeOK ==
  /\ human \in [Person -> HumanRow]
  /\ org \in [status: {"active", "disabled"}, object_version: Nat]
  /\ settings \in [invitations_enabled: BOOLEAN, object_version: Nat]
  /\ member \in [Person -> MemberRow]
  /\ \A h \in Person : member[h].access_kind = "guest" => member[h].role = "viewer"
  /\ cutoff \in [Person -> Nat]
  /\ session \in [Session -> SessionRow]
  /\ invitation \in [Invitation -> InvitationRow]
  /\ connection \in [enabled: BOOLEAN, object_version: Nat,
                     credential_version: Nat]
  /\ mapping \in [Person -> [active: BOOLEAN, object_version: Nat]]
  /\ ticket \in [Ticket -> TicketRow]

(* A session that may no longer act in the organization never may again,   *)
(* whatever becomes of the member: a release from containment, a new       *)
(* invitation, the provider's change of mind or an enabled human call for  *)
(* a new login.  Only an operator who restores a membership or the         *)
(* organization itself restores its sessions.                              *)
SessionsStayOut ==
  [][\/ \A s \in Session :
          session[s].human # Nobody /\ ~Admitted(s) => ~Admitted(s)'
     \/ OperatorRestores]_vars

(* A login ticket of the provider that was refused once is refused for     *)
(* good, though the same person may be mapped, enabled and active again.   *)
TicketsStayVoid ==
  [][\/ \A t \in Ticket :
          ticket[t].human # Nobody /\ ~TicketRedeemable(t)
            => ~TicketRedeemable(t)'
     \/ OperatorRestores]_vars

(* An invitation lapses when its inviter, the settings or the organization *)
(* change in any way, and no later change brings it back.  The exception   *)
(* is an inviter whose account an operator disables and enables: versions  *)
(* of memberships do not tell.                                             *)
InvitationsStayVoid ==
  [][\/ \A i \in Invitation :
          invitation[i].state # "none" /\ ~Acceptable(i) => ~Acceptable(i)'
     \/ \E h \in Person : SetHumanStatus(h, "active")]_vars

(* While a member is held no invitation by or for them is open, however    *)
(* many were sent before or around the containment.                        *)
HeldHaveNoInvitations ==
  \A h \in Person : member[h].emergency_held =>
    \A i \in Concerning(h) : invitation[i].state # "pending"

(* Owners managing each other, holding, demoting and removing, always      *)
(* leave one who can act.  An operator and the identity provider need not, *)
(* nor an owner who switches the provider's connection off.                *)
Managers ==
  {h \in Person : /\ member[h].role = "owner" /\ member[h].access_kind = "member"
                  /\ MembershipAccess(h) /\ human[h].status = "active"}
OwnersRemain ==
  [][(Managers # {} => Managers' # {}) \/ Operator \/ Federation \/ Configuration]_vars

(* Whoever the provider has put out stays out until the provider or an     *)
(* operator lets them in: no owner can, by whatever detour.  An operator   *)
(* may let in somebody who is held; an owner's release then completes it.  *)
PutOut(h) == Managed(h) /\ ~mapping[h].active /\ member[h].status = "revoked"
ProviderDecides ==
  [][\/ \A h \in Person : PutOut(h) => PutOut(h)' \/ mapping'[h].active
     \/ OperatorRestores]_vars

(* docs/adr/ADR-015-organization-lifecycle.md: disabling a mapping revokes *)
(* the related invitations in the same transaction.  configureConnection() *)
(* does not: they stay open, though unacceptable.                          *)
DisabledHaveNoInvitations ==
  \A h \in Person : PutOut(h) =>
    \A i \in Concerning(h) : invitation[i].state # "pending"
=============================================================================
