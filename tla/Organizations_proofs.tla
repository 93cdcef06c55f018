------------------------ MODULE Organizations_proofs -------------------------
(***************************************************************************)
(* What the life of an organization's members keeps, for any number of     *)
(* people, sessions, invitations and tickets, whoever founds it, and any   *)
(* number of changes.                                                      *)
(***************************************************************************)
EXTENDS Organizations, FiniteSetTheorems, TLAPS

Status == {"active", "revoked"}
Role == {"owner", "member", "viewer"}

(* An invitation is to what its guest may be.                              *)
GuestsOnlyView ==
  \A i \in Invitation :
    invitation[i].access_kind = "guest" => invitation[i].role = "viewer"

Typed == TypeOK /\ GuestsOnlyView

(* What a session, a ticket or an invitation remembers of other rows is    *)
(* what they are now, or were.                                             *)
SessionOfThePast(s) ==
  LET h == session[s].human IN
  h # Nobody => /\ session[s].auth_version <= human[h].auth_version
                /\ session[s].created <= cutoff[h]

TicketOfThePast(t) ==
  LET h == ticket[t].human IN
  h # Nobody => /\ Managed(h)
                /\ ticket[t].auth_version <= human[h].auth_version
                /\ ticket[t].created <= cutoff[h]
                /\ ticket[t].mapping_version <= mapping[h].object_version
                /\ ticket[t].connection_version <= connection.object_version

InvitationOfThePast(i) ==
  LET n == invitation[i].inviter IN
  invitation[i].state # "none" =>
    /\ n \in Person /\ invitation[i].human \in Person
    /\ invitation[i].inviter_version <= member[n].object_version
    /\ invitation[i].settings_version <= settings.object_version
    /\ invitation[i].org_version <= org.object_version

NothingFromTheFuture ==
  /\ \A s \in Session : SessionOfThePast(s)
  /\ \A t \in Ticket : TicketOfThePast(t)
  /\ \A i \in Invitation : InvitationOfThePast(i)

IInv == Typed /\ NothingFromTheFuture /\ HeldHaveNoInvitations

-----------------------------------------------------------------------------
(* Types.                                                                  *)

LEMMA TypedInit == Init => Typed
<1> SUFFICES ASSUME Init PROVE Typed
  OBVIOUS
<1>1. member \in [Person -> MemberRow]
  BY DEF Init, MemberRow
<1>2. \A h \in Person : member[h].access_kind = "member"
  BY DEF Init
<1>3. session \in [Session -> SessionRow]
  BY DEF Init, NoSession, SessionRow
<1>4. invitation \in [Invitation -> InvitationRow] /\ GuestsOnlyView
  BY DEF Init, NoInvitation, InvitationRow, GuestsOnlyView
<1>5. ticket \in [Ticket -> TicketRow]
  BY DEF Init, NoTicket, TicketRow
<1> QED
  BY <1>1, <1>2, <1>3, <1>4, <1>5 DEF Init, Typed, TypeOK, HumanRow

(* What becomes of one member's row leaves the others as they are.         *)
LEMMA SetMemberRow ==
  ASSUME Typed, NEW h \in Person, NEW role \in Role, NEW status \in Status,
         member[h].access_kind = "guest" => role = "viewer",
         SetMember(h, role, status)
  PROVE  /\ member' \in [Person -> MemberRow]
         /\ \A g \in Person \ {h} : member'[g] = member[g]
         /\ member'[h].status = status /\ member'[h].role = role
         /\ member'[h].access_kind = member[h].access_kind
         /\ member'[h].unexpired = member[h].unexpired
         /\ member'[h].emergency_held = member[h].emergency_held
         /\ member'[h].object_version = member[h].object_version + 1
         /\ \A g \in Person :
              member'[g].access_kind = "guest" => member'[g].role = "viewer"
<1> DEFINE row == [member[h] EXCEPT !.role = role, !.status = status,
                                    !.object_version = @ + 1]
<1>1. member[h] \in MemberRow
  BY DEF Typed, TypeOK
<1>2. member[h].object_version + 1 \in Nat
  BY <1>1 DEF MemberRow
<1>3. /\ row \in MemberRow
      /\ row.status = status /\ row.role = role
      /\ row.access_kind = member[h].access_kind
      /\ row.unexpired = member[h].unexpired
      /\ row.emergency_held = member[h].emergency_held
      /\ row.object_version = member[h].object_version + 1
  BY <1>1, <1>2 DEF MemberRow, Role, Status
<1>4. member' = [member EXCEPT ![h] = row]
  BY DEF SetMember, Typed, TypeOK
<1> HIDE DEF row
<1>5. member' \in [Person -> MemberRow] /\ member'[h] = row
      /\ \A g \in Person \ {h} : member'[g] = member[g]
  BY <1>3, <1>4 DEF Typed, TypeOK
<1>6. \A g \in Person :
        member'[g].access_kind = "guest" => member'[g].role = "viewer"
  BY <1>3, <1>5 DEF Typed, TypeOK
<1> QED
  BY <1>3, <1>5, <1>6

(* So does containment, ...                                                *)
LEMMA HeldRow ==
  ASSUME Typed, NEW s \in Session, NEW h \in Person, NEW held \in BOOLEAN,
         EmergencyChange(s, h, held)
  PROVE  /\ member' \in [Person -> MemberRow]
         /\ \A g \in Person \ {h} : member'[g] = member[g]
         /\ member'[h].status = member[h].status
         /\ member'[h].role = member[h].role
         /\ member'[h].access_kind = member[h].access_kind
         /\ member'[h].unexpired = member[h].unexpired
         /\ member'[h].emergency_held = held
         /\ member'[h].object_version = member[h].object_version + 1
<1> DEFINE row == [member[h] EXCEPT !.emergency_held = held,
                                    !.object_version = @ + 1]
<1>1. member[h] \in MemberRow
  BY DEF Typed, TypeOK
<1>2. member[h].object_version + 1 \in Nat
  BY <1>1 DEF MemberRow
<1>3. /\ row \in MemberRow
      /\ row.status = member[h].status /\ row.role = member[h].role
      /\ row.access_kind = member[h].access_kind
      /\ row.unexpired = member[h].unexpired
      /\ row.emergency_held = held
      /\ row.object_version = member[h].object_version + 1
  BY <1>1, <1>2 DEF MemberRow
<1>4. member' = [member EXCEPT ![h] = row]
  BY DEF EmergencyChange, Typed, TypeOK
<1> HIDE DEF row
<1> QED
  BY <1>3, <1>4 DEF Typed, TypeOK

(* ... and joining.                                                        *)
LEMMA JoinedRow ==
  ASSUME Typed, NEW h \in Person, NEW i \in Invitation
  PROVE  /\ Joined(h, i) \in MemberRow
         /\ Joined(h, i).status = "active"
         /\ Joined(h, i).role = invitation[i].role
         /\ Joined(h, i).access_kind = invitation[i].access_kind
         /\ Joined(h, i).emergency_held = member[h].emergency_held
         /\ Joined(h, i).object_version = member[h].object_version + 1
<1>1. member[h] \in MemberRow /\ invitation[i] \in InvitationRow
  BY DEF Typed, TypeOK
<1>2. member[h].object_version + 1 \in Nat
  BY <1>1 DEF MemberRow
<1> QED
  BY <1>1, <1>2 DEF Joined, MemberRow, InvitationRow

(* A connection changes all its people, and only those.                    *)
LEMMA ConfiguredRow ==
  ASSUME Typed, NEW s \in Session, NEW enabled \in BOOLEAN,
         ConfigureConnection(s, enabled), NEW h \in Person
  PROVE  /\ member'[h] \in MemberRow
         /\ ~Managed(h) => member'[h] = member[h]
         /\ Managed(h) =>
              /\ member'[h].status = IF enabled THEN member[h].status
                                     ELSE "revoked"
              /\ member'[h].object_version = member[h].object_version + 1
         /\ member'[h].role = member[h].role
         /\ member'[h].access_kind = member[h].access_kind
         /\ member'[h].unexpired = member[h].unexpired
         /\ member'[h].emergency_held = member[h].emergency_held
<1> DEFINE row == [member[h] EXCEPT !.status = IF enabled THEN @ ELSE "revoked",
                                    !.object_version = @ + 1]
<1>1. member[h] \in MemberRow
  BY DEF Typed, TypeOK
<1>2. member[h].object_version + 1 \in Nat
  BY <1>1 DEF MemberRow
<1>3. /\ row \in MemberRow
      /\ row.status = IF enabled THEN member[h].status ELSE "revoked"
      /\ row.role = member[h].role
      /\ row.access_kind = member[h].access_kind
      /\ row.unexpired = member[h].unexpired
      /\ row.emergency_held = member[h].emergency_held
      /\ row.object_version = member[h].object_version + 1
  BY <1>1, <1>2 DEF MemberRow
<1>4. member'[h] = IF Managed(h) THEN row ELSE member[h]
  BY DEF ConfigureConnection
<1> HIDE DEF row
<1> QED
  BY <1>1, <1>3, <1>4

(* Withdrawn invitations only change their state.                          *)
LEMMA WithdrawnRows ==
  ASSUME Typed, NEW I, Withdraw(I)
  PROVE  /\ invitation' \in [Invitation -> InvitationRow]
         /\ GuestsOnlyView'
         /\ \A i \in Invitation :
              /\ \/ invitation'[i] = invitation[i]
                 \/ /\ i \in I /\ invitation[i].state = "pending"
                    /\ invitation'[i] = [invitation[i] EXCEPT !.state = "revoked"]
              /\ i \in I => invitation'[i].state # "pending"
              /\ invitation'[i].state = "none" <=> invitation[i].state = "none"
              /\ invitation'[i].state = "pending" => invitation'[i] = invitation[i]
              /\ invitation'[i].human = invitation[i].human
              /\ invitation'[i].inviter = invitation[i].inviter
              /\ invitation'[i].inviter_version = invitation[i].inviter_version
              /\ invitation'[i].settings_version = invitation[i].settings_version
              /\ invitation'[i].org_version = invitation[i].org_version
              /\ invitation'[i].unexpired = invitation[i].unexpired
<1>1. \A i \in Invitation : invitation[i] \in InvitationRow
  BY DEF Typed, TypeOK
<1>2. \A i \in Invitation :
        LET row == [invitation[i] EXCEPT !.state = "revoked"] IN
        /\ row \in InvitationRow /\ row.state = "revoked"
        /\ row.access_kind = invitation[i].access_kind
        /\ row.role = invitation[i].role
        /\ row.human = invitation[i].human
        /\ row.inviter = invitation[i].inviter
        /\ row.inviter_version = invitation[i].inviter_version
        /\ row.settings_version = invitation[i].settings_version
        /\ row.org_version = invitation[i].org_version
        /\ row.unexpired = invitation[i].unexpired
  BY <1>1 DEF InvitationRow
<1>3. \A i \in Invitation :
        invitation'[i] = IF i \in I /\ invitation[i].state = "pending"
                         THEN [invitation[i] EXCEPT !.state = "revoked"]
                         ELSE invitation[i]
  BY DEF Withdraw
<1>4. invitation' \in [Invitation -> InvitationRow]
  BY <1>1, <1>2 DEF Withdraw
<1>5. ASSUME NEW i \in Invitation
      PROVE  /\ \/ invitation'[i] = invitation[i]
                \/ /\ i \in I /\ invitation[i].state = "pending"
                   /\ invitation'[i] = [invitation[i] EXCEPT !.state = "revoked"]
             /\ i \in I => invitation'[i].state # "pending"
             /\ invitation'[i].state = "none" <=> invitation[i].state = "none"
             /\ invitation'[i].state = "pending" => invitation'[i] = invitation[i]
             /\ invitation'[i].access_kind = invitation[i].access_kind
             /\ invitation'[i].role = invitation[i].role
             /\ invitation'[i].human = invitation[i].human
             /\ invitation'[i].inviter = invitation[i].inviter
             /\ invitation'[i].inviter_version = invitation[i].inviter_version
             /\ invitation'[i].settings_version = invitation[i].settings_version
             /\ invitation'[i].org_version = invitation[i].org_version
             /\ invitation'[i].unexpired = invitation[i].unexpired
  <2> DEFINE row == [invitation[i] EXCEPT !.state = "revoked"]
  <2>1. /\ row.state = "revoked" /\ row.access_kind = invitation[i].access_kind
        /\ row.role = invitation[i].role /\ row.human = invitation[i].human
        /\ row.inviter = invitation[i].inviter
        /\ row.inviter_version = invitation[i].inviter_version
        /\ row.settings_version = invitation[i].settings_version
        /\ row.org_version = invitation[i].org_version
        /\ row.unexpired = invitation[i].unexpired
    BY <1>2
  <2>2. invitation'[i] = IF i \in I /\ invitation[i].state = "pending"
                         THEN row ELSE invitation[i]
    BY <1>3
  <2> HIDE DEF row
  <2>3. CASE i \in I /\ invitation[i].state = "pending"
    <3>1. invitation'[i] = row
      BY <2>2, <2>3
    <3> QED
      BY <2>1, <2>3, <3>1 DEF row
  <2>4. CASE ~(i \in I /\ invitation[i].state = "pending")
    BY <2>2, <2>4
  <2> QED
    BY <2>3, <2>4
<1>6. GuestsOnlyView'
  BY <1>5 DEF Typed, GuestsOnlyView
<1> QED
  BY <1>4, <1>5, <1>6

(* A cutoff concerns one person's sessions and tickets.                    *)
LEMMA CutOffRow ==
  ASSUME Typed, NEW h \in Person, CutOff(h)
  PROVE  /\ cutoff' \in [Person -> Nat]
         /\ cutoff'[h] = cutoff[h] + 1
         /\ \A g \in Person \ {h} : cutoff'[g] = cutoff[g]
<1>1. cutoff[h] + 1 \in Nat
  BY DEF Typed, TypeOK
<1> QED
  BY <1>1 DEF CutOff, Typed, TypeOK

(* The person of a session that is let in is one.                          *)
LEMMA AuthenticatedPerson ==
  ASSUME Typed, NEW s \in Session, Authenticates(s)
  PROVE  session[s].human \in Person
BY DEF Authenticates, Typed, TypeOK, SessionRow

LEMMA AdmittedPerson ==
  ASSUME Typed, NEW s \in Session, Admitted(s) \/ AdmittedOwner(s)
  PROVE  session[s].human \in Person
BY AuthenticatedPerson DEF Admitted, AdmittedOwner

(* A session that opens leaves the others, or ends them.                   *)
LEMMA OpenedSession ==
  ASSUME Typed, NEW s \in Session, NEW h \in Person, NEW auth \in Nat,
         NEW created \in Nat, NEW ended, OpenSession(s, h, auth, created, ended)
  PROVE  /\ session' \in [Session -> SessionRow]
         /\ session[s].human = Nobody
         /\ session'[s] = [human |-> h, auth_version |-> auth,
                           created |-> created]
         /\ \A x \in Session \ {s} :
              session'[x] = session[x] \/ session'[x] = NoSession
<1>1. NoSession \in SessionRow
  BY DEF NoSession, SessionRow
<1>2. [human |-> h, auth_version |-> auth, created |-> created] \in SessionRow
  BY DEF SessionRow
<1> QED
  BY <1>1, <1>2 DEF OpenSession, Typed, TypeOK

(* Every transaction keeps the types, and guests viewers.                  *)
LEMMA TypedStep == Typed /\ [Next]_vars => Typed'
<1> SUFFICES ASSUME Typed, [Next]_vars PROVE Typed'
  OBVIOUS
<1> USE OrganizationsAssumption DEF Status, Role
<1>1. ASSUME NEW h \in Person, NEW role \in AssignedRole, NEW status \in Status,
             SetMembership(h, role, status)
      PROVE  Typed'
  BY <1>1, SetMemberRow DEF SetMembership, federation, Typed, TypeOK, GuestsOnlyView
<1>2. ASSUME NEW status \in {"active", "disabled"}, SetOrganizationStatus(status)
      PROVE  Typed'
  BY <1>2 DEF SetOrganizationStatus, federation, Typed, TypeOK, GuestsOnlyView
<1>3. ASSUME NEW h \in Person, NEW status \in {"active", "disabled"},
             SetHumanStatus(h, status)
      PROVE  Typed'
  <2>1. human[h].auth_version + 1 \in Nat
    BY DEF Typed, TypeOK, HumanRow
  <2>2. human' \in [Person -> HumanRow]
    BY <1>3, <2>1 DEF SetHumanStatus, Typed, TypeOK, HumanRow
  <2> QED
    BY <1>3, <2>2 DEF SetHumanStatus, federation, Typed, TypeOK, GuestsOnlyView
<1>4. ASSUME NEW s \in Session, NEW h \in Person, NEW p \in Prior, LogIn(s, h, p)
      PROVE  Typed'
  <2>1. human[h].auth_version \in Nat /\ cutoff[h] \in Nat
    BY DEF Typed, TypeOK, HumanRow
  <2>2. session' \in [Session -> SessionRow]
    BY <1>4, <2>1, OpenedSession DEF LogIn
  <2> QED
    BY <1>4, <2>2 DEF LogIn, rows, federation, Typed, TypeOK, GuestsOnlyView
<1>5. ASSUME NEW s \in Session, NEW t \in Ticket, NEW p \in Prior,
             LogInFederated(s, t, p)
      PROVE  Typed'
  <2>1. ticket[t] \in TicketRow /\ ticket[t].human # Nobody
    BY <1>5 DEF LogInFederated, TicketRedeemable, Typed, TypeOK
  <2>2. /\ ticket[t].human \in Person /\ ticket[t].auth_version \in Nat
        /\ cutoff[ticket[t].human] \in Nat
    BY <2>1 DEF TicketRow, Typed, TypeOK
  <2>3. session' \in [Session -> SessionRow]
    BY <1>5, <2>2, OpenedSession DEF LogInFederated
  <2>4. NoTicket \in TicketRow
    BY DEF NoTicket, TicketRow
  <2> QED
    BY <1>5, <2>3, <2>4 DEF LogInFederated, rows, Typed, TypeOK, GuestsOnlyView
<1>6. ASSUME NEW s \in Session, RotateSession(s) \/ SessionEnds(s)
      PROVE  Typed'
  <2>1. NoSession \in SessionRow /\ session[s] \in SessionRow
    BY DEF NoSession, SessionRow, Typed, TypeOK
  <2>2. [human |-> session[s].human, auth_version |-> session[s].auth_version,
         created |-> session[s].created] \in SessionRow
    BY <2>1 DEF SessionRow
  <2>3. session' \in [Session -> SessionRow]
    BY <1>6, <2>1, <2>2 DEF RotateSession, SessionEnds, Typed, TypeOK
  <2> QED
    BY <1>6, <2>3 DEF RotateSession, SessionEnds, rows, federation, Typed, TypeOK,
                      GuestsOnlyView
<1>7. ASSUME NEW s \in Session, NEW enabled \in BOOLEAN, UpdateSettings(s, enabled)
      PROVE  Typed'
  BY <1>7, WithdrawnRows DEF UpdateSettings, federation, Typed, TypeOK
<1>8. ASSUME NEW s \in Session, NEW h \in Person, NEW role \in AssignedRole,
             NEW status \in Status, UpdateMember(s, h, role, status)
      PROVE  Typed'
  <2>1. /\ member' \in [Person -> MemberRow]
        /\ \A g \in Person :
             member'[g].access_kind = "guest" => member'[g].role = "viewer"
    BY <1>8, SetMemberRow DEF UpdateMember
  <2>2. invitation' \in [Invitation -> InvitationRow] /\ GuestsOnlyView'
    BY <1>8, WithdrawnRows DEF UpdateMember
  <2>3. cutoff' \in [Person -> Nat]
    BY <1>8, CutOffRow DEF UpdateMember
  <2> QED
    BY <1>8, <2>1, <2>2, <2>3 DEF UpdateMember, federation, Typed, TypeOK
<1>9. ASSUME NEW s \in Session, NEW h \in Person, RevokeOrganizationSessions(s, h)
      PROVE  Typed'
  BY <1>9 DEF RevokeOrganizationSessions, CutOff, rows, federation, Typed, TypeOK,
              GuestsOnlyView
<1>10. ASSUME NEW s \in Session, NEW h \in Person, NEW held \in BOOLEAN,
              EmergencyChange(s, h, held)
       PROVE  Typed'
  <2>1. invitation' \in [Invitation -> InvitationRow] /\ GuestsOnlyView'
    BY <1>10, WithdrawnRows DEF EmergencyChange
  <2>2. /\ member' \in [Person -> MemberRow]
        /\ \A g \in Person :
             member'[g].access_kind = "guest" => member'[g].role = "viewer"
    <3> HIDE DEF Status, Role
    <3>1. /\ member' \in [Person -> MemberRow]
          /\ \A g \in Person : /\ member'[g].role = member[g].role
                               /\ member'[g].access_kind = member[g].access_kind
      BY <1>10, HeldRow
    <3> QED
      BY <3>1 DEF Typed, TypeOK
  <2> QED
    BY <1>10, <2>1, <2>2 DEF EmergencyChange, CutOff, federation, Typed, TypeOK
<1>11. ASSUME NEW s \in Session, NEW i \in Invitation, NEW h \in Person,
              NEW role \in AssignedRole \ {"owner"}, NEW kind \in {"member", "guest"},
              Invite(s, i, h, role, kind)
       PROVE  Typed'
  <2> DEFINE row == [state |-> "pending", human |-> h, inviter |-> session[s].human,
        role |-> role, access_kind |-> kind, unexpired |-> TRUE,
        inviter_version |-> member[session[s].human].object_version,
        settings_version |-> settings.object_version,
        org_version |-> org.object_version]
  <2>1. session[s].human \in Person
    BY <1>11, AdmittedPerson DEF Invite
  <2>2. member[session[s].human].object_version \in Nat
    BY <2>1 DEF Typed, TypeOK, MemberRow
  <2>3. row \in InvitationRow
    BY <2>1, <2>2 DEF InvitationRow, Typed, TypeOK
  <2>4. row.access_kind = "guest" => row.role = "viewer"
    BY <1>11 DEF Invite
  <2>5. invitation' = [invitation EXCEPT ![i] = row]
    BY <1>11 DEF Invite
  <2> HIDE DEF row
  <2>6. invitation' \in [Invitation -> InvitationRow] /\ GuestsOnlyView'
    BY <2>3, <2>4, <2>5 DEF Typed, TypeOK, GuestsOnlyView
  <2> QED
    BY <1>11, <2>6 DEF Invite, rows, federation, Typed, TypeOK
<1>12. ASSUME NEW s \in Session, NEW i \in Invitation, RevokeInvitation(s, i)
       PROVE  Typed'
  BY <1>12, WithdrawnRows DEF RevokeInvitation, rows, federation, Typed, TypeOK
<1>13. ASSUME NEW s \in Session, NEW i \in Invitation, NEW next \in Session,
              AcceptInvitation(s, i, next)
       PROVE  Typed'
  <2> DEFINE h == session[s].human
  <2>1. h \in Person
    BY <1>13, AuthenticatedPerson DEF AcceptInvitation
  <2>2. member' \in [Person -> MemberRow]
        /\ member'[h] = Joined(h, i) /\ \A g \in Person \ {h} : member'[g] = member[g]
    BY <1>13, <2>1, JoinedRow DEF AcceptInvitation, Typed, TypeOK
  <2>3. \A g \in Person :
          member'[g].access_kind = "guest" => member'[g].role = "viewer"
    <3>1. member'[h].access_kind = "guest" => member'[h].role = "viewer"
      BY <2>1, <2>2, JoinedRow DEF Typed, GuestsOnlyView
    <3> QED
      BY <2>2, <3>1 DEF Typed, TypeOK
  <2>4. session' \in [Session -> SessionRow]
    <3>1. session[s].auth_version \in Nat /\ cutoff[h] + 1 \in Nat
      BY <2>1 DEF Typed, TypeOK, SessionRow
    <3>2. OpenSession(next, h, session[s].auth_version, cutoff[h] + 1, {s})
      BY <1>13 DEF AcceptInvitation
    <3> HIDE DEF h
    <3> QED
      BY <2>1, <3>1, <3>2, OpenedSession
  <2>5. invitation' \in [Invitation -> InvitationRow] /\ GuestsOnlyView'
    <3>1. invitation[i] \in InvitationRow
      BY DEF Typed, TypeOK
    <3>2. LET row == [invitation[i] EXCEPT !.state = "accepted"] IN
          /\ row \in InvitationRow
          /\ row.access_kind = invitation[i].access_kind
          /\ row.role = invitation[i].role
      BY <3>1 DEF InvitationRow
    <3>3. invitation' = [invitation EXCEPT ![i] = [invitation[i] EXCEPT !.state = "accepted"]]
      BY <1>13 DEF AcceptInvitation, Typed, TypeOK
    <3> QED
      BY <3>2, <3>3 DEF Typed, TypeOK, GuestsOnlyView
  <2>6. cutoff' \in [Person -> Nat]
    BY <1>13, <2>1 DEF AcceptInvitation, CutOff, Typed, TypeOK
  <2> QED
    BY <1>13, <2>2, <2>3, <2>4, <2>5, <2>6 DEF AcceptInvitation, federation, Typed, TypeOK
<1>14. ASSUME NEW s \in Session, NEW enabled \in BOOLEAN, ConfigureConnection(s, enabled)
       PROVE  Typed'
  <2>1. /\ member' \in [Person -> MemberRow]
        /\ \A g \in Person :
             member'[g].access_kind = "guest" => member'[g].role = "viewer"
    <3>1. \A g \in Person : /\ member'[g] \in MemberRow
                            /\ member'[g].role = member[g].role
                            /\ member'[g].access_kind = member[g].access_kind
      BY <1>14, ConfiguredRow
    <3>2. DOMAIN member' = Person /\ member' = [g \in Person |-> member'[g]]
      BY <1>14 DEF ConfigureConnection
    <3> QED
      BY <3>1, <3>2 DEF Typed, TypeOK
  <2>2. mapping' \in [Person -> [active: BOOLEAN, object_version: Nat]]
    <3>1. \A g \in Person : mapping[g] \in [active: BOOLEAN, object_version: Nat]
      BY DEF Typed, TypeOK
    <3>2. \A g \in Person : mapping[g].object_version + 1 \in Nat
      BY <3>1
    <3> QED
      BY <1>14, <3>1, <3>2 DEF ConfigureConnection
  <2>3. connection' \in [enabled: BOOLEAN, object_version: Nat,
                         credential_version: Nat]
    <3>1. connection.object_version + 1 \in Nat
      BY DEF Typed, TypeOK
    <3> QED
      BY <1>14, <3>1 DEF ConfigureConnection, Typed, TypeOK
  <2>4. cutoff' \in [Person -> Nat]
    <3>1. \A g \in Person : cutoff[g] \in Nat /\ cutoff[g] + 1 \in Nat
      BY DEF Typed, TypeOK
    <3> QED
      BY <1>14, <3>1 DEF ConfigureConnection
  <2> QED
    BY <1>14, <2>1, <2>2, <2>3, <2>4 DEF ConfigureConnection, Typed, TypeOK,
                                         GuestsOnlyView
<1>15. ASSUME NEW t \in Ticket, NEW h \in Person, FederatedTicket(t, h)
       PROVE  Typed'
  <2>1. [human |-> h, auth_version |-> human[h].auth_version,
         created |-> cutoff[h], mapping_version |-> mapping[h].object_version,
         connection_version |-> connection.object_version] \in TicketRow
    BY DEF TicketRow, Typed, TypeOK, HumanRow
  <2> QED
    BY <1>15, <2>1 DEF FederatedTicket, rows, Typed, TypeOK, GuestsOnlyView
<1>16. ASSUME NEW h \in Person, NEW active \in BOOLEAN, Provision(h, active)
       PROVE  Typed'
  <2>1. /\ member' \in [Person -> MemberRow]
        /\ \A g \in Person :
             member'[g].access_kind = "guest" => member'[g].role = "viewer"
    <3>1. /\ member[h].role \in Role
          /\ member[h].access_kind = "guest" => member[h].role = "viewer"
      BY DEF Typed, TypeOK, MemberRow
    <3> QED
      BY <1>16, <3>1, SetMemberRow DEF Provision
  <2>2. invitation' \in [Invitation -> InvitationRow] /\ GuestsOnlyView'
    BY <1>16, WithdrawnRows DEF Provision
  <2>3. mapping' \in [Person -> [active: BOOLEAN, object_version: Nat]]
    <3>1. mapping[h].object_version + 1 \in Nat
      BY DEF Typed, TypeOK
    <3> QED
      BY <1>16, <3>1 DEF Provision, Typed, TypeOK
  <2> QED
    BY <1>16, <2>1, <2>2, <2>3 DEF Provision, CutOff, Typed, TypeOK
<1>17. ASSUME NEW h \in Person, Link(h)
       PROVE  Typed'
  <2>1. /\ member' \in [Person -> MemberRow]
        /\ \A g \in Person :
             member'[g].access_kind = "guest" => member'[g].role = "viewer"
    <3>1. /\ member[h].role \in Role /\ member[h].status \in Status
          /\ member[h].access_kind = "guest" => member[h].role = "viewer"
      BY <1>17 DEF Link, Typed, TypeOK, MemberRow
    <3> QED
      BY <1>17, <3>1, SetMemberRow DEF Link
  <2>2. mapping' \in [Person -> [active: BOOLEAN, object_version: Nat]]
    BY <1>17 DEF Link, Typed, TypeOK
  <2>3. cutoff' \in [Person -> Nat]
    BY <1>17, CutOffRow DEF Link
  <2> QED
    BY <1>17, <2>1, <2>2, <2>3 DEF Link, Typed, TypeOK, GuestsOnlyView
<1>18. ASSUME IssueCredential PROVE Typed'
  BY <1>18 DEF IssueCredential, rows, Typed, TypeOK, GuestsOnlyView
<1>19. ASSUME NEW h \in Person, GuestLapses(h)
       PROVE  Typed'
  <2>1. member[h] \in MemberRow
    BY DEF Typed, TypeOK
  <2>2. LET row == [member[h] EXCEPT !.unexpired = FALSE] IN
        /\ row \in MemberRow /\ row.role = member[h].role
        /\ row.access_kind = member[h].access_kind
    BY <2>1 DEF MemberRow
  <2>3. member' = [member EXCEPT ![h] = [member[h] EXCEPT !.unexpired = FALSE]]
    BY <1>19 DEF GuestLapses, Typed, TypeOK
  <2>4. /\ member' \in [Person -> MemberRow]
        /\ \A g \in Person :
             member'[g].access_kind = "guest" => member'[g].role = "viewer"
    BY <2>2, <2>3 DEF Typed, TypeOK
  <2> QED
    BY <1>19, <2>4 DEF GuestLapses, federation, Typed, TypeOK, GuestsOnlyView
<1>20. ASSUME NEW i \in Invitation, InvitationLapses(i)
       PROVE  Typed'
  <2>1. invitation[i] \in InvitationRow
    BY DEF Typed, TypeOK
  <2>2. LET row == [invitation[i] EXCEPT !.unexpired = FALSE] IN
        /\ row \in InvitationRow /\ row.role = invitation[i].role
        /\ row.access_kind = invitation[i].access_kind
    BY <2>1 DEF InvitationRow
  <2>3. invitation' = [invitation EXCEPT ![i] = [invitation[i] EXCEPT !.unexpired = FALSE]]
    BY <1>20 DEF InvitationLapses, Typed, TypeOK
  <2>4. invitation' \in [Invitation -> InvitationRow] /\ GuestsOnlyView'
    BY <2>2, <2>3 DEF Typed, TypeOK, GuestsOnlyView
  <2> QED
    BY <1>20, <2>4 DEF InvitationLapses, rows, federation, Typed, TypeOK
<1>21. CASE UNCHANGED vars
  BY <1>21 DEF vars, Typed, TypeOK, GuestsOnlyView
<1> QED
  <2>1. CASE Operator
    BY <2>1, <1>1, <1>2, <1>3 DEF Operator, OperatorRestores
  <2>2. CASE Browser
    BY <2>2, <1>4, <1>5, <1>6 DEF Browser
  <2>3. CASE Management
    BY <2>3, <1>7, <1>8, <1>9, <1>10, <1>11, <1>12, <1>13 DEF Management
  <2>4. CASE Configuration
    BY <2>4, <1>14 DEF Configuration
  <2>5. CASE Federation
    BY <2>5, <1>15, <1>16, <1>17, <1>18 DEF Federation
  <2>6. CASE Time
    BY <2>6, <1>19, <1>20 DEF Time
  <2> QED
    BY <1>21, <2>1, <2>2, <2>3, <2>4, <2>5, <2>6 DEF Next

-----------------------------------------------------------------------------
(* Which transactions write which rows.                                    *)

LEMMA OperatorWrites ==
  ASSUME Operator
  PROVE  UNCHANGED <<settings, cutoff, session, invitation, connection, mapping, ticket>>
BY DEF Operator, OperatorRestores, SetMembership, SetHumanStatus,
       SetOrganizationStatus, federation

LEMMA BrowserWrites ==
  ASSUME Browser
  PROVE  UNCHANGED <<human, org, settings, member, cutoff, invitation, connection, mapping>>
BY DEF Browser, LogIn, LogInFederated, RotateSession, SessionEnds, rows, federation

(* What the person of session s does.                                      *)
Manages(s) ==
  \/ \E enabled \in BOOLEAN : UpdateSettings(s, enabled)
  \/ \E h \in Person, role \in AssignedRole, status \in Status :
       UpdateMember(s, h, role, status)
  \/ \E h \in Person : RevokeOrganizationSessions(s, h)
  \/ \E h \in Person, held \in BOOLEAN : EmergencyChange(s, h, held)
  \/ \E i \in Invitation, h \in Person, role \in AssignedRole \ {"owner"},
        kind \in {"member", "guest"} : Invite(s, i, h, role, kind)
  \/ \E i \in Invitation : RevokeInvitation(s, i)
  \/ \E i \in Invitation, next \in Session : AcceptInvitation(s, i, next)

LEMMA ManagementWrites ==
  ASSUME Management
  PROVE  /\ \E s \in Session : Manages(s)
         /\ UNCHANGED <<human, connection, mapping, ticket>>
<1> PICK s \in Session : Manages(s)
  BY DEF Management, Manages, Status
<1> QED
  BY DEF Manages, UpdateSettings, UpdateMember, RevokeOrganizationSessions,
         EmergencyChange, Invite, RevokeInvitation, AcceptInvitation, rows, federation

LEMMA ConfigurationWrites ==
  ASSUME Configuration
  PROVE  UNCHANGED <<human, org, settings, session, invitation, ticket>>
BY DEF Configuration, ConfigureConnection

LEMMA FederationWrites ==
  ASSUME Federation
  PROVE  UNCHANGED <<human, org, settings, session>>
BY DEF Federation, FederatedTicket, Provision, Link, IssueCredential, rows

LEMMA TimeWrites ==
  ASSUME Time
  PROVE  UNCHANGED <<human, org, settings, cutoff, session, connection, mapping, ticket>>
BY DEF Time, GuestLapses, InvitationLapses, rows, federation

(* Accounts, the organization and its settings: every change is an         *)
(* operator's or an owner's, and a new version.                            *)
AccountsAge ==
  /\ \A h \in Person :
       \/ human'[h] = human[h]
       \/ human'[h].auth_version > human[h].auth_version
  /\ \A h \in Person :
       human'[h].status = "active" =>
         \/ human[h].status = "active"
         \/ \E g \in Person : SetHumanStatus(g, "active")
  /\ org' = org \/ org'.object_version > org.object_version
  /\ org'.status = org.status \/ OperatorRestores
  /\ settings' = settings \/ settings'.object_version > settings.object_version

LEMMA AccountsOnlyAge == Typed /\ [Next]_vars => AccountsAge
<1> SUFFICES ASSUME Typed, [Next]_vars PROVE AccountsAge
  OBVIOUS
<1>1. /\ \A h \in Person : human[h] \in HumanRow
      /\ org.object_version \in Nat /\ settings.object_version \in Nat
  BY DEF Typed, TypeOK
<1>2. ASSUME NEW g \in Person, NEW status \in {"active", "disabled"},
             SetHumanStatus(g, status)
      PROVE  AccountsAge
  <2>1. UNCHANGED <<org, settings>>
    BY <1>2 DEF SetHumanStatus
  <2>2. human' = [human EXCEPT ![g] = [status |-> status,
                                       auth_version |-> human[g].auth_version + 1]]
    BY <1>2 DEF SetHumanStatus
  <2>3. \A h \in Person : h # g => human'[h] = human[h]
    BY <2>2 DEF Typed, TypeOK
  <2>4. human'[g].auth_version > human[g].auth_version /\ human'[g].status = status
    BY <1>1, <2>2 DEF Typed, TypeOK, HumanRow
  <2>5. human'[g].status = "active" => SetHumanStatus(g, "active")
    BY <1>2, <2>4
  <2> QED
    BY <2>1, <2>3, <2>4, <2>5 DEF AccountsAge
<1>3. ASSUME UNCHANGED human,
             \/ org' = org /\ settings' = settings
             \/ \E status \in {"active", "disabled"} : SetOrganizationStatus(status)
             \/ \E s \in Session, enabled \in BOOLEAN : UpdateSettings(s, enabled)
      PROVE  AccountsAge
  <2>1. ASSUME NEW status \in {"active", "disabled"}, SetOrganizationStatus(status)
        PROVE  AccountsAge
    <3>1. OperatorRestores
      BY <2>1 DEF OperatorRestores
    <3> QED
      BY <1>1, <1>3, <2>1, <3>1 DEF SetOrganizationStatus, AccountsAge
  <2>2. ASSUME NEW s \in Session, NEW enabled \in BOOLEAN, UpdateSettings(s, enabled)
        PROVE  AccountsAge
    <3>1. org' = [org EXCEPT !.object_version = @ + 1]
      BY <2>2 DEF UpdateSettings
    <3>2. org'.status = org.status /\ org'.object_version = org.object_version + 1
      BY <3>1 DEF Typed, TypeOK
    <3>3. settings'.object_version = settings.object_version + 1
      BY <2>2 DEF UpdateSettings
    <3> QED
      BY <1>1, <1>3, <3>2, <3>3 DEF AccountsAge
  <2> QED
    BY <1>3, <2>1, <2>2 DEF AccountsAge
<1>4. CASE Operator
  BY <1>2, <1>3, <1>4, OperatorWrites DEF Operator, OperatorRestores, SetMembership,
                                         SetOrganizationStatus
<1>5. CASE Management
  <2>1. PICK s \in Session : Manages(s)
    BY <1>5, ManagementWrites
  <2>2. \/ org' = org /\ settings' = settings
        \/ \E enabled \in BOOLEAN : UpdateSettings(s, enabled)
    BY <2>1 DEF Manages, UpdateMember, RevokeOrganizationSessions, EmergencyChange,
                Invite, RevokeInvitation, AcceptInvitation, rows
  <2> QED
    BY <1>3, <1>5, <2>2, ManagementWrites
<1>6. CASE Browser
  BY <1>3, <1>6, BrowserWrites
<1>7. CASE Configuration
  BY <1>3, <1>7, ConfigurationWrites
<1>8. CASE Federation
  BY <1>3, <1>8, FederationWrites
<1>9. CASE Time
  BY <1>3, <1>9, TimeWrites
<1>10. CASE UNCHANGED vars
  BY <1>3, <1>10 DEF vars
<1> QED
  BY <1>4, <1>5, <1>6, <1>7, <1>8, <1>9, <1>10 DEF Next

(* Mappings and connections only grow older, and whoever is mapped stays   *)
(* so: being active and being enabled change with the version.             *)
ProviderAges ==
  /\ \A h \in Person :
       /\ mapping'[h].object_version >= mapping[h].object_version
       /\ mapping'[h].active # mapping[h].active =>
            mapping'[h].object_version > mapping[h].object_version
  /\ connection'.object_version >= connection.object_version
  /\ connection'.enabled # connection.enabled =>
       connection'.object_version > connection.object_version

LEMMA ProviderOnlyAges == Typed /\ [Next]_vars => ProviderAges
<1> SUFFICES ASSUME Typed, [Next]_vars PROVE ProviderAges
  OBVIOUS
<1>1. /\ \A h \in Person : mapping[h] \in [active: BOOLEAN, object_version: Nat]
      /\ connection \in [enabled: BOOLEAN, object_version: Nat,
                         credential_version: Nat]
  BY DEF Typed, TypeOK
<1>2. ASSUME UNCHANGED <<mapping, connection>> PROVE ProviderAges
  BY <1>1, <1>2 DEF ProviderAges
<1>3. ASSUME NEW s \in Session, NEW enabled \in BOOLEAN, ConfigureConnection(s, enabled)
      PROVE  ProviderAges
  <2>1. \A h \in Person :
          mapping'[h] = IF Managed(h)
                        THEN [active |-> mapping[h].active /\ enabled,
                              object_version |-> mapping[h].object_version + 1]
                        ELSE mapping[h]
    BY <1>3 DEF ConfigureConnection
  <2>2. \A h \in Person :
          /\ mapping'[h].object_version >= mapping[h].object_version
          /\ mapping'[h].active # mapping[h].active =>
               mapping'[h].object_version > mapping[h].object_version
    <3> TAKE h \in Person
    <3>1. CASE Managed(h)
      <4> DEFINE active == mapping[h].active /\ enabled
                 version == mapping[h].object_version + 1
      <4>2. mapping'[h] = [active |-> active, object_version |-> version]
        BY <2>1, <3>1
      <4> HIDE DEF active, version
      <4>3. mapping'[h].object_version = version
        BY <4>2
      <4>1. mapping'[h].object_version = mapping[h].object_version + 1
        BY <4>3 DEF version
      <4> QED
        BY <1>1, <4>1
    <3>2. CASE ~Managed(h)
      <4>1. mapping'[h] = mapping[h]
        BY <2>1, <3>2
      <4> QED
        BY <1>1, <4>1
    <3> QED
      BY <3>1, <3>2
  <2>3. connection'.object_version = connection.object_version + 1
    BY <1>1, <1>3 DEF ConfigureConnection
  <2> QED
    BY <1>1, <2>2, <2>3 DEF ProviderAges
<1>4. ASSUME NEW h \in Person, NEW active \in BOOLEAN, Provision(h, active)
      PROVE  ProviderAges
  <2>1. UNCHANGED connection
    BY <1>4 DEF Provision
  <2>2. /\ mapping'[h].object_version = mapping[h].object_version + 1
        /\ \A g \in Person \ {h} : mapping'[g] = mapping[g]
    BY <1>1, <1>4 DEF Provision, Typed, TypeOK
  <2> QED
    BY <1>1, <2>1, <2>2 DEF ProviderAges
<1>5. ASSUME NEW h \in Person, Link(h)
      PROVE  ProviderAges
  <2>1. UNCHANGED connection /\ ~Managed(h)
    BY <1>5 DEF Link
  <2>2. /\ mapping'[h].object_version = 1
        /\ \A g \in Person \ {h} : mapping'[g] = mapping[g]
    BY <1>1, <1>5 DEF Link, Typed, TypeOK
  <2> QED
    BY <1>1, <2>1, <2>2 DEF ProviderAges, Managed
<1>6. ASSUME IssueCredential PROVE ProviderAges
  <2>1. /\ UNCHANGED mapping
        /\ connection'.object_version = connection.object_version
        /\ connection'.enabled = connection.enabled
    BY <1>1, <1>6 DEF IssueCredential
  <2> QED
    BY <1>1, <2>1 DEF ProviderAges
<1>7. CASE Federation
  <2>1. ASSUME NEW t \in Ticket, NEW h \in Person, FederatedTicket(t, h)
        PROVE  ProviderAges
    BY <1>2, <2>1 DEF FederatedTicket
  <2> QED
    BY <1>4, <1>5, <1>6, <1>7, <2>1 DEF Federation
<1>8. CASE Operator
  BY <1>2, <1>8, OperatorWrites
<1>9. CASE Browser
  BY <1>2, <1>9, BrowserWrites
<1>10. CASE Management
  BY <1>2, <1>10, ManagementWrites
<1>11. CASE Configuration
  BY <1>3, <1>11 DEF Configuration
<1>12. CASE Time
  BY <1>2, <1>12, TimeWrites
<1>13. CASE UNCHANGED vars
  BY <1>2, <1>13 DEF vars
<1> QED
  BY <1>7, <1>8, <1>9, <1>10, <1>11, <1>12, <1>13 DEF Next

(* A membership's rights change with its version, and who gets access      *)
(* again gets it after a cutoff, unless an operator gives it.              *)
MemberAges(h) ==
  /\ member'[h].object_version >= member[h].object_version
  /\ member'[h].status # member[h].status \/ member'[h].role # member[h].role =>
       member'[h].object_version > member[h].object_version
  /\ cutoff'[h] >= cutoff[h]
  /\ ~MembershipAccess(h) /\ MembershipAccess(h)' =>
       cutoff'[h] > cutoff[h] \/ OperatorRestores
  /\ member'[h].emergency_held =>
       member[h].emergency_held \/ \E s \in Session : EmergencyChange(s, h, TRUE)

LEMMA MembersOnlyAge == Typed /\ [Next]_vars => \A h \in Person : MemberAges(h)
<1> SUFFICES ASSUME Typed, [Next]_vars PROVE \A h \in Person : MemberAges(h)
  OBVIOUS
<1> USE OrganizationsAssumption DEF Status, Role
<1>1. \A h \in Person : member[h] \in MemberRow /\ cutoff[h] \in Nat
  BY DEF Typed, TypeOK
<1>2. ASSUME NEW h \in Person,
             member'[h] = member[h], cutoff'[h] \in {cutoff[h], cutoff[h] + 1}
      PROVE  MemberAges(h)
  <2>1. MembershipAccess(h)' <=> MembershipAccess(h)
    BY <1>2 DEF MembershipAccess
  <2>2. /\ member'[h].object_version >= member[h].object_version
        /\ cutoff'[h] >= cutoff[h]
    BY <1>1, <1>2 DEF MemberRow
  <2> QED
    BY <1>2, <2>1, <2>2 DEF MemberAges
<1>3. ASSUME NEW h \in Person, NEW g \in Person,
             \A x \in Person \ {h} : member'[x] = member[x],
             member'[h].object_version = member[h].object_version + 1,
             member'[h].emergency_held =>
               \/ member[h].emergency_held
               \/ \E s \in Session : EmergencyChange(s, h, TRUE),
             CutOff(h)
      PROVE  MemberAges(g)
  <2>1. cutoff'[h] = cutoff[h] + 1 /\ \A x \in Person \ {h} : cutoff'[x] = cutoff[x]
    BY <1>3, CutOffRow
  <2>2. CASE g = h
    <3>1. /\ member'[h].object_version >= member[h].object_version
          /\ member'[h].object_version > member[h].object_version
          /\ cutoff'[h] >= cutoff[h] /\ cutoff'[h] > cutoff[h]
      BY <1>1, <1>3, <2>1 DEF MemberRow
    <3> QED
      BY <1>3, <2>2, <3>1 DEF MemberAges
  <2>3. CASE g # h
    BY <1>2, <1>3, <2>1, <2>3
  <2> QED
    BY <2>2, <2>3
<1> SUFFICES ASSUME NEW g \in Person PROVE MemberAges(g)
  OBVIOUS
<1>4. ASSUME UNCHANGED <<member, cutoff>> PROVE MemberAges(g)
  BY <1>2, <1>4
<1>5. CASE Operator
  <2>1. ASSUME NEW h \in Person, NEW role \in AssignedRole, NEW status \in Status,
               SetMembership(h, role, status)
        PROVE  MemberAges(g)
    <3>1. /\ \A x \in Person \ {h} : member'[x] = member[x]
          /\ member'[h].object_version = member[h].object_version + 1
          /\ member'[h].emergency_held = member[h].emergency_held
      BY <2>1, SetMemberRow DEF SetMembership
    <3>2. UNCHANGED cutoff /\ OperatorRestores
      BY <2>1 DEF SetMembership, OperatorRestores
    <3>3. CASE g = h
      <4>1. /\ member'[h].object_version >= member[h].object_version
            /\ member'[h].object_version > member[h].object_version
            /\ cutoff'[h] >= cutoff[h]
        BY <1>1, <3>1, <3>2 DEF MemberRow
      <4> QED
        BY <3>1, <3>2, <3>3, <4>1 DEF MemberAges
    <3>4. CASE g # h
      BY <1>2, <3>1, <3>2, <3>4
    <3> QED
      BY <3>3, <3>4
  <2>2. ASSUME \/ \E status \in {"active", "disabled"} : SetOrganizationStatus(status)
               \/ \E h \in Person, status \in {"active", "disabled"} :
                    SetHumanStatus(h, status)
        PROVE  MemberAges(g)
    BY <1>4, <2>2 DEF SetOrganizationStatus, SetHumanStatus
  <2> QED
    BY <1>5, <2>1, <2>2 DEF Operator, OperatorRestores
<1>6. CASE Browser
  BY <1>4, <1>6, BrowserWrites
<1>7. CASE Management
  <2> PICK s \in Session : Manages(s)
    BY <1>7, ManagementWrites
  <2>1. ASSUME NEW h \in Person, NEW role \in AssignedRole, NEW status \in Status,
               UpdateMember(s, h, role, status)
        PROVE  MemberAges(g)
    <3>1. /\ \A x \in Person \ {h} : member'[x] = member[x]
          /\ member'[h].object_version = member[h].object_version + 1
          /\ member'[h].emergency_held = member[h].emergency_held
      BY <2>1, SetMemberRow DEF UpdateMember
    <3> QED
      BY <1>3, <2>1, <3>1 DEF UpdateMember
  <2>2. ASSUME NEW h \in Person, RevokeOrganizationSessions(s, h)
        PROVE  MemberAges(g)
    <3>1. cutoff'[g] \in {cutoff[g], cutoff[g] + 1} /\ UNCHANGED member
      BY <2>2, CutOffRow DEF RevokeOrganizationSessions, rows
    <3> QED
      BY <1>2, <3>1
  <2>3. ASSUME NEW h \in Person, NEW held \in BOOLEAN, EmergencyChange(s, h, held)
        PROVE  MemberAges(g)
    <3>1. /\ \A x \in Person \ {h} : member'[x] = member[x]
          /\ member'[h].object_version = member[h].object_version + 1
          /\ member'[h].emergency_held = held
      BY <2>3, HeldRow
    <3>2. held => EmergencyChange(s, h, TRUE)
      BY <2>3
    <3>3. CutOff(h)
      BY <2>3 DEF EmergencyChange
    <3> QED
      BY <1>3, <3>1, <3>2, <3>3
  <2>4. ASSUME NEW i \in Invitation, NEW next \in Session, AcceptInvitation(s, i, next)
        PROVE  MemberAges(g)
    <3> DEFINE h == session[s].human
    <3>1. h \in Person
      BY <2>4, AuthenticatedPerson DEF AcceptInvitation
    <3>2. member' = [member EXCEPT ![h] = Joined(h, i)] /\ CutOff(h)
      BY <2>4 DEF AcceptInvitation
    <3> HIDE DEF h
    <3>3. member'[h] = Joined(h, i) /\ \A x \in Person \ {h} : member'[x] = member[x]
      BY <3>1, <3>2 DEF Typed, TypeOK
    <3>4. /\ Joined(h, i).emergency_held = member[h].emergency_held
          /\ Joined(h, i).object_version = member[h].object_version + 1
      BY <3>1, JoinedRow
    <3> QED
      BY <1>3, <3>1, <3>2, <3>3, <3>4
  <2>5. ASSUME \/ \E enabled \in BOOLEAN : UpdateSettings(s, enabled)
               \/ \E i \in Invitation, h \in Person, role \in AssignedRole \ {"owner"},
                     kind \in {"member", "guest"} : Invite(s, i, h, role, kind)
               \/ \E i \in Invitation : RevokeInvitation(s, i)
        PROVE  MemberAges(g)
    BY <1>4, <2>5 DEF UpdateSettings, Invite, RevokeInvitation, rows
  <2> QED
    BY <2>1, <2>2, <2>3, <2>4, <2>5 DEF Manages
<1>8. CASE Configuration
  <2> PICK s \in Session, enabled \in BOOLEAN : ConfigureConnection(s, enabled)
    BY <1>8 DEF Configuration
  <2>1. CASE Managed(g)
    <3>1. /\ member'[g].object_version = member[g].object_version + 1
          /\ member'[g].emergency_held = member[g].emergency_held
      BY <2>1, ConfiguredRow
    <3>2. cutoff'[g] = cutoff[g] + 1
      BY <2>1 DEF ConfigureConnection
    <3>3. /\ member'[g].object_version >= member[g].object_version
          /\ member'[g].object_version > member[g].object_version
          /\ cutoff'[g] >= cutoff[g] /\ cutoff'[g] > cutoff[g]
      BY <1>1, <3>1, <3>2 DEF MemberRow
    <3> QED
      BY <3>1, <3>3 DEF MemberAges
  <2>2. CASE ~Managed(g)
    <3>1. member'[g] = member[g]
      BY <2>2, ConfiguredRow
    <3>2. cutoff'[g] = cutoff[g]
      BY <2>2 DEF ConfigureConnection
    <3> QED
      BY <1>2, <3>1, <3>2
  <2> QED
    BY <2>1, <2>2
<1>9. CASE Federation
  <2>1. ASSUME NEW h \in Person, NEW active \in BOOLEAN, Provision(h, active)
        PROVE  MemberAges(g)
    <3>1. /\ member[h].role \in Role
          /\ member[h].access_kind = "guest" => member[h].role = "viewer"
      BY <1>1 DEF Typed, TypeOK, MemberRow
    <3>2. /\ \A x \in Person \ {h} : member'[x] = member[x]
          /\ member'[h].object_version = member[h].object_version + 1
          /\ member'[h].emergency_held = member[h].emergency_held
      BY <2>1, <3>1, SetMemberRow DEF Provision
    <3> QED
      BY <1>3, <2>1, <3>2 DEF Provision
  <2>2. ASSUME NEW h \in Person, Link(h)
        PROVE  MemberAges(g)
    <3>1. /\ member[h].role \in Role /\ member[h].status \in Status
          /\ member[h].access_kind = "guest" => member[h].role = "viewer"
      BY <1>1, <2>2 DEF Link, Typed, TypeOK, MemberRow
    <3>2. /\ \A x \in Person \ {h} : member'[x] = member[x]
          /\ member'[h].object_version = member[h].object_version + 1
          /\ member'[h].emergency_held = member[h].emergency_held
      BY <2>2, <3>1, SetMemberRow DEF Link
    <3> QED
      BY <1>3, <2>2, <3>2 DEF Link
  <2>3. ASSUME \/ \E t \in Ticket, h \in Person : FederatedTicket(t, h)
               \/ IssueCredential
        PROVE  MemberAges(g)
    BY <1>4, <2>3 DEF FederatedTicket, IssueCredential, rows
  <2> QED
    BY <1>9, <2>1, <2>2, <2>3 DEF Federation
<1>10. CASE Time
  <2>1. ASSUME NEW h \in Person, GuestLapses(h)
        PROVE  MemberAges(g)
    <3>1. /\ member[h].access_kind = "guest"
          /\ member' = [member EXCEPT ![h] = [member[h] EXCEPT !.unexpired = FALSE]]
          /\ UNCHANGED cutoff
      BY <2>1 DEF GuestLapses, Typed, TypeOK
    <3>2. LET row == [member[h] EXCEPT !.unexpired = FALSE] IN
          /\ row.status = member[h].status /\ row.role = member[h].role
          /\ row.access_kind = "guest" /\ ~row.unexpired
          /\ row.emergency_held = member[h].emergency_held
          /\ row.object_version = member[h].object_version
      BY <1>1, <3>1 DEF MemberRow
    <3>3. CASE g = h
      <4>1. /\ member'[g].status = member[g].status /\ member'[g].role = member[g].role
            /\ member'[g].access_kind = "guest" /\ ~member'[g].unexpired
            /\ member'[g].emergency_held = member[g].emergency_held
            /\ member'[g].object_version = member[g].object_version
        BY <3>1, <3>2, <3>3 DEF Typed, TypeOK
      <4>2. ~MembershipAccess(g)'
        BY <4>1 DEF MembershipAccess
      <4>3. /\ member'[g].object_version >= member[g].object_version
            /\ cutoff'[g] >= cutoff[g]
        BY <1>1, <3>1, <4>1 DEF MemberRow
      <4> QED
        BY <4>1, <4>2, <4>3 DEF MemberAges
    <3>4. CASE g # h
      <4>1. member'[g] = member[g] /\ cutoff'[g] = cutoff[g]
        BY <3>1, <3>4 DEF Typed, TypeOK
      <4> QED
        BY <1>2, <4>1
    <3> QED
      BY <3>3, <3>4
  <2>2. ASSUME NEW i \in Invitation, InvitationLapses(i)
        PROVE  MemberAges(g)
    BY <1>4, <2>2 DEF InvitationLapses, rows
  <2> QED
    BY <1>10, <2>1, <2>2 DEF Time
<1>11. CASE UNCHANGED vars
  BY <1>4, <1>11 DEF vars
<1> QED
  BY <1>5, <1>6, <1>7, <1>8, <1>9, <1>10, <1>11 DEF Next

(* A session stays what it is until it ends; a new one is of this moment.  *)
SessionFollows(s) ==
  \/ session'[s] = session[s]
  \/ session'[s] = NoSession
  \/ /\ session[s].human = Nobody
     /\ \E h \in Person :
          session'[s] = [human |-> h, auth_version |-> human'[h].auth_version,
                         created |-> cutoff'[h]]

LEMMA SessionsFollow ==
  Typed /\ [Next]_vars => \A s \in Session : SessionFollows(s)
<1> SUFFICES ASSUME Typed, [Next]_vars, NEW x \in Session PROVE SessionFollows(x)
  OBVIOUS
<1>1. ASSUME UNCHANGED session PROVE SessionFollows(x)
  BY <1>1 DEF SessionFollows
<1>2. ASSUME NEW s \in Session, NEW h \in Person, NEW ended,
             OpenSession(s, h, human'[h].auth_version, cutoff'[h], ended)
      PROVE  SessionFollows(x)
  <2>1. session[s].human = Nobody
    BY <1>2 DEF OpenSession
  <2>2. session'[x] =
          IF x = s THEN [human |-> h, auth_version |-> human'[h].auth_version,
                         created |-> cutoff'[h]]
          ELSE IF x \in ended THEN NoSession ELSE session[x]
    BY <1>2 DEF OpenSession
  <2> QED
    BY <2>1, <2>2 DEF SessionFollows
<1>3. CASE Browser
  <2>1. ASSUME NEW s \in Session, NEW h \in Person, NEW p \in Prior, LogIn(s, h, p)
        PROVE  SessionFollows(x)
    <3>1. /\ UNCHANGED <<human, cutoff>>
          /\ OpenSession(s, h, human[h].auth_version, cutoff[h], p)
      BY <2>1 DEF LogIn, rows
    <3>2. OpenSession(s, h, human'[h].auth_version, cutoff'[h], p)
      BY <3>1
    <3> QED
      BY <1>2, <3>2
  <2>2. ASSUME NEW s \in Session, NEW t \in Ticket, NEW p \in Prior,
               LogInFederated(s, t, p)
        PROVE  SessionFollows(x)
    <3> DEFINE h == ticket[t].human
    <3>1. h \in Person /\ ticket[t].auth_version = human[h].auth_version
      BY <2>2 DEF LogInFederated, TicketRedeemable, Typed, TypeOK, TicketRow
    <3>2. /\ UNCHANGED <<human, cutoff>>
          /\ OpenSession(s, h, ticket[t].auth_version, cutoff[h], p)
      BY <2>2 DEF LogInFederated, rows
    <3> HIDE DEF h
    <3>3. OpenSession(s, h, human'[h].auth_version, cutoff'[h], p)
      BY <3>1, <3>2
    <3> QED
      BY <1>2, <3>1, <3>3
  <2>3. ASSUME NEW s \in Session, RotateSession(s) PROVE SessionFollows(x)
    <3>1. session[s] \in SessionRow
      BY DEF Typed, TypeOK
    <3>2. [human |-> session[s].human, auth_version |-> session[s].auth_version,
           created |-> session[s].created] = session[s]
      BY <3>1 DEF SessionRow
    <3>3. session'[x] = session[x]
      BY <2>3, <3>2 DEF RotateSession, Typed, TypeOK
    <3> QED
      BY <3>3 DEF SessionFollows
  <2>4. ASSUME NEW s \in Session, SessionEnds(s) PROVE SessionFollows(x)
    BY <2>4 DEF SessionEnds, SessionFollows, Typed, TypeOK
  <2> QED
    BY <1>3, <2>1, <2>2, <2>3, <2>4 DEF Browser
<1>4. CASE Management
  <2> PICK s \in Session : Manages(s)
    BY <1>4, ManagementWrites
  <2>1. ASSUME NEW i \in Invitation, NEW next \in Session, AcceptInvitation(s, i, next)
        PROVE  SessionFollows(x)
    <3> DEFINE h == session[s].human
    <3>1. h \in Person /\ session[s].auth_version = human[h].auth_version
      BY <2>1, AuthenticatedPerson DEF AcceptInvitation, Authenticates
    <3>2. /\ UNCHANGED human /\ CutOff(h)
          /\ OpenSession(next, h, session[s].auth_version, cutoff[h] + 1, {s})
      BY <2>1 DEF AcceptInvitation
    <3> HIDE DEF h
    <3>3. cutoff'[h] = cutoff[h] + 1
      BY <3>1, <3>2, CutOffRow
    <3>4. OpenSession(next, h, human'[h].auth_version, cutoff'[h], {s})
      BY <3>1, <3>2, <3>3
    <3> QED
      BY <1>2, <3>1, <3>4
  <2>2. UNCHANGED session \/ \E i \in Invitation, next \in Session :
                               AcceptInvitation(s, i, next)
    BY DEF Manages, UpdateSettings, UpdateMember, RevokeOrganizationSessions,
           EmergencyChange, Invite, RevokeInvitation
  <2> QED
    BY <1>1, <2>1, <2>2
<1>5. CASE Operator
  BY <1>1, <1>5, OperatorWrites
<1>6. CASE Configuration
  BY <1>1, <1>6, ConfigurationWrites
<1>7. CASE Federation
  BY <1>1, <1>7, FederationWrites
<1>8. CASE Time
  BY <1>1, <1>8, TimeWrites
<1>9. CASE UNCHANGED vars
  BY <1>1, <1>9 DEF vars
<1> QED
  BY <1>3, <1>4, <1>5, <1>6, <1>7, <1>8, <1>9 DEF Next

(* So is the provider's ticket.                                            *)
TicketFollows(t) ==
  \/ ticket'[t] = ticket[t]
  \/ ticket'[t] = NoTicket
  \/ /\ ticket[t].human = Nobody
     /\ \E h \in Person :
          /\ Managed(h)
          /\ ticket'[t] = [human |-> h, auth_version |-> human[h].auth_version,
                           created |-> cutoff[h],
                           mapping_version |-> mapping[h].object_version,
                           connection_version |-> connection.object_version]

LEMMA TicketsFollow ==
  Typed /\ [Next]_vars => \A t \in Ticket : TicketFollows(t)
<1> SUFFICES ASSUME Typed, [Next]_vars, NEW x \in Ticket PROVE TicketFollows(x)
  OBVIOUS
<1>1. ASSUME UNCHANGED ticket PROVE TicketFollows(x)
  BY <1>1 DEF TicketFollows
<1>2. CASE Browser
  <2>1. ASSUME NEW s \in Session, NEW t \in Ticket, NEW p \in Prior,
               LogInFederated(s, t, p)
        PROVE  TicketFollows(x)
    BY <2>1 DEF LogInFederated, TicketFollows, Typed, TypeOK
  <2>2. \/ UNCHANGED ticket
        \/ \E s \in Session, t \in Ticket, p \in Prior : LogInFederated(s, t, p)
    BY <1>2 DEF Browser, LogIn, RotateSession, SessionEnds, federation
  <2> QED
    BY <1>1, <2>1, <2>2
<1>3. CASE Federation
  <2>1. ASSUME NEW t \in Ticket, NEW h \in Person, FederatedTicket(t, h)
        PROVE  TicketFollows(x)
    <3> DEFINE row == [human |-> h, auth_version |-> human[h].auth_version,
                       created |-> cutoff[h],
                       mapping_version |-> mapping[h].object_version,
                       connection_version |-> connection.object_version]
    <3>1. ticket[t].human = Nobody /\ Managed(h) /\ ticket' = [ticket EXCEPT ![t] = row]
      BY <2>1 DEF FederatedTicket
    <3>2. x # t => ticket'[x] = ticket[x]
      BY <3>1 DEF Typed, TypeOK
    <3>3. ticket'[t] = row
      BY <3>1 DEF Typed, TypeOK
    <3> QED
      BY <3>1, <3>2, <3>3 DEF TicketFollows
  <2>2. UNCHANGED ticket \/ \E t \in Ticket, h \in Person : FederatedTicket(t, h)
    BY <1>3 DEF Federation, Provision, Link, IssueCredential
  <2> QED
    BY <1>1, <2>1, <2>2
<1>4. CASE Operator
  BY <1>1, <1>4, OperatorWrites
<1>5. CASE Management
  BY <1>1, <1>5, ManagementWrites
<1>6. CASE Configuration
  BY <1>1, <1>6, ConfigurationWrites
<1>7. CASE Time
  BY <1>1, <1>7, TimeWrites
<1>8. CASE UNCHANGED vars
  BY <1>1, <1>8 DEF vars
<1> QED
  BY <1>2, <1>3, <1>4, <1>5, <1>6, <1>7, <1>8 DEF Next

(* An invitation that has been made can be withdrawn, accepted or expire;  *)
(* a new one is between people who are not held, and of this moment.       *)
InvitationPasses(i) ==
  /\ invitation[i].state # "none" /\ invitation'[i].state # "none"
  /\ invitation'[i].state # "pending" \/ ~invitation'[i].unexpired
  /\ invitation'[i].state = "pending" => invitation[i].state = "pending"
  /\ invitation'[i].human = invitation[i].human
  /\ invitation'[i].inviter = invitation[i].inviter
  /\ invitation'[i].inviter_version = invitation[i].inviter_version
  /\ invitation'[i].settings_version = invitation[i].settings_version
  /\ invitation'[i].org_version = invitation[i].org_version

InvitationOpens(i) ==
  /\ invitation[i].state = "none"
  /\ invitation'[i].human \in Person /\ invitation'[i].inviter \in Person
  /\ ~member[invitation'[i].human].emergency_held
  /\ ~member[invitation'[i].inviter].emergency_held
  /\ invitation'[i].inviter_version = member[invitation'[i].inviter].object_version
  /\ invitation'[i].settings_version = settings.object_version
  /\ invitation'[i].org_version = org.object_version

InvitationFollows(i) ==
  invitation'[i] = invitation[i] \/ InvitationPasses(i) \/ InvitationOpens(i)

LEMMA InvitationsFollow ==
  Typed /\ [Next]_vars => \A i \in Invitation : InvitationFollows(i)
<1> SUFFICES ASSUME Typed, [Next]_vars, NEW x \in Invitation PROVE InvitationFollows(x)
  OBVIOUS
<1>1. ASSUME UNCHANGED invitation PROVE InvitationFollows(x)
  BY <1>1 DEF InvitationFollows
<1>2. ASSUME NEW I, Withdraw(I) PROVE InvitationFollows(x)
  <2>1. CASE invitation'[x] = invitation[x]
    BY <2>1 DEF InvitationFollows
  <2>2. CASE invitation'[x] # invitation[x]
    <3>1. invitation[x].state = "pending" /\ invitation'[x].state # "pending"
      BY <1>2, <2>2, WithdrawnRows
    <3>2. invitation'[x].state # "none"
      BY <1>2, <3>1, WithdrawnRows
    <3> QED
      BY <1>2, <3>1, <3>2, WithdrawnRows DEF InvitationFollows, InvitationPasses
  <2> QED
    BY <2>1, <2>2
<1>3. CASE Management
  <2> PICK s \in Session : Manages(s)
    BY <1>3, ManagementWrites
  <2>1. ASSUME NEW i \in Invitation, NEW h \in Person,
               NEW role \in AssignedRole \ {"owner"}, NEW kind \in {"member", "guest"},
               Invite(s, i, h, role, kind)
        PROVE  InvitationFollows(x)
    <3> DEFINE n == session[s].human
               row == [state |-> "pending", human |-> h, inviter |-> n,
                       role |-> role, access_kind |-> kind, unexpired |-> TRUE,
                       inviter_version |-> member[n].object_version,
                       settings_version |-> settings.object_version,
                       org_version |-> org.object_version]
    <3>1. n \in Person
      BY <2>1, AdmittedPerson DEF Invite
    <3>2. ~member[n].emergency_held
      BY <2>1 DEF Invite, AdmittedOwner, Admitted, MembershipAccess
    <3>3. invitation[i].state = "none" /\ ~member[h].emergency_held
      BY <2>1 DEF Invite, Invitable
    <3>4. invitation' = [invitation EXCEPT ![i] = row]
      BY <2>1 DEF Invite
    <3>5. CASE x = i
      <4>1. invitation'[x] = row
        BY <3>4, <3>5 DEF Typed, TypeOK
      <4> HIDE DEF n
      <4> QED
        BY <3>1, <3>2, <3>3, <3>5, <4>1 DEF InvitationFollows, InvitationOpens
    <3>6. CASE x # i
      <4>1. invitation'[x] = invitation[x]
        BY <3>4, <3>6 DEF Typed, TypeOK
      <4> QED
        BY <4>1 DEF InvitationFollows
    <3> QED
      BY <3>5, <3>6
  <2>2. ASSUME NEW i \in Invitation, NEW next \in Session, AcceptInvitation(s, i, next)
        PROVE  InvitationFollows(x)
    <3>1. /\ invitation[i].state = "pending"
          /\ invitation' = [invitation EXCEPT ![i] =
                              [invitation[i] EXCEPT !.state = "accepted"]]
      BY <2>2 DEF AcceptInvitation, Acceptable, Typed, TypeOK
    <3>2. invitation[i] \in InvitationRow
      BY DEF Typed, TypeOK
    <3>3. CASE x = i
      <4>1. invitation'[x] = [invitation[x] EXCEPT !.state = "accepted"]
        BY <3>1, <3>3 DEF Typed, TypeOK
      <4>2. /\ invitation'[x].state = "accepted"
            /\ invitation'[x].human = invitation[x].human
            /\ invitation'[x].inviter = invitation[x].inviter
            /\ invitation'[x].inviter_version = invitation[x].inviter_version
            /\ invitation'[x].settings_version = invitation[x].settings_version
            /\ invitation'[x].org_version = invitation[x].org_version
        BY <3>2, <3>3, <4>1 DEF InvitationRow
      <4> QED
        BY <3>1, <3>3, <4>2 DEF InvitationFollows, InvitationPasses
    <3>4. CASE x # i
      <4>1. invitation'[x] = invitation[x]
        BY <3>1, <3>4 DEF Typed, TypeOK
      <4> QED
        BY <4>1 DEF InvitationFollows
    <3> QED
      BY <3>3, <3>4
  <2>3. \/ UNCHANGED invitation
        \/ \E I : Withdraw(I)
        \/ \E i \in Invitation, h \in Person, role \in AssignedRole \ {"owner"},
              kind \in {"member", "guest"} : Invite(s, i, h, role, kind)
        \/ \E i \in Invitation, next \in Session : AcceptInvitation(s, i, next)
    BY DEF Manages, UpdateSettings, UpdateMember, RevokeOrganizationSessions,
           EmergencyChange, RevokeInvitation
  <2> QED
    BY <1>1, <1>2, <2>1, <2>2, <2>3
<1>4. CASE Federation
  <2>1. UNCHANGED invitation \/ \E I : Withdraw(I)
    BY <1>4 DEF Federation, FederatedTicket, Provision, Link, IssueCredential
  <2> QED
    BY <1>1, <1>2, <2>1
<1>5. CASE Time
  <2>1. ASSUME NEW i \in Invitation, InvitationLapses(i) PROVE InvitationFollows(x)
    <3>1. /\ invitation[i].state = "pending"
          /\ invitation' = [invitation EXCEPT ![i] =
                              [invitation[i] EXCEPT !.unexpired = FALSE]]
      BY <2>1 DEF InvitationLapses, Typed, TypeOK
    <3>2. invitation[i] \in InvitationRow
      BY DEF Typed, TypeOK
    <3>3. CASE x = i
      <4>1. invitation'[x] = [invitation[x] EXCEPT !.unexpired = FALSE]
        BY <3>1, <3>3 DEF Typed, TypeOK
      <4>2. /\ invitation'[x].state = invitation[x].state
            /\ ~invitation'[x].unexpired
            /\ invitation'[x].human = invitation[x].human
            /\ invitation'[x].inviter = invitation[x].inviter
            /\ invitation'[x].inviter_version = invitation[x].inviter_version
            /\ invitation'[x].settings_version = invitation[x].settings_version
            /\ invitation'[x].org_version = invitation[x].org_version
        BY <3>2, <3>3, <4>1 DEF InvitationRow
      <4> QED
        BY <3>1, <3>3, <4>2 DEF InvitationFollows, InvitationPasses
    <3>4. CASE x # i
      <4>1. invitation'[x] = invitation[x]
        BY <3>1, <3>4 DEF Typed, TypeOK
      <4> QED
        BY <4>1 DEF InvitationFollows
    <3> QED
      BY <3>3, <3>4
  <2>2. ASSUME NEW h \in Person, GuestLapses(h) PROVE InvitationFollows(x)
    BY <1>1, <2>2 DEF GuestLapses
  <2> QED
    BY <1>5, <2>1, <2>2 DEF Time
<1>6. CASE Operator
  BY <1>1, <1>6, OperatorWrites
<1>7. CASE Browser
  BY <1>1, <1>7, BrowserWrites
<1>8. CASE Configuration
  BY <1>1, <1>8, ConfigurationWrites
<1>9. CASE UNCHANGED vars
  BY <1>1, <1>9 DEF vars
<1> QED
  BY <1>3, <1>4, <1>5, <1>6, <1>7, <1>8, <1>9 DEF Next

-----------------------------------------------------------------------------
(* The inductive invariant.                                                *)

(* Every version and cutoff of a row that is remembered elsewhere grows.   *)
LEMMA VersionsGrow ==
  ASSUME Typed, [Next]_vars
  PROVE  /\ \A h \in Person :
              /\ human'[h].auth_version >= human[h].auth_version
              /\ cutoff'[h] >= cutoff[h]
              /\ member'[h].object_version >= member[h].object_version
              /\ mapping'[h].object_version >= mapping[h].object_version
         /\ connection'.object_version >= connection.object_version
         /\ settings'.object_version >= settings.object_version
         /\ org'.object_version >= org.object_version
<1>1. Typed' /\ AccountsAge /\ ProviderAges
  BY TypedStep, AccountsOnlyAge, ProviderOnlyAges
<1>2. ASSUME NEW h \in Person
      PROVE  /\ human'[h].auth_version >= human[h].auth_version
             /\ cutoff'[h] >= cutoff[h]
             /\ member'[h].object_version >= member[h].object_version
             /\ mapping'[h].object_version >= mapping[h].object_version
  <2>1. \/ human'[h] = human[h]
        \/ human'[h].auth_version > human[h].auth_version
    BY <1>1 DEF AccountsAge
  <2>2. human[h].auth_version \in Nat /\ human'[h].auth_version \in Nat
    BY <1>1 DEF Typed, TypeOK, HumanRow
  <2>3. human'[h].auth_version >= human[h].auth_version
    BY <2>1, <2>2
  <2>4. /\ cutoff'[h] >= cutoff[h]
        /\ member'[h].object_version >= member[h].object_version
    BY MembersOnlyAge, Zenon DEF MemberAges
  <2>5. mapping'[h].object_version >= mapping[h].object_version
    BY <1>1, Zenon DEF ProviderAges
  <2> QED
    BY <2>3, <2>4, <2>5
<1>3. connection'.object_version >= connection.object_version
  BY <1>1 DEF ProviderAges
<1>4. /\ settings'.object_version >= settings.object_version
      /\ org'.object_version >= org.object_version
  <2>1. /\ settings.object_version \in Nat /\ settings'.object_version \in Nat
        /\ org.object_version \in Nat /\ org'.object_version \in Nat
    BY <1>1 DEF Typed, TypeOK
  <2>2. /\ org' = org \/ org'.object_version > org.object_version
        /\ settings' = settings \/ settings'.object_version > settings.object_version
    BY <1>1, Zenon DEF AccountsAge
  <2> QED
    BY <2>1, <2>2
<1> QED
  BY <1>2, <1>3, <1>4

LEMMA NothingComesFromTheFuture ==
  ASSUME Typed, NothingFromTheFuture, [Next]_vars
  PROVE  NothingFromTheFuture'
<1>1. Typed'
  BY TypedStep
<1>2. ASSUME NEW s \in Session PROVE SessionOfThePast(s)'
  <2>1. CASE session'[s] = session[s]
    <3> DEFINE h == session[s].human
    <3> SUFFICES ASSUME h # Nobody
                 PROVE  /\ session[s].auth_version <= human'[h].auth_version
                        /\ session[s].created <= cutoff'[h]
      BY <2>1 DEF SessionOfThePast
    <3>1. session[s] \in SessionRow /\ h \in Person
      BY DEF Typed, TypeOK, SessionRow
    <3>2. /\ session[s].auth_version <= human[h].auth_version
          /\ session[s].created <= cutoff[h]
      BY DEF NothingFromTheFuture, SessionOfThePast
    <3> HIDE DEF h
    <3>3. /\ session[s].auth_version \in Nat /\ session[s].created \in Nat
          /\ human[h].auth_version \in Nat /\ human'[h].auth_version \in Nat
          /\ cutoff[h] \in Nat /\ cutoff'[h] \in Nat
      BY <1>1, <3>1 DEF Typed, TypeOK, HumanRow, SessionRow
    <3>4. human'[h].auth_version >= human[h].auth_version /\ cutoff'[h] >= cutoff[h]
      BY <3>1, VersionsGrow
    <3> QED
      BY <3>2, <3>3, <3>4
  <2>2. CASE session'[s] = NoSession
    BY <2>2 DEF NoSession, SessionOfThePast
  <2>3. ASSUME NEW h \in Person,
               session'[s] = [human |-> h, auth_version |-> human'[h].auth_version,
                              created |-> cutoff'[h]]
        PROVE  SessionOfThePast(s)'
    <3>1. human'[h].auth_version \in Nat /\ cutoff'[h] \in Nat
      BY <1>1 DEF Typed, TypeOK, HumanRow
    <3> QED
      BY <2>3, <3>1 DEF SessionOfThePast
  <2> QED
    BY <2>1, <2>2, <2>3, SessionsFollow DEF SessionFollows
<1>3. ASSUME NEW t \in Ticket PROVE TicketOfThePast(t)'
  <2>1. ASSUME NEW h \in Person, Managed(h),
               ticket'[t].human = h,
               ticket'[t].auth_version <= human[h].auth_version,
               ticket'[t].created <= cutoff[h],
               ticket'[t].mapping_version <= mapping[h].object_version,
               ticket'[t].connection_version <= connection.object_version
        PROVE  TicketOfThePast(t)'
    <3>1. ticket'[t] \in TicketRow
      BY <1>1 DEF Typed, TypeOK
    <3>2. /\ human[h].auth_version \in Nat /\ human'[h].auth_version \in Nat
          /\ cutoff[h] \in Nat /\ cutoff'[h] \in Nat
          /\ mapping[h].object_version \in Nat /\ mapping'[h].object_version \in Nat
          /\ connection.object_version \in Nat /\ connection'.object_version \in Nat
      BY <1>1 DEF Typed, TypeOK, HumanRow
    <3>3. /\ human'[h].auth_version >= human[h].auth_version
          /\ cutoff'[h] >= cutoff[h]
          /\ mapping'[h].object_version >= mapping[h].object_version
          /\ connection'.object_version >= connection.object_version
      BY VersionsGrow
    <3>4. mapping'[h].object_version > 0
      BY <2>1, <3>2, <3>3 DEF Managed
    <3>5. /\ ticket'[t].auth_version <= human'[h].auth_version
          /\ ticket'[t].created <= cutoff'[h]
          /\ ticket'[t].mapping_version <= mapping'[h].object_version
          /\ ticket'[t].connection_version <= connection'.object_version
      BY <2>1, <3>1, <3>2, <3>3 DEF TicketRow
    <3> QED
      BY <2>1, <3>4, <3>5 DEF TicketOfThePast, Managed
  <2>2. CASE ticket'[t] = ticket[t]
    <3>1. CASE ticket[t].human = Nobody
      BY <2>2, <3>1 DEF TicketOfThePast
    <3>2. CASE ticket[t].human # Nobody
      <4>1. ticket[t].human \in Person
        BY <3>2 DEF Typed, TypeOK, TicketRow
      <4>2. TicketOfThePast(t)
        BY DEF NothingFromTheFuture
      <4> QED
        BY <2>1, <2>2, <3>2, <4>1, <4>2 DEF TicketOfThePast
    <3> QED
      BY <3>1, <3>2
  <2>3. CASE ticket'[t] = NoTicket
    BY <2>3 DEF NoTicket, TicketOfThePast
  <2>4. ASSUME NEW h \in Person, Managed(h),
               ticket'[t] = [human |-> h, auth_version |-> human[h].auth_version,
                             created |-> cutoff[h],
                             mapping_version |-> mapping[h].object_version,
                             connection_version |-> connection.object_version]
        PROVE  TicketOfThePast(t)'
    <3>1. /\ human[h].auth_version \in Nat /\ cutoff[h] \in Nat
          /\ mapping[h].object_version \in Nat /\ connection.object_version \in Nat
      BY DEF Typed, TypeOK, HumanRow
    <3>2. /\ ticket'[t].human = h
          /\ ticket'[t].auth_version <= human[h].auth_version
          /\ ticket'[t].created <= cutoff[h]
          /\ ticket'[t].mapping_version <= mapping[h].object_version
          /\ ticket'[t].connection_version <= connection.object_version
      BY <2>4, <3>1
    <3> QED
      BY <2>1, <2>4, <3>2
  <2> QED
    BY <2>2, <2>3, <2>4, TicketsFollow DEF TicketFollows
<1>4. ASSUME NEW i \in Invitation PROVE InvitationOfThePast(i)'
  <2>1. ASSUME NEW n \in Person,
               invitation'[i].inviter = n, invitation'[i].human \in Person,
               invitation'[i].inviter_version <= member[n].object_version,
               invitation'[i].settings_version <= settings.object_version,
               invitation'[i].org_version <= org.object_version
        PROVE  InvitationOfThePast(i)'
    <3>1. /\ invitation'[i].inviter_version \in Nat
          /\ invitation'[i].settings_version \in Nat
          /\ invitation'[i].org_version \in Nat
          /\ member[n].object_version \in Nat /\ member'[n].object_version \in Nat
          /\ settings.object_version \in Nat /\ settings'.object_version \in Nat
          /\ org.object_version \in Nat /\ org'.object_version \in Nat
      BY <1>1 DEF Typed, TypeOK, MemberRow, InvitationRow
    <3>2. /\ member'[n].object_version >= member[n].object_version
          /\ settings'.object_version >= settings.object_version
          /\ org'.object_version >= org.object_version
      BY VersionsGrow
    <3>3. /\ invitation'[i].inviter_version <= member'[n].object_version
          /\ invitation'[i].settings_version <= settings'.object_version
          /\ invitation'[i].org_version <= org'.object_version
      BY <2>1, <3>1, <3>2
    <3> QED
      BY <2>1, <3>3 DEF InvitationOfThePast
  <2>2. CASE invitation'[i].state = "none"
    BY <2>2 DEF InvitationOfThePast
  <2>3. CASE \/ invitation'[i] = invitation[i] /\ invitation'[i].state # "none"
             \/ InvitationPasses(i)
    <3>1. /\ invitation[i].state # "none"
          /\ invitation'[i].human = invitation[i].human
          /\ invitation'[i].inviter = invitation[i].inviter
          /\ invitation'[i].inviter_version = invitation[i].inviter_version
          /\ invitation'[i].settings_version = invitation[i].settings_version
          /\ invitation'[i].org_version = invitation[i].org_version
      BY <2>3 DEF InvitationPasses
    <3>2. InvitationOfThePast(i)
      BY DEF NothingFromTheFuture
    <3> QED
      BY <2>1, <3>1, <3>2 DEF InvitationOfThePast
  <2>4. CASE InvitationOpens(i)
    <3>1. /\ \A n \in Person : member[n].object_version \in Nat
          /\ settings.object_version \in Nat /\ org.object_version \in Nat
      BY DEF Typed, TypeOK, MemberRow
    <3>2. /\ invitation'[i].inviter \in Person /\ invitation'[i].human \in Person
          /\ invitation'[i].inviter_version <= member[invitation'[i].inviter].object_version
          /\ invitation'[i].settings_version <= settings.object_version
          /\ invitation'[i].org_version <= org.object_version
      BY <2>4, <3>1 DEF InvitationOpens
    <3> QED
      BY <2>1, <3>2
  <2> QED
    BY <2>2, <2>3, <2>4, InvitationsFollow DEF InvitationFollows
<1> QED
  BY <1>2, <1>3, <1>4 DEF NothingFromTheFuture

LEMMA HeldStayUninvited ==
  ASSUME Typed, HeldHaveNoInvitations, [Next]_vars
  PROVE  HeldHaveNoInvitations'
<1> SUFFICES ASSUME NEW h \in Person, member'[h].emergency_held,
                    NEW i \in Invitation,
                    h \in {invitation'[i].human, invitation'[i].inviter}
             PROVE  invitation'[i].state # "pending"
  BY DEF HeldHaveNoInvitations, Concerning
<1>1. CASE member[h].emergency_held
  <2>1. h \in {invitation[i].human, invitation[i].inviter}
          => invitation[i].state # "pending"
    BY <1>1 DEF HeldHaveNoInvitations, Concerning
  <2>2. CASE InvitationOpens(i)
    BY <1>1, <2>2 DEF InvitationOpens
  <2>3. CASE invitation'[i] = invitation[i] \/ InvitationPasses(i)
    BY <2>1, <2>3 DEF InvitationPasses
  <2> QED
    BY <2>2, <2>3, InvitationsFollow DEF InvitationFollows
<1>2. CASE ~member[h].emergency_held
  <2>1. PICK s \in Session : EmergencyChange(s, h, TRUE)
    BY <1>2, MembersOnlyAge DEF MemberAges
  <2>2. Withdraw(Concerning(h))
    BY <2>1 DEF EmergencyChange
  <2>3. /\ invitation'[i].human = invitation[i].human
        /\ invitation'[i].inviter = invitation[i].inviter
        /\ i \in Concerning(h) => invitation'[i].state # "pending"
    BY <2>2, WithdrawnRows
  <2> QED
    BY <2>3 DEF Concerning
<1> QED
  BY <1>1, <1>2

LEMMA IInvInductive == Spec => []IInv
<1>1. Init => IInv
  <2> SUFFICES ASSUME Init PROVE IInv
    OBVIOUS
  <2>1. NothingFromTheFuture
    BY DEF Init, NoSession, NoTicket, NoInvitation, NothingFromTheFuture,
           SessionOfThePast, TicketOfThePast, InvitationOfThePast
  <2>2. HeldHaveNoInvitations
    BY DEF Init, HeldHaveNoInvitations
  <2> QED
    BY <2>1, <2>2, TypedInit DEF IInv
<1>2. IInv /\ [Next]_vars => IInv'
  BY TypedStep, NothingComesFromTheFuture, HeldStayUninvited DEF IInv
<1> QED
  BY <1>1, <1>2, PTL DEF Spec

-----------------------------------------------------------------------------
(* Theorems.                                                               *)

(* Every row always has values of its columns' types and a guest is a      *)
(* viewer, so that no transaction of organizations.ts is refused by the    *)
(* CHECKs of its tables.                                                   *)
THEOREM TypeCorrect == Spec => []TypeOK
<1>1. IInv => TypeOK
  BY DEF IInv, Typed
<1> QED
  BY <1>1, IInvInductive, PTL

(* Neither by nor for a member who is held is there ever an open           *)
(* invitation: emergencyChange() withdraws theirs, and inviteMember()      *)
(* makes none.                                                             *)
THEOREM HeldNeverHaveInvitations == Spec => []HeldHaveNoInvitations
<1>1. IInv => HeldHaveNoInvitations
  BY DEF IInv
<1> QED
  BY <1>1, IInvInductive, PTL

(* A session that current() refuses is refused for good, unless an         *)
(* operator restores the membership or the organization: whatever lets a   *)
(* member in again cuts their sessions off in the same transaction.        *)
THEOREM SessionsAlwaysStayOut == Spec => SessionsStayOut
<1>1. ASSUME IInv, [Next]_vars, NEW s \in Session, session[s].human # Nobody,
             Admitted(s)', ~OperatorRestores
      PROVE  Admitted(s)
  <2>1. Typed /\ Typed' /\ SessionOfThePast(s)
    BY <1>1, TypedStep DEF IInv, NothingFromTheFuture
  <2> PICK h \in Person : session[s].human = h
    BY <1>1, <2>1 DEF Typed, TypeOK, SessionRow
  <2>2. session'[s] = session[s]
    <3>1. session'[s].human # Nobody
      BY <1>1 DEF Admitted, Authenticates
    <3>2. session'[s] # NoSession
      BY <3>1 DEF NoSession
    <3> QED
      BY <1>1, <2>1, <3>2, SessionsFollow DEF SessionFollows
  <2>3. /\ session[s] \in SessionRow
        /\ session[s].auth_version <= human[h].auth_version
        /\ session[s].created <= cutoff[h]
    BY <1>1, <2>1 DEF SessionOfThePast, Typed, TypeOK, SessionRow
  <2>4. /\ human'[h].status = "active" /\ session[s].auth_version = human'[h].auth_version
        /\ org'.status = "active" /\ MembershipAccess(h)'
        /\ session[s].created >= cutoff'[h]
    BY <1>1, <2>2 DEF Admitted, Authenticates, MembershipAccess
  <2>5. /\ session[s].auth_version \in Nat /\ session[s].created \in Nat
        /\ human[h].auth_version \in Nat /\ human'[h].auth_version \in Nat
        /\ cutoff[h] \in Nat /\ cutoff'[h] \in Nat
    BY <2>1, <2>3 DEF Typed, TypeOK, HumanRow, SessionRow
  <2>6. human'[h] = human[h]
    <3>1. \/ human'[h] = human[h]
          \/ human'[h].auth_version > human[h].auth_version
      BY <1>1, <2>1, <2>3, AccountsOnlyAge, Zenon DEF AccountsAge
    <3> QED
      BY <2>3, <2>4, <2>5, <3>1
  <2>7. session[s].created >= cutoff[h] /\ ~(cutoff'[h] > cutoff[h])
    <3>1. cutoff'[h] >= cutoff[h]
      BY <1>1, <2>1, <2>3, VersionsGrow
    <3> QED
      BY <2>3, <2>4, <2>5, <3>1
  <2>8. MembershipAccess(h)
    BY <1>1, <2>1, <2>3, <2>4, <2>7, MembersOnlyAge DEF MemberAges
  <2>9. org.status = "active"
    BY <1>1, <2>1, <2>4, AccountsOnlyAge DEF AccountsAge
  <2> QED
    BY <1>1, <2>4, <2>6, <2>7, <2>8, <2>9 DEF Admitted, Authenticates
<1>2. IInv /\ [Next]_vars =>
        [\/ \A s \in Session :
              session[s].human # Nobody /\ ~Admitted(s) => ~Admitted(s)'
         \/ OperatorRestores]_vars
  BY <1>1
<1> QED
  BY <1>2, IInvInductive, PTL DEF Spec, SessionsStayOut

(* So is a ticket of the identity provider: it names the versions of the   *)
(* mapping, the connection and the account it was issued under.            *)
THEOREM TicketsAlwaysStayVoid == Spec => TicketsStayVoid
<1>1. ASSUME IInv, [Next]_vars, NEW t \in Ticket, ticket[t].human # Nobody,
             TicketRedeemable(t)', ~OperatorRestores
      PROVE  TicketRedeemable(t)
  <2>1. Typed /\ Typed' /\ TicketOfThePast(t)
    BY <1>1, TypedStep DEF IInv, NothingFromTheFuture
  <2> PICK h \in Person : ticket[t].human = h
    BY <1>1, <2>1 DEF Typed, TypeOK, TicketRow
  <2>2. ticket'[t] = ticket[t]
    <3>1. ticket'[t].human # Nobody
      BY <1>1 DEF TicketRedeemable
    <3>2. ticket'[t] # NoTicket
      BY <3>1 DEF NoTicket
    <3> QED
      BY <1>1, <2>1, <3>2, TicketsFollow DEF TicketFollows
  <2>3. /\ ticket[t] \in TicketRow
        /\ ticket[t].auth_version <= human[h].auth_version
        /\ ticket[t].created <= cutoff[h]
        /\ ticket[t].mapping_version <= mapping[h].object_version
        /\ ticket[t].connection_version <= connection.object_version
    BY <1>1, <2>1 DEF TicketOfThePast, Typed, TypeOK, TicketRow
  <2>4. /\ human'[h].status = "active" /\ ticket[t].auth_version = human'[h].auth_version
        /\ org'.status = "active" /\ MembershipAccess(h)'
        /\ mapping'[h].active /\ connection'.enabled
        /\ ticket[t].mapping_version = mapping'[h].object_version
        /\ ticket[t].connection_version = connection'.object_version
        /\ ticket[t].created >= cutoff'[h]
    BY <1>1, <2>2 DEF TicketRedeemable, MembershipAccess
  <2>5. /\ ticket[t].auth_version \in Nat /\ ticket[t].created \in Nat
        /\ human[h].auth_version \in Nat /\ human'[h].auth_version \in Nat
        /\ cutoff[h] \in Nat /\ cutoff'[h] \in Nat
        /\ mapping[h].object_version \in Nat /\ mapping'[h].object_version \in Nat
        /\ connection.object_version \in Nat /\ connection'.object_version \in Nat
    BY <2>1, <2>3 DEF Typed, TypeOK, HumanRow, TicketRow
  <2>6. human'[h] = human[h]
    <3>1. \/ human'[h] = human[h]
          \/ human'[h].auth_version > human[h].auth_version
      BY <1>1, <2>1, <2>3, AccountsOnlyAge, Zenon DEF AccountsAge
    <3> QED
      BY <2>3, <2>4, <2>5, <3>1
  <2>7. /\ ticket[t].created >= cutoff[h] /\ ~(cutoff'[h] > cutoff[h])
        /\ mapping'[h].object_version = mapping[h].object_version
        /\ connection'.object_version = connection.object_version
    <3>1. /\ cutoff'[h] >= cutoff[h]
          /\ mapping'[h].object_version >= mapping[h].object_version
          /\ connection'.object_version >= connection.object_version
      BY <1>1, <2>1, <2>3, VersionsGrow
    <3> QED
      BY <2>3, <2>4, <2>5, <3>1
  <2>8. MembershipAccess(h)
    BY <1>1, <2>1, <2>3, <2>4, <2>7, MembersOnlyAge DEF MemberAges
  <2>9. org.status = "active"
    BY <1>1, <2>1, <2>4, AccountsOnlyAge DEF AccountsAge
  <2>10. mapping[h].active /\ connection.enabled
    <3>1. /\ ~(mapping'[h].object_version > mapping[h].object_version)
          /\ ~(connection'.object_version > connection.object_version)
      BY <2>5, <2>7
    <3> QED
      BY <1>1, <2>1, <2>3, <2>4, <3>1, ProviderOnlyAges DEF ProviderAges
  <2> QED
    BY <1>1, <2>4, <2>6, <2>7, <2>8, <2>9, <2>10 DEF TicketRedeemable
<1>2. IInv /\ [Next]_vars =>
        [\/ \A t \in Ticket :
              ticket[t].human # Nobody /\ ~TicketRedeemable(t)
                => ~TicketRedeemable(t)'
         \/ OperatorRestores]_vars
  BY <1>1
<1> QED
  BY <1>2, IInvInductive, PTL DEF Spec, TicketsStayVoid

(* And an invitation that load() in acceptInvitation() refuses, but for an *)
(* inviter whose account is enabled again.                                 *)
THEOREM InvitationsAlwaysStayVoid == Spec => InvitationsStayVoid
<1>1. ASSUME IInv, [Next]_vars, NEW i \in Invitation, invitation[i].state # "none",
             Acceptable(i)', ~\E h \in Person : SetHumanStatus(h, "active")
      PROVE  Acceptable(i)
  <2> DEFINE n == invitation[i].inviter
  <2>1. Typed /\ Typed' /\ InvitationOfThePast(i)
    BY <1>1, TypedStep DEF IInv, NothingFromTheFuture
  <2>2. invitation'[i] = invitation[i]
    <3>1. invitation'[i].state = "pending" /\ invitation'[i].unexpired
      BY <1>1 DEF Acceptable
    <3>2. ~InvitationPasses(i) /\ ~InvitationOpens(i)
      BY <1>1, <3>1 DEF InvitationPasses, InvitationOpens
    <3> QED
      BY <1>1, <2>1, <3>2, InvitationsFollow DEF InvitationFollows
  <2>3. /\ n \in Person /\ invitation[i] \in InvitationRow
        /\ invitation[i].inviter_version <= member[n].object_version
        /\ invitation[i].settings_version <= settings.object_version
        /\ invitation[i].org_version <= org.object_version
    BY <1>1, <2>1 DEF InvitationOfThePast, Typed, TypeOK
  <2>4. /\ invitation[i].state = "pending" /\ invitation[i].unexpired
        /\ member'[n].status = "active" /\ member'[n].role = "owner"
        /\ human'[n].status = "active" /\ org'.status = "active"
        /\ member'[n].object_version = invitation[i].inviter_version
        /\ org'.object_version = invitation[i].org_version
        /\ settings'.object_version = invitation[i].settings_version
        /\ settings'.invitations_enabled
    BY <1>1, <2>2 DEF Acceptable
  <2> HIDE DEF n
  <2>5. /\ invitation[i].inviter_version \in Nat
        /\ invitation[i].settings_version \in Nat /\ invitation[i].org_version \in Nat
        /\ member[n].object_version \in Nat /\ member'[n].object_version \in Nat
        /\ settings.object_version \in Nat /\ settings'.object_version \in Nat
        /\ org.object_version \in Nat /\ org'.object_version \in Nat
    BY <2>1, <2>3 DEF Typed, TypeOK, MemberRow, InvitationRow
  <2>6. /\ member'[n].object_version = member[n].object_version
        /\ settings'.object_version = settings.object_version
        /\ org'.object_version = org.object_version
    <3>1. /\ member'[n].object_version >= member[n].object_version
          /\ settings'.object_version >= settings.object_version
          /\ org'.object_version >= org.object_version
      BY <1>1, <2>1, <2>3, VersionsGrow
    <3> QED
      BY <2>3, <2>4, <2>5, <3>1
  <2>7. /\ ~(member'[n].object_version > member[n].object_version)
        /\ ~(settings'.object_version > settings.object_version)
        /\ ~(org'.object_version > org.object_version)
    BY <2>5, <2>6
  <2>8. member[n].status = "active" /\ member[n].role = "owner"
    BY <1>1, <2>1, <2>3, <2>4, <2>7, MembersOnlyAge DEF MemberAges
  <2>9. human[n].status = "active" /\ settings' = settings /\ org' = org
    BY <1>1, <2>1, <2>3, <2>4, <2>7, AccountsOnlyAge DEF AccountsAge
  <2> QED
    BY <2>4, <2>6, <2>8, <2>9 DEF n, Acceptable
<1>2. IInv /\ [Next]_vars =>
        [\/ \A i \in Invitation :
              invitation[i].state # "none" /\ ~Acceptable(i) => ~Acceptable(i)'
         \/ \E h \in Person : SetHumanStatus(h, "active")]_vars
  BY <1>1
<1> QED
  BY <1>2, IInvInductive, PTL DEF Spec, InvitationsStayVoid

(* Whoever the provider has put out nobody but the provider or an operator *)
(* makes a member again: owners neither invite them, nor edit their row,   *)
(* and a connection that is enabled activates no one.                      *)
THEOREM ProviderAlwaysDecides == Spec => ProviderDecides
<1> USE OrganizationsAssumption DEF Status, Role
<1>1. ASSUME Typed, [Next]_vars, NEW h \in Person, Managed(h),
             member[h].status = "revoked", ~mapping'[h].active, ~OperatorRestores
      PROVE  member'[h].status = "revoked"
  <2>1. CASE UNCHANGED member
    BY <1>1, <2>1
  <2>2. CASE Operator
    BY <1>1, <2>1, <2>2 DEF Operator, SetHumanStatus
  <2>3. CASE Browser
    BY <2>1, <2>3, BrowserWrites
  <2>4. CASE Management
    <3> PICK s \in Session : Manages(s)
      BY <2>4, ManagementWrites
    <3>1. ASSUME NEW g \in Person, NEW role \in AssignedRole, NEW status \in Status,
                 UpdateMember(s, g, role, status)
          PROVE  member'[h] = member[h]
      <4>1. g # h
        BY <1>1, <3>1 DEF UpdateMember
      <4> QED
        BY <1>1, <3>1, <4>1, SetMemberRow DEF UpdateMember
    <3>2. ASSUME NEW g \in Person, NEW held \in BOOLEAN, EmergencyChange(s, g, held)
          PROVE  member'[h].status = member[h].status
      BY <1>1, <3>2, HeldRow
    <3>3. ASSUME NEW i \in Invitation, NEW next \in Session, AcceptInvitation(s, i, next)
          PROVE  member'[h] = member[h]
      <4>1. session[s].human # h
        BY <1>1, <3>3 DEF AcceptInvitation, Invitable
      <4> QED
        BY <1>1, <3>3, <4>1 DEF AcceptInvitation, Typed, TypeOK
    <3>4. \/ UNCHANGED member
          \/ \E g \in Person, role \in AssignedRole, status \in Status :
               UpdateMember(s, g, role, status)
          \/ \E g \in Person, held \in BOOLEAN : EmergencyChange(s, g, held)
          \/ \E i \in Invitation, next \in Session : AcceptInvitation(s, i, next)
      BY DEF Manages, UpdateSettings, RevokeOrganizationSessions, Invite,
             RevokeInvitation, rows
    <3> QED
      BY <1>1, <3>1, <3>2, <3>3, <3>4
  <2>5. CASE Configuration
    <3> PICK s \in Session, enabled \in BOOLEAN : ConfigureConnection(s, enabled)
      BY <2>5 DEF Configuration
    <3> QED
      BY <1>1, ConfiguredRow
  <2>6. CASE Federation
    <3>1. ASSUME NEW g \in Person, NEW active \in BOOLEAN, Provision(g, active)
          PROVE  member'[h].status = "revoked"
      <4>1. /\ member[g].role \in Role
            /\ member[g].access_kind = "guest" => member[g].role = "viewer"
        BY <1>1 DEF Typed, TypeOK, MemberRow
      <4>2. /\ \A x \in Person \ {g} : member'[x] = member[x]
            /\ member'[g].status = IF active THEN "active" ELSE "revoked"
        BY <1>1, <3>1, <4>1, SetMemberRow DEF Provision
      <4>3. mapping'[g].active = active
        BY <1>1, <3>1 DEF Provision, Typed, TypeOK
      <4> QED
        BY <1>1, <4>2, <4>3
    <3>2. ASSUME NEW g \in Person, Link(g)
          PROVE  member'[h] = member[h]
      <4>1. /\ member[g].role \in Role /\ member[g].status \in Status
            /\ member[g].access_kind = "guest" => member[g].role = "viewer"
            /\ g # h
        BY <1>1, <3>2 DEF Link, Typed, TypeOK, MemberRow
      <4> QED
        BY <1>1, <3>2, <4>1, SetMemberRow DEF Link
    <3>3. ASSUME \/ \E t \in Ticket, g \in Person : FederatedTicket(t, g)
                 \/ IssueCredential
          PROVE  member' = member
      BY <3>3 DEF FederatedTicket, IssueCredential, rows
    <3> QED
      BY <1>1, <2>6, <3>1, <3>2, <3>3 DEF Federation
  <2>7. CASE Time
    <3>1. ASSUME NEW g \in Person, GuestLapses(g)
          PROVE  member'[h].status = member[h].status
      <4>1. member[g] \in MemberRow
        BY <1>1 DEF Typed, TypeOK
      <4>2. [member[g] EXCEPT !.unexpired = FALSE].status = member[g].status
        BY <4>1 DEF MemberRow
      <4> QED
        BY <1>1, <3>1, <4>2 DEF GuestLapses, Typed, TypeOK
    <3>2. UNCHANGED member \/ \E g \in Person : GuestLapses(g)
      BY <2>7 DEF Time, InvitationLapses, rows
    <3> QED
      BY <1>1, <3>1, <3>2
  <2>8. CASE UNCHANGED vars
    BY <2>1, <2>8 DEF vars
  <2> QED
    BY <1>1, <2>2, <2>3, <2>4, <2>5, <2>6, <2>7, <2>8 DEF Next
<1>2. ASSUME IInv, [Next]_vars, NEW h \in Person, PutOut(h), ~mapping'[h].active,
             ~OperatorRestores
      PROVE  PutOut(h)'
  <2>1. Typed /\ Typed' /\ Managed(h) /\ member[h].status = "revoked"
    BY <1>2, TypedStep DEF IInv, PutOut
  <2>2. member'[h].status = "revoked"
    BY <1>1, <1>2, <2>1
  <2>3. Managed(h)'
    <3>1. mapping[h].object_version \in Nat /\ mapping'[h].object_version \in Nat
      BY <2>1 DEF Typed, TypeOK
    <3>2. mapping'[h].object_version >= mapping[h].object_version
      BY <1>2, <2>1, VersionsGrow
    <3> QED
      BY <2>1, <3>1, <3>2 DEF Managed
  <2> QED
    BY <1>2, <2>2, <2>3 DEF PutOut
<1>3. IInv /\ [Next]_vars =>
        [\/ \A h \in Person : PutOut(h) => PutOut(h)' \/ mapping'[h].active
         \/ OperatorRestores]_vars
  BY <1>2
<1> QED
  BY <1>3, IInvInductive, PTL DEF Spec, ProviderDecides

(* A guest is a viewer, so that the owners updateMember() counts are the   *)
(* people who can manage.                                                  *)
LEMMA OwnersManage ==
  ASSUME Typed
  PROVE  Owners = Managers
<1>1. \A h \in Person : /\ member[h].access_kind \in {"member", "guest"}
                        /\ member[h].role = "owner" => member[h].access_kind # "guest"
  BY DEF Typed, TypeOK, MemberRow
<1> QED
  BY <1>1 DEF Owners, Managers, MembershipAccess

(* As long as owners only deal with each other, one who can manage is      *)
(* left: whoever acts is one, and goes only if updateMember() counted      *)
(* another.                                                                *)
THEOREM OwnersAlwaysRemain == Spec => OwnersRemain
<1> USE OrganizationsAssumption DEF Status, Role
<1>1. ASSUME Typed, NEW g \in Managers, human'[g] = human[g], member'[g] = member[g]
      PROVE  Managers' # {}
  BY <1>1 DEF Managers, MembershipAccess
<1>2. ASSUME Typed, NEW s \in Session, AdmittedOwner(s)
      PROVE  session[s].human \in Managers
  BY <1>2, AdmittedPerson DEF AdmittedOwner, Admitted, Authenticates, Managers
<1>3. ASSUME Typed, NEW s \in Session, NEW h \in Person, NEW role \in AssignedRole,
             NEW status \in Status, UpdateMember(s, h, role, status)
      PROVE  Managers' # {}
  <2> PICK n \in Managers : session[s].human = n
    BY <1>2, <1>3 DEF UpdateMember
  <2>1. n \in Person /\ human' = human
    BY <1>3 DEF Managers, UpdateMember
  <2>2. /\ \A g \in Person \ {h} : member'[g] = member[g]
        /\ member'[h].status = status /\ member'[h].role = role
        /\ member'[h].access_kind = member[h].access_kind
        /\ member'[h].emergency_held = member[h].emergency_held
    BY <1>3, SetMemberRow DEF UpdateMember
  <2>3. CASE n # h
    BY <1>1, <1>3, <2>1, <2>2, <2>3
  <2>4. CASE n = h /\ role = "owner" /\ status = "active"
    <3>1. h \in Managers'
      BY <2>1, <2>2, <2>4 DEF Managers, MembershipAccess
    <3> QED
      BY <3>1
  <2>5. CASE n = h /\ (role # "owner" \/ status # "active")
    <3>1. Cardinality(Owners) > 1
      BY <1>3, <2>5 DEF UpdateMember, Managers, MembershipAccess
    <3>2. Owners # {h}
      BY <3>1, FS_Singleton
    <3>3. PICK g \in Managers : g # h
      BY <1>3, <2>5, <3>2, OwnersManage
    <3>4. g \in Person
      BY DEF Managers
    <3> QED
      BY <1>1, <1>3, <2>1, <2>2, <3>3, <3>4
  <2> QED
    BY <2>3, <2>4, <2>5
<1>4. ASSUME Typed, NEW s \in Session, NEW h \in Person, NEW held \in BOOLEAN,
             EmergencyChange(s, h, held)
      PROVE  Managers' # {}
  <2> PICK n \in Managers : session[s].human = n
    BY <1>2, <1>4 DEF EmergencyChange
  <2>1. n \in Person \ {h} /\ human' = human
    BY <1>4 DEF Managers, EmergencyChange
  <2>2. member'[n] = member[n]
    BY <1>4, <2>1, HeldRow
  <2> QED
    BY <1>1, <1>4, <2>1, <2>2
<1>5. ASSUME Typed, Managers # {}, NEW s \in Session, NEW i \in Invitation,
             NEW next \in Session, AcceptInvitation(s, i, next)
      PROVE  Managers' # {}
  <2> PICK g \in Managers : TRUE
    BY <1>5
  <2>1. g \in Person /\ member[g].status = "active"
    BY DEF Managers, MembershipAccess
  <2>2. member[session[s].human].status # "active"
    BY <1>5 DEF AcceptInvitation, Invitable
  <2>3. human'[g] = human[g] /\ member'[g] = member[g]
    BY <1>5, <2>1, <2>2 DEF AcceptInvitation, Typed, TypeOK
  <2> QED
    BY <1>1, <1>5, <2>3
<1>6. ASSUME Typed, Managers # {}, NEW h \in Person, GuestLapses(h)
      PROVE  Managers' # {}
  <2> PICK g \in Managers : TRUE
    BY <1>6
  <2>1. g \in Person /\ g # h
    BY <1>6 DEF Managers, GuestLapses
  <2>2. human'[g] = human[g] /\ member'[g] = member[g]
    BY <1>6, <2>1 DEF GuestLapses, Typed, TypeOK
  <2> QED
    BY <1>1, <1>6, <2>2
<1>7. ASSUME Typed, [Next]_vars, Managers # {}
      PROVE  Managers' # {} \/ Operator \/ Federation \/ Configuration
  <2>1. CASE UNCHANGED <<human, member>>
    BY <1>1, <1>7, <2>1
  <2>2. CASE Management
    <3> PICK s \in Session : Manages(s)
      BY <2>2, ManagementWrites
    <3>1. \/ UNCHANGED <<human, member>>
          \/ \E h \in Person, role \in AssignedRole, status \in Status :
               UpdateMember(s, h, role, status)
          \/ \E h \in Person, held \in BOOLEAN : EmergencyChange(s, h, held)
          \/ \E i \in Invitation, next \in Session : AcceptInvitation(s, i, next)
      BY DEF Manages, UpdateSettings, RevokeOrganizationSessions, Invite,
             RevokeInvitation, rows
    <3> QED
      BY <1>3, <1>4, <1>5, <1>7, <2>1, <3>1
  <2>3. CASE Time
    <3>1. UNCHANGED <<human, member>> \/ \E h \in Person : GuestLapses(h)
      BY <2>3 DEF Time, InvitationLapses, rows
    <3> QED
      BY <1>6, <1>7, <2>1, <3>1
  <2>4. CASE Browser
    BY <2>1, <2>4, BrowserWrites
  <2>5. CASE UNCHANGED vars
    BY <2>1, <2>5 DEF vars
  <2> QED
    BY <1>7, <2>2, <2>3, <2>4, <2>5 DEF Next
<1>8. IInv /\ [Next]_vars =>
        [(Managers # {} => Managers' # {}) \/ Operator \/ Federation \/ Configuration]_vars
  BY <1>7 DEF IInv
<1> QED
  BY <1>8, IInvInductive, PTL DEF Spec, OwnersRemain
=============================================================================
