-------------------------- MODULE Approvals_proofs --------------------------
(***************************************************************************)
(* Theorems about the approval control plane, for any number of humans,    *)
(* requests and resources, any lifetimes and no bound on time; and, for    *)
(* any number of connections, about its transactions taken apart into lock *)
(* waits, reads and commits.                                               *)
(***************************************************************************)
EXTENDS ApprovalLocks, TLAPS

Rows == /\ state \in [Approval -> State]
        /\ version \in [Approval -> Nat]
        /\ log \in [Approval -> Seq(Event)]

(* A transition of one row and its event keep the rows well typed.         *)
LEMMA TransitionRows ==
  ASSUME Rows, NEW a \in Approval, NEW s \in State, NEW why \in Reason,
         Transition(a, s, why)
  PROVE  Rows'
<1>1. Entry(s, version[a] + 1, why) \in Event
  BY DEF Rows, Entry, Event
<1>2. Append(log[a], Entry(s, version[a] + 1, why)) \in Seq(Event)
  BY <1>1 DEF Rows
<1> QED
  BY <1>2 DEF Rows, Transition

(* So does an invalidation, of whatever set of requests.                   *)
LEMMA InvalidationRows ==
  ASSUME Rows, NEW S, InvalidateApprovals(S)
  PROVE  Rows' /\ UNCHANGED <<terms, decision, permit, receipt>>
<1>1. \A a \in Approval :
        Append(log[a], Entry("revoked", version[a] + 1, "authority_changed"))
          \in Seq(Event)
  BY DEF Rows, Entry, Event, State, Reason
<1> QED
  BY <1>1 DEF Rows, InvalidateApprovals, State

LEMMA StampType ==
  ASSUME TypeOK, NEW h \in Human
  PROVE  Stamp(h) \in Stamps
BY DEF TypeOK, AuthorizationTypeOK, Stamp, Stamps

LEMMA TermsType ==
  ASSUME TypeOK, NEW h \in Human, NEW x \in Resource, NEW n \in Name,
         NEW review \in {"required", "policy"}
  PROVE  [resource |-> x, name |-> n, version |-> resource[x].version,
          stamp |-> Stamp(h), review |-> review,
          expires |-> clock + ApprovalLifetime] \in Terms
<1>1. resource[x].version \in Nat /\ clock \in Nat
  BY DEF TypeOK, AuthorizationTypeOK
<1>2. clock + ApprovalLifetime \in Nat
  BY <1>1, LifetimesAssumption
<1>3. Stamp(h) \in Stamps
  BY StampType
<1> QED
  BY <1>1, <1>2, <1>3 DEF Terms

(* Every step keeps every column well typed.                               *)
LEMMA TypeStep == TypeOK /\ TablesAgree /\ [Next]_vars => TypeOK'
<1> SUFFICES ASSUME TypeOK, TablesAgree, [Next]_vars PROVE TypeOK'
  OBVIOUS
<1>rows. Rows
  BY DEF TypeOK, AuthorizationTypeOK, Rows
<1>1. ASSUME NEW h \in Human, NEW q \in RequestId, NEW x \in Resource,
             NEW n \in Name, NEW review \in {"required", "policy"},
             Request(h, q, x, n, review)
      PROVE  TypeOK'
  <2> DEFINE a == <<h, q>>
  <2>1. a \in Approval
    BY DEF Approval
  <2>2. terms' \in [Approval -> Terms \cup {Null}]
    <3>1. [resource |-> x, name |-> n, version |-> resource[x].version,
           stamp |-> Stamp(h), review |-> review,
           expires |-> clock + ApprovalLifetime] \in Terms
      BY TermsType
    <3> QED
      BY <1>1, <2>1, <3>1 DEF TypeOK, AuthorizationTypeOK, Request
  <2>3. Rows'
    <3> DEFINE asked == Entry("pending", 1, "requested")
               allowed == Entry("approved", 2, "preauthorized_policy")
    <3>1. asked \in Event /\ allowed \in Event
      BY DEF Entry, Event, State, Reason
    <3>2. <<asked>> \in Seq(Event) /\ <<asked, allowed>> \in Seq(Event)
      BY <3>1
    <3> HIDE DEF asked, allowed
    <3>3. \/ log' = [log EXCEPT ![a] = <<asked>>]
          \/ log' = [log EXCEPT ![a] = <<asked, allowed>>]
      BY <1>1 DEF Request, asked, allowed
    <3>4. log' \in [Approval -> Seq(Event)]
      BY <1>rows, <2>1, <3>2, <3>3 DEF Rows
    <3>5. \E s \in State, v \in Nat :
            /\ state' = [state EXCEPT ![a] = s]
            /\ version' = [version EXCEPT ![a] = v]
      <4>1. "pending" \in State /\ "approved" \in State
        BY DEF State
      <4> QED
        BY <1>1, <4>1 DEF Request
    <3> QED
      BY <1>rows, <2>1, <3>4, <3>5 DEF Rows
  <2>4. decision' \in [Approval -> Decision \cup {Null}]
    <3>1. [actor |-> h, source |-> "preauthorized_policy",
           outcome |-> "approve", stamp |-> Stamp(h)] \in Decision
      BY StampType DEF Decision
    <3> QED
      BY <1>1, <2>1, <3>1 DEF TypeOK, AuthorizationTypeOK, Request
  <2> QED
    BY <1>1, <2>2, <2>3, <2>4 DEF TypeOK, AuthorizationTypeOK, Rows, Request,
       authorityVars
<1>2. ASSUME NEW h \in Human, NEW a \in Approval, NEW v,
             NEW outcome \in {"approve", "reject"}, Decide(h, a, v, outcome)
      PROVE  TypeOK'
  <2>1. [actor |-> h, source |-> "human", outcome |-> outcome,
         stamp |-> Stamp(h)] \in Decision
    BY StampType DEF Decision
  <2>2. decision' \in [Approval -> Decision \cup {Null}]
    BY <1>2, <2>1 DEF TypeOK, AuthorizationTypeOK, Decide
  <2>3. DecidedState(outcome) \in State /\ "human" \in Reason
    BY DEF DecidedState, State, Reason
  <2>4. Rows'
    BY <1>2, <1>rows, <2>3, TransitionRows DEF Decide
  <2> QED
    BY <1>2, <2>2, <2>4 DEF TypeOK, AuthorizationTypeOK, Rows, Decide,
       authorityVars
<1>3. ASSUME NEW h \in Human, NEW a \in Approval, NEW v, NEW d \in Digest,
             IssuePermit(h, a, v, d)
      PROVE  TypeOK'
  <2>1. terms[a].expires \in Nat
    BY <1>3 DEF TypeOK, AuthorizationTypeOK, TablesAgree, RowAgrees, Terms,
       IssuePermit, CanIssue
  <2>2. PermitEnd(a) \in Nat
    BY <2>1, ConstantsAssumption, LifetimesAssumption DEF TypeOK,
       AuthorizationTypeOK, PermitEnd
  <2>3. permit' \in [Approval -> Permit \cup {Null}]
    BY <1>3, <2>2 DEF TypeOK, AuthorizationTypeOK, IssuePermit, Permit
  <2>4. Rows'
    BY <1>3, <1>rows, TransitionRows DEF IssuePermit, State, Reason
  <2> QED
    BY <1>3, <2>3, <2>4 DEF TypeOK, AuthorizationTypeOK, Rows, IssuePermit,
       authorityVars
<1>4. ASSUME NEW h \in Human, NEW a \in Approval, NEW v, NEW x \in Resource,
             NEW n \in Name, NEW d \in Digest, Execute(h, a, v, x, n, d)
      PROVE  TypeOK'
  <2>1. permit[a] \in Permit
    BY <1>4 DEF TypeOK, AuthorizationTypeOK, TablesAgree, RowAgrees, Execute, CanExecute,
       ResourceRow
  <2>2. permit' \in [Approval -> Permit \cup {Null}]
    BY <1>4, <2>1 DEF TypeOK, AuthorizationTypeOK, Execute, ResourceRow, Permit
  <2>3. resource' \in [Resource -> [version: Nat, name: Name]]
    BY <1>4 DEF TypeOK, AuthorizationTypeOK, Execute, ResourceRow
  <2>4. receipt' \in [Approval -> Receipt \cup {Null}]
    BY <1>4 DEF TypeOK, AuthorizationTypeOK, Execute, ResourceRow, Receipt
  <2>5. Rows'
    BY <1>4, <1>rows, TransitionRows DEF Execute, ResourceRow, State, Reason
  <2> QED
    BY <1>4, <2>2, <2>3, <2>4, <2>5 DEF TypeOK, AuthorizationTypeOK, Rows,
       Execute, ResourceRow, authorityVars
<1>5. ASSUME NEW h \in Human, NEW a \in Approval, NEW v, Revoke(h, a, v)
      PROVE  TypeOK'
  <2>1. Rows'
    BY <1>5, <1>rows, TransitionRows DEF Revoke, State, Reason
  <2> QED
    BY <1>5, <2>1 DEF TypeOK, AuthorizationTypeOK, Rows, Revoke, authorityVars
<1>6. ASSUME NEW h \in Human, NEW x \in Resource, NEW n \in Name,
             Rename(h, x, n)
      PROVE  TypeOK'
  BY <1>6 DEF TypeOK, AuthorizationTypeOK, Rename, DirectRename, ResourceRow,
     authorityVars, approvalVars
<1>7. ASSUME NEW h \in Human, NEW active \in BOOLEAN,
             SetHumanStatus(h, active)
      PROVE  TypeOK'
  <2>1. human' \in [Human -> [version: Nat, active: BOOLEAN]]
    BY <1>7 DEF TypeOK, AuthorizationTypeOK, SetHumanStatus, HumanRow
  <2>2. Rows' /\ UNCHANGED <<terms, decision, permit, receipt>>
    BY <1>7, <1>rows, InvalidationRows DEF SetHumanStatus, HumanRow
  <2> QED
    BY <1>7, <2>1, <2>2 DEF TypeOK, AuthorizationTypeOK, Rows, SetHumanStatus,
       HumanRow
<1>8. ASSUME NEW h \in Human, NEW role \in Role, NEW active \in BOOLEAN,
             SetMembership(h, role, active)
      PROVE  TypeOK'
  <2>1. member' \in [Human -> [version: Nat, role: Role, active: BOOLEAN]]
    BY <1>8 DEF TypeOK, AuthorizationTypeOK, SetMembership, MembershipRow
  <2>2. Rows' /\ UNCHANGED <<terms, decision, permit, receipt>>
    BY <1>8, <1>rows, InvalidationRows DEF SetMembership, MembershipRow
  <2> QED
    BY <1>8, <2>1, <2>2 DEF TypeOK, AuthorizationTypeOK, Rows, SetMembership,
       MembershipRow
<1>9. ASSUME NEW active \in BOOLEAN, SetOrganizationStatus(active)
      PROVE  TypeOK'
  <2>1. org' \in [version: Nat, active: BOOLEAN]
    BY <1>9 DEF TypeOK, AuthorizationTypeOK, SetOrganizationStatus,
       OrganizationRow
  <2>2. Rows' /\ UNCHANGED <<terms, decision, permit, receipt>>
    BY <1>9, <1>rows, InvalidationRows DEF SetOrganizationStatus,
       OrganizationRow
  <2> QED
    BY <1>9, <2>1, <2>2 DEF TypeOK, AuthorizationTypeOK, Rows,
       SetOrganizationStatus, OrganizationRow
<1>10. ASSUME NEW mode \in {"active", "read_only"}, NEW h \in Human,
              NEW effect \in RuleEffect, ChangePolicy(mode, h, effect)
       PROVE  TypeOK'
  <2>1. /\ policy' \in [revision: Nat, mode: {"active", "read_only"}]
        /\ denied' \in [Human -> SUBSET Action]
    BY <1>10, ConstantsAssumption, LifetimesAssumption DEF TypeOK,
       AuthorizationTypeOK, ChangePolicy, PolicyRow
  <2>2. Rows' /\ UNCHANGED <<terms, decision, permit, receipt>>
    BY <1>10, <1>rows, InvalidationRows DEF ChangePolicy, PolicyRow
  <2> QED
    BY <1>10, <2>1, <2>2 DEF TypeOK, AuthorizationTypeOK, Rows, ChangePolicy,
       PolicyRow
<1>11. ASSUME NEW h \in Human, NEW effect \in RuleEffect,
              RuleBoundary(h, effect)
       PROVE  TypeOK'
  BY <1>11, ConstantsAssumption, LifetimesAssumption DEF TypeOK,
     AuthorizationTypeOK, RuleBoundary, RuleTurns, approvalVars
<1>12. ASSUME NEW h \in Human, SignIn(h) \/ SignOut(h)
       PROVE  TypeOK'
  <2>1. CASE SignIn(h)
    <3>1. human[h].version \in Nat
      BY DEF TypeOK, AuthorizationTypeOK
    <3> QED
      BY <2>1, <3>1 DEF TypeOK, AuthorizationTypeOK, SignIn, SessionOpens,
         authorityVars, approvalVars
  <2>2. CASE SignOut(h)
    BY <2>2 DEF TypeOK, AuthorizationTypeOK, SignOut, SessionEnds,
       authorityVars, approvalVars
  <2> QED
    BY <1>12, <2>1, <2>2
<1>13. ASSUME Tick
       PROVE  TypeOK'
  BY <1>13 DEF TypeOK, AuthorizationTypeOK, Tick, TimePasses, authorityVars,
     approvalVars
<1>14. CASE UNCHANGED vars
  BY <1>14 DEF TypeOK, AuthorizationTypeOK, vars
<1> QED
  BY <1>1, <1>2, <1>3, <1>4, <1>5, <1>6, <1>7, <1>8, <1>9, <1>10, <1>11,
     <1>12, <1>13, <1>14 DEF Next, ApprovalStep, AuthorityStep

-----------------------------------------------------------------------------
(* What a step may do to one request row: nothing, or exactly one of these.*)
(* The proofs about rows below split on this instead of on Next.           *)

Columns(b) == <<state[b], version[b], terms[b], decision[b], permit[b],
                receipt[b], log[b]>>

Invalidated(b) ==
  /\ state[b] \in Live /\ state'[b] = "revoked"
  /\ version'[b] = version[b] + 1
  /\ \E why \in Reason :
       log'[b] = Append(log[b], Entry("revoked", version[b] + 1, why))
  /\ UNCHANGED <<terms[b], decision[b], permit[b], receipt[b]>>

Touches(b) ==
  \/ \E h \in Human, q \in RequestId, x \in Resource, n \in Name,
        review \in {"required", "policy"} :
       b = <<h, q>> /\ Request(h, q, x, n, review)
  \/ \E h \in Human, v \in 1..LongestHistory,
        outcome \in {"approve", "reject"} : Decide(h, b, v, outcome)
  \/ \E h \in Human, v \in 1..LongestHistory, d \in Digest :
       IssuePermit(h, b, v, d)
  \/ \E h \in Human, v \in 1..LongestHistory, x \in Resource, n \in Name,
        d \in Digest : Execute(h, b, v, x, n, d)
  \/ Invalidated(b)

LEMMA InvalidationOfRow ==
  ASSUME TypeOK, NEW S, InvalidateApprovals(S), NEW b \in Approval
  PROVE  \/ b \in S /\ Invalidated(b)
         \/ (b \notin S \/ state[b] \notin Live) /\ UNCHANGED Columns(b)
<1>1. "authority_changed" \in Reason
  BY DEF Reason
<1>2. CASE b \in S /\ state[b] \in Live
  BY <1>1, <1>2 DEF TypeOK, AuthorizationTypeOK, InvalidateApprovals,
     Invalidated
<1>3. CASE ~(b \in S /\ state[b] \in Live)
  BY <1>3 DEF TypeOK, AuthorizationTypeOK, InvalidateApprovals, Columns
<1> QED
  BY <1>2, <1>3

LEMMA RowStep ==
  ASSUME TypeOK, [Next]_vars, NEW b \in Approval
  PROVE  Touches(b) \/ UNCHANGED Columns(b)
<1>1. ASSUME NEW h \in Human, NEW q \in RequestId, NEW x \in Resource,
             NEW n \in Name, NEW review \in {"required", "policy"},
             Request(h, q, x, n, review)
      PROVE  Touches(b) \/ UNCHANGED Columns(b)
  <2>1. CASE b = <<h, q>>
    BY <1>1, <2>1 DEF Touches
  <2>2. CASE b # <<h, q>>
    BY <1>1, <2>2 DEF Request, TypeOK, AuthorizationTypeOK, Columns
  <2> QED
    BY <2>1, <2>2
<1>2. ASSUME NEW h \in Human, NEW a \in Approval, NEW v \in 1..LongestHistory,
             NEW outcome \in {"approve", "reject"}, Decide(h, a, v, outcome)
      PROVE  Touches(b) \/ UNCHANGED Columns(b)
  <2>1. CASE b = a
    BY <1>2, <2>1 DEF Touches
  <2>2. CASE b # a
    BY <1>2, <2>2 DEF Decide, Transition, TypeOK, AuthorizationTypeOK, Columns
  <2> QED
    BY <2>1, <2>2
<1>3. ASSUME NEW h \in Human, NEW a \in Approval, NEW v \in 1..LongestHistory,
             NEW d \in Digest, IssuePermit(h, a, v, d)
      PROVE  Touches(b) \/ UNCHANGED Columns(b)
  <2>1. CASE b = a
    BY <1>3, <2>1 DEF Touches
  <2>2. CASE b # a
    BY <1>3, <2>2 DEF IssuePermit, Transition, TypeOK, AuthorizationTypeOK,
       Columns
  <2> QED
    BY <2>1, <2>2
<1>4. ASSUME NEW h \in Human, NEW a \in Approval, NEW v \in 1..LongestHistory,
             NEW x \in Resource, NEW n \in Name, NEW d \in Digest,
             Execute(h, a, v, x, n, d)
      PROVE  Touches(b) \/ UNCHANGED Columns(b)
  <2>1. CASE b = a
    BY <1>4, <2>1 DEF Touches
  <2>2. CASE b # a
    BY <1>4, <2>2 DEF Execute, ResourceRow, Transition, TypeOK,
       AuthorizationTypeOK, Columns
  <2> QED
    BY <2>1, <2>2
<1>5. ASSUME NEW h \in Human, NEW a \in Approval, NEW v \in 1..LongestHistory,
             Revoke(h, a, v)
      PROVE  Touches(b) \/ UNCHANGED Columns(b)
  <2>1. CASE b = a
    <3>1. "revoked" \in Reason
      BY DEF Reason
    <3> QED
      BY <1>5, <2>1, <3>1 DEF Revoke, CanRevoke, Transition, TypeOK, AuthorizationTypeOK,
         Touches, Invalidated
  <2>2. CASE b # a
    BY <1>5, <2>2 DEF Revoke, Transition, TypeOK, AuthorizationTypeOK, Columns
  <2> QED
    BY <2>1, <2>2
<1>6. ASSUME NEW S, InvalidateApprovals(S)
      PROVE  Touches(b) \/ UNCHANGED Columns(b)
  BY <1>6, InvalidationOfRow DEF Touches
<1>7. ASSUME \/ UNCHANGED vars \/ Tick
             \/ \E h \in Human, x \in Resource, n \in Name : Rename(h, x, n)
             \/ \E h \in Human : SignIn(h) \/ SignOut(h)
             \/ \E h \in Human, effect \in RuleEffect : RuleBoundary(h, effect)
      PROVE  UNCHANGED Columns(b)
  BY <1>7 DEF vars, Tick, TimePasses, Rename, DirectRename, ResourceRow,
     SignIn, SessionOpens, SignOut, SessionEnds, RuleBoundary, RuleTurns,
     approvalVars,
              Columns
<1>8. CASE AuthorityStep
  BY <1>6, <1>7, <1>8 DEF AuthorityStep, SetHumanStatus, HumanRow,
     SetMembership, MembershipRow,
                          SetOrganizationStatus, OrganizationRow,
                          ChangePolicy, PolicyRow
<1>9. CASE ApprovalStep
  BY <1>1, <1>2, <1>3, <1>4, <1>5, <1>9 DEF ApprovalStep
<1> QED
  BY <1>7, <1>8, <1>9 DEF Next

-----------------------------------------------------------------------------

LEMMA AgreeStep == TypeOK /\ TablesAgree /\ [Next]_vars => TablesAgree'
<1> SUFFICES ASSUME TypeOK, TablesAgree, [Next]_vars, NEW b \in Approval
             PROVE  RowAgrees(b)'
  BY DEF TablesAgree
<1>0. RowAgrees(b)
  BY DEF TablesAgree
<1>1. ASSUME NEW h \in Human, NEW q \in RequestId, NEW x \in Resource,
             NEW n \in Name, NEW review \in {"required", "policy"},
             b = <<h, q>>, Request(h, q, x, n, review)
      PROVE  RowAgrees(b)'
  <2>1. terms'[b] \in Terms
    <3>1. [resource |-> x, name |-> n, version |-> resource[x].version,
           stamp |-> Stamp(h), review |-> review,
           expires |-> clock + ApprovalLifetime] \in Terms
      BY TermsType
    <3> QED
      BY <1>1, <3>1 DEF TypeOK, AuthorizationTypeOK, Request
  <2>2. [actor |-> h, source |-> "preauthorized_policy",
         outcome |-> "approve", stamp |-> Stamp(h)] \in Decision
    BY StampType DEF Decision
  <2>3. \/ state'[b] = "pending" /\ decision'[b] = Null
        \/ /\ state'[b] = "approved"
           /\ decision'[b] \in Decision /\ decision'[b].outcome = "approve"
    BY <1>0, <1>1, <2>2 DEF TypeOK, AuthorizationTypeOK, Request, CanRequest, RowAgrees
  <2>4. permit'[b] = Null /\ receipt'[b] = Null
    BY <1>0, <1>1 DEF Request, CanRequest, RowAgrees
  <2> QED
    BY <2>1, <2>3, <2>4, ConstantsAssumption, LifetimesAssumption DEF RowAgrees
<1>2. ASSUME NEW h \in Human, NEW v, NEW outcome \in {"approve", "reject"},
             Decide(h, b, v, outcome)
      PROVE  RowAgrees(b)'
  <2>1. [actor |-> h, source |-> "human", outcome |-> outcome,
         stamp |-> Stamp(h)] \in Decision
    BY StampType DEF Decision
  <2>2. decision'[b] # Null /\ decision'[b].outcome = outcome
    BY <1>2, <2>1, ConstantsAssumption, LifetimesAssumption DEF TypeOK,
       AuthorizationTypeOK, Decide
  <2>3. state'[b] = DecidedState(outcome)
    BY <1>2 DEF TypeOK, AuthorizationTypeOK, Decide, Transition
  <2> QED
    BY <1>0, <1>2, <2>2, <2>3 DEF Decide, CanDecide, RowAgrees, DecidedState
<1>3. ASSUME NEW h \in Human, NEW v, NEW d \in Digest, IssuePermit(h, b, v, d)
      PROVE  RowAgrees(b)'
  <2>1. terms[b].expires \in Nat
    BY <1>0, <1>3 DEF TypeOK, AuthorizationTypeOK, RowAgrees, Terms,
       IssuePermit, CanIssue
  <2>2. PermitEnd(b) \in Nat /\ PermitEnd(b) <= terms[b].expires
    BY <2>1, ConstantsAssumption, LifetimesAssumption DEF TypeOK,
       AuthorizationTypeOK, PermitEnd
  <2>3. permit'[b] = [digest |-> d, end |-> PermitEnd(b), consumed |-> FALSE]
    BY <1>3 DEF TypeOK, AuthorizationTypeOK, IssuePermit
  <2>4. permit'[b] # Null
    <3>1. permit'[b] \in Permit
      BY <2>2, <2>3 DEF Permit
    <3> QED
      BY <3>1, ConstantsAssumption, LifetimesAssumption
  <2>5. state[b] = "approved" /\ state'[b] = "issued"
    BY <1>3 DEF TypeOK, AuthorizationTypeOK, IssuePermit, CanIssue, Transition
  <2>6. UNCHANGED <<terms, decision, receipt>>
    BY <1>3 DEF IssuePermit
  <2> QED
    BY <1>0, <2>2, <2>3, <2>4, <2>5, <2>6 DEF RowAgrees
<1>4. ASSUME NEW h \in Human, NEW v, NEW x \in Resource, NEW n \in Name,
             NEW d \in Digest, Execute(h, b, v, x, n, d)
      PROVE  RowAgrees(b)'
  <2>1. permit[b] \in Permit /\ permit[b].end <= terms[b].expires
    BY <1>0, <1>4 DEF TypeOK, AuthorizationTypeOK, RowAgrees, Execute, CanExecute,
       ResourceRow
  <2>2. /\ permit'[b] \in Permit /\ permit'[b].consumed = TRUE
        /\ permit'[b].end = permit[b].end
    BY <1>4, <2>1 DEF TypeOK, AuthorizationTypeOK, Execute, ResourceRow, Permit
  <2>3. receipt'[b] \in Receipt
    BY <1>4 DEF TypeOK, AuthorizationTypeOK, Execute, ResourceRow, Receipt
  <2>4. state[b] = "issued" /\ state'[b] = "consumed"
    BY <1>4 DEF TypeOK, AuthorizationTypeOK, Execute, CanExecute, ResourceRow, Transition
  <2>5. UNCHANGED <<terms, decision>>
    BY <1>4 DEF Execute, ResourceRow
  <2> QED
    BY <1>0, <2>1, <2>2, <2>3, <2>4, <2>5, ConstantsAssumption,
       LifetimesAssumption DEF RowAgrees
<1>5. CASE Invalidated(b)
  BY <1>0, <1>5 DEF Invalidated, RowAgrees, Live
<1>6. CASE UNCHANGED Columns(b)
  BY <1>0, <1>6 DEF Columns, RowAgrees
<1> QED
  BY <1>1, <1>2, <1>3, <1>4, <1>5, <1>6, RowStep DEF Touches

(* The invariant behind every theorem of this module: the columns are well *)
(* typed and the tables agree.  Neither is inductive alone: a permit's end *)
(* is a number because a request being permitted has terms.                *)
IInv == TypeOK /\ TablesAgree

LEMMA IInvInit == Init => IInv
<1> SUFFICES ASSUME Init PROVE IInv
  OBVIOUS
<1>1. TypeOK
  BY ConstantsAssumption, LifetimesAssumption DEF Init, AuthorizationInit,
     TypeOK, AuthorizationTypeOK, State
<1>2. TablesAgree
  BY DEF Init, AuthorizationInit, TablesAgree, RowAgrees
<1> QED
  BY <1>1, <1>2 DEF IInv

LEMMA IInvStep == IInv /\ [Next]_vars => IInv'
BY TypeStep, AgreeStep DEF IInv

LEMMA IInvAlways == Spec => []IInv
BY IInvInit, IInvStep, PTL DEF Spec

(* Types: every column of every table holds a value of its type.           *)
THEOREM TypeCorrect == Spec => []TypeOK
<1>1. IInv => TypeOK
  BY DEF IInv
<1> QED
  BY <1>1, IInvAlways, PTL

(* The request, decision, permit and receipt rows always tell one story.   *)
THEOREM TablesAlwaysAgree == Spec => []TablesAgree
<1>1. IInv => TablesAgree
  BY DEF IInv
<1> QED
  BY <1>1, IInvAlways, PTL

-----------------------------------------------------------------------------
(* Eager revocation. *)

(* The authority a live row was given under, for one request.              *)
RowPresent(b) ==
  /\ Authority(Requester(b)) /\ terms[b].stamp = Stamp(Requester(b))
  /\ decision[b] # Null =>
       /\ Authority(decision[b].actor)
       /\ decision[b].stamp = Stamp(decision[b].actor)

(* The heart of eager revocation: whoever changes a human, a membership,   *)
(* the organization or the policy also revokes every live row involved, so *)
(* a row that stays live involves only humans the step left as they were.  *)
LEMMA LiveStep ==
  IInv /\ LiveAuthorityIsPresent /\ [Next]_vars => LiveAuthorityIsPresent'
<1> SUFFICES ASSUME IInv, LiveAuthorityIsPresent, [Next]_vars,
                    NEW b \in Approval, state'[b] \in Live
             PROVE  RowPresent(b)'
  BY DEF LiveAuthorityIsPresent, RowPresent
<1>type. TypeOK /\ RowAgrees(b)
  BY DEF IInv, TablesAgree
<1>old. state[b] \in Live => RowPresent(b)
  BY DEF LiveAuthorityIsPresent, RowPresent
<1>req. Requester(b) \in Human
  BY DEF Approval, Requester
<1>act. state[b] \in Live /\ decision[b] # Null => decision[b].actor \in Human
  BY <1>type DEF TypeOK, AuthorizationTypeOK, Decision
<1>same. ASSUME UNCHANGED Columns(b), UNCHANGED <<org, policy>>,
                \A h \in Human :
                  \/ h = Requester(b)
                  \/ decision[b] # Null /\ h = decision[b].actor
                  => human'[h] = human[h] /\ member'[h] = member[h]
         PROVE  RowPresent(b)'
  <2>1. /\ state[b] \in Live
        /\ terms'[b] = terms[b] /\ decision'[b] = decision[b]
    BY <1>same DEF Columns
  <2>2. RowPresent(b)
    BY <1>old, <2>1
  <2>3. human'[Requester(b)] = human[Requester(b)]
        /\ member'[Requester(b)] = member[Requester(b)]
    BY <1>same, <1>req
  <2>4. Authority(Requester(b))' /\ Stamp(Requester(b))' = Stamp(Requester(b))
    BY <1>same, <2>2, <2>3 DEF RowPresent, Authority, Stamp, Requester
  <2>5. ASSUME decision[b] # Null
        PROVE  /\ Authority(decision[b].actor)'
               /\ Stamp(decision[b].actor)' = Stamp(decision[b].actor)
    <3>1. decision[b].actor \in Human /\ Authority(decision[b].actor)
      BY <1>act, <2>1, <2>2, <2>5 DEF RowPresent
    <3>2. /\ human'[decision[b].actor] = human[decision[b].actor]
          /\ member'[decision[b].actor] = member[decision[b].actor]
      BY <1>same, <2>5, <3>1
    <3> QED
      BY <1>same, <2>1, <3>1, <3>2 DEF Authority, Stamp
  <2> QED
    BY <2>1, <2>2, <2>4, <2>5 DEF RowPresent, Requester
<1>steady. ASSUME UNCHANGED <<human, member, org, policy>>
           PROVE  \A h \in Human : (Authority(h)' <=> Authority(h))
                                    /\ Stamp(h)' = Stamp(h)
  BY <1>steady DEF Authority, Stamp
<1>1. ASSUME NEW h \in Human, NEW q \in RequestId, NEW x \in Resource,
             NEW n \in Name, NEW review \in {"required", "policy"},
             b = <<h, q>>, Request(h, q, x, n, review)
      PROVE  RowPresent(b)'
  <2>1. Requester(b) = h /\ Authority(h)
    BY <1>1 DEF Requester, Request, CanRequest, Actor
  <2>2. UNCHANGED <<human, member, org, policy>>
    BY <1>1 DEF Request, authorityVars
  <2>3. terms'[b].stamp = Stamp(h)
    BY <1>type, <1>1 DEF TypeOK, AuthorizationTypeOK, Request
  <2>4. decision[b] = Null
    BY <1>type, <1>1 DEF RowAgrees, Request, CanRequest
  <2>5. decision'[b] # Null =>
          decision'[b].actor = h /\ decision'[b].stamp = Stamp(h)
    BY <1>type, <1>1, <2>4 DEF TypeOK, AuthorizationTypeOK, Request
  <2> QED
    BY <2>1, <2>2, <2>3, <2>5, <1>steady DEF RowPresent, Requester
<1>2. ASSUME NEW h \in Human, NEW v, NEW outcome \in {"approve", "reject"},
             Decide(h, b, v, outcome)
      PROVE  RowPresent(b)'
  <2>1. Authority(h) /\ state[b] \in Live
    BY <1>2 DEF Decide, CanDecide, Actor, Live
  <2>2. UNCHANGED <<human, member, org, policy, terms>>
    BY <1>2 DEF Decide, authorityVars
  <2>3. decision'[b].actor = h /\ decision'[b].stamp = Stamp(h)
    BY <1>type, <1>2 DEF TypeOK, AuthorizationTypeOK, Decide
  <2> QED
    BY <1>old, <1>req, <2>1, <2>2, <2>3, <1>steady DEF RowPresent, Requester
<1>3. ASSUME NEW h \in Human, NEW v, NEW d \in Digest, IssuePermit(h, b, v, d)
      PROVE  RowPresent(b)'
  <2>1. state[b] \in Live /\ UNCHANGED <<human, member, org, policy, terms,
  decision>>
    BY <1>3 DEF IssuePermit, CanIssue, Live, authorityVars
  <2> QED
    BY <1>old, <1>req, <1>act, <2>1, <1>steady DEF RowPresent, Requester
<1>4. ASSUME NEW h \in Human, NEW v, NEW x \in Resource, NEW n \in Name,
             NEW d \in Digest, Execute(h, b, v, x, n, d)
      PROVE  FALSE
  BY <1>4, <1>type DEF Execute, ResourceRow, Transition, Live, TypeOK,
     AuthorizationTypeOK
<1>5. CASE Invalidated(b)
  BY <1>5 DEF Invalidated, Live
<1>6. CASE UNCHANGED Columns(b)
  <2> USE DEF Columns
  <2>live. state[b] \in Live
    BY <1>6
  <2>1. ASSUME NEW S, InvalidateApprovals(S)
        PROVE  b \notin S
    BY <1>6, <2>1, <2>live, <1>type, InvalidationOfRow DEF Invalidated, Live
  <2>2. ASSUME NEW h \in Human, NEW active \in BOOLEAN,
               SetHumanStatus(h, active)
        PROVE  RowPresent(b)'
    <3>1. b \notin Involving(h)
      BY <2>1, <2>2 DEF SetHumanStatus, HumanRow
    <3>2. UNCHANGED <<org, policy>> /\ \A k \in Human :
            k # h => human'[k] = human[k] /\ member'[k] = member[k]
      BY <2>2, <1>type DEF TypeOK, AuthorizationTypeOK, SetHumanStatus,
         HumanRow
    <3> QED
      BY <1>6, <1>same, <3>1, <3>2 DEF Involving
  <2>3. ASSUME NEW h \in Human, NEW role \in Role, NEW active \in BOOLEAN,
               SetMembership(h, role, active)
        PROVE  RowPresent(b)'
    <3>1. b \notin Involving(h)
      BY <2>1, <2>3 DEF SetMembership, MembershipRow
    <3>2. UNCHANGED <<org, policy>> /\ \A k \in Human :
            k # h => human'[k] = human[k] /\ member'[k] = member[k]
      BY <2>3, <1>type DEF TypeOK, AuthorizationTypeOK, SetMembership,
         MembershipRow
    <3> QED
      BY <1>6, <1>same, <3>1, <3>2 DEF Involving
  <2>4. ASSUME NEW active \in BOOLEAN, SetOrganizationStatus(active)
        PROVE  FALSE
    BY <2>1, <2>4 DEF SetOrganizationStatus, OrganizationRow
  <2>5. ASSUME NEW mode \in {"active", "read_only"}, NEW h \in Human,
               NEW effect \in RuleEffect, ChangePolicy(mode, h, effect)
        PROVE  FALSE
    BY <2>1, <2>5 DEF ChangePolicy, PolicyRow
  <2>6. CASE UNCHANGED <<human, member, org, policy>>
    BY <1>6, <1>same, <2>6
  <2>7. ApprovalStep => UNCHANGED <<human, member, org, policy>>
    <3>1. \A h, q, x, n, review : Request(h, q, x, n, review)
                                    => UNCHANGED <<human, member, org, policy>>
      BY DEF Request, authorityVars
    <3>2. \A h, a, v, outcome : Decide(h, a, v, outcome)
                                  => UNCHANGED <<human, member, org, policy>>
      BY DEF Decide, authorityVars
    <3>3. \A h, a, v, d : IssuePermit(h, a, v, d)
                            => UNCHANGED <<human, member, org, policy>>
      BY DEF IssuePermit, authorityVars
    <3>4. \A h, a, v, x, n, d : Execute(h, a, v, x, n, d)
                                  => UNCHANGED <<human, member, org, policy>>
      BY DEF Execute, ResourceRow, authorityVars
    <3>5. \A h, a, v : Revoke(h, a, v)
                         => UNCHANGED <<human, member, org, policy>>
      BY DEF Revoke, authorityVars
    <3> QED
      BY <3>1, <3>2, <3>3, <3>4, <3>5 DEF ApprovalStep
  <2>8. \/ UNCHANGED vars \/ Tick
        \/ \E h \in Human, x \in Resource, n \in Name : Rename(h, x, n)
        \/ \E h \in Human : SignIn(h) \/ SignOut(h)
        \/ \E h \in Human, effect \in RuleEffect : RuleBoundary(h, effect)
        => UNCHANGED <<human, member, org, policy>>
    BY DEF vars, Tick, TimePasses, Rename, DirectRename, ResourceRow, SignIn,
       SessionOpens, SignOut, SessionEnds, RuleBoundary, RuleTurns,
       authorityVars
  <2> QED
    BY <2>2, <2>3, <2>4, <2>5, <2>6, <2>7, <2>8 DEF Next, AuthorityStep
<1> QED
  BY <1>type, <1>1, <1>2, <1>3, <1>4, <1>5, <1>6, RowStep DEF Touches

(* Whoever loses or changes any authority, no live request survives that   *)
(* was asked for or approved with it.                                      *)
THEOREM LiveAuthorityAlwaysPresent == Spec => []LiveAuthorityIsPresent
<1>1. Init => LiveAuthorityIsPresent
  BY DEF Init, AuthorizationInit, LiveAuthorityIsPresent, Live
<1> QED
  BY <1>1, LiveStep, IInvAlways, PTL DEF Spec

-----------------------------------------------------------------------------
(* Settled rows, reviewers and the event log. *)

(* Each kind of step on a row but an invalidation, its new state and the   *)
(* state it needs: what the theorems below split on.                       *)
LEMMA TouchedRow ==
  ASSUME TypeOK, NEW b \in Approval, Touches(b)
  PROVE  \/ state[b] = "none"
         \/ state[b] = "pending" /\ state'[b] \in {"approved", "rejected"}
         \/ state[b] = "approved" /\ state'[b] = "issued"
         \/ state[b] = "issued" /\ state'[b] = "consumed"
         \/ state[b] \in Live /\ state'[b] = "revoked"
<1>1. ASSUME NEW h, NEW q, NEW x, NEW n, NEW review,
             b = <<h, q>>, Request(h, q, x, n, review)
      PROVE  state[b] = "none"
  BY <1>1 DEF Request, CanRequest
<1>2. ASSUME NEW h, NEW v, NEW outcome, Decide(h, b, v, outcome)
      PROVE  state[b] = "pending" /\ state'[b] \in {"approved", "rejected"}
  BY <1>2 DEF TypeOK, AuthorizationTypeOK, Decide, CanDecide, DecidedState, Transition
<1>3. ASSUME NEW h, NEW v, NEW d, IssuePermit(h, b, v, d)
      PROVE  state[b] = "approved" /\ state'[b] = "issued"
  BY <1>3 DEF TypeOK, AuthorizationTypeOK, IssuePermit, CanIssue, Transition
<1>4. ASSUME NEW h, NEW v, NEW x, NEW n, NEW d, Execute(h, b, v, x, n, d)
      PROVE  state[b] = "issued" /\ state'[b] = "consumed"
  BY <1>4 DEF TypeOK, AuthorizationTypeOK, Execute, CanExecute, ResourceRow, Transition
<1> QED
  BY <1>1, <1>2, <1>3, <1>4 DEF Touches, Invalidated

(* A rejected, revoked or consumed request stays exactly as it is.         *)
THEOREM SettledStaysSettled == Spec => SettledForGood
<1>1. ASSUME IInv, [Next]_vars, NEW a \in Approval, state[a] \in Settled
      PROVE  UNCHANGED Columns(a)
  <2>1. TypeOK
    BY <1>1 DEF IInv
  <2> QED
    BY <1>1, <2>1, RowStep, TouchedRow DEF Settled, Live
<1>2. IInv /\ [Next]_vars =>
        [\A a \in Approval : state[a] \in Settled =>
           UNCHANGED <<state[a], version[a], terms[a], decision[a], permit[a],
                       receipt[a], log[a]>>]_vars
  BY <1>1 DEF Columns
<1> QED
  BY <1>2, IInvAlways, PTL DEF Spec, SettledForGood

(* A decision is the requester's own exactly when policy made it.          *)
LEMMA SelfStep == IInv /\ NoSelfApproval /\ [Next]_vars => NoSelfApproval'
<1> SUFFICES ASSUME IInv, NoSelfApproval, [Next]_vars,
                    NEW b \in Approval, decision'[b] # Null
             PROVE  decision'[b].actor = Requester(b)
                      <=> decision'[b].source = "preauthorized_policy"
  BY DEF NoSelfApproval, Requester
<1>type. TypeOK /\ RowAgrees(b)
  BY DEF IInv, TablesAgree
<1>1. ASSUME NEW h \in Human, NEW q \in RequestId, NEW x \in Resource,
             NEW n \in Name, NEW review \in {"required", "policy"},
             b = <<h, q>>, Request(h, q, x, n, review)
      PROVE  /\ decision'[b].actor = h
             /\ decision'[b].source = "preauthorized_policy"
  BY <1>type, <1>1 DEF TypeOK, AuthorizationTypeOK, RowAgrees, Request, CanRequest
<1>2. ASSUME NEW h \in Human, NEW v, NEW outcome \in {"approve", "reject"},
             Decide(h, b, v, outcome)
      PROVE  /\ decision'[b].actor # Requester(b)
             /\ decision'[b].source = "human"
  BY <1>type, <1>2 DEF TypeOK, AuthorizationTypeOK, Decide, CanDecide, IndependentReviewer
<1>3. CASE UNCHANGED decision[b]
  BY <1>3 DEF NoSelfApproval
<1> QED
  BY <1>type, <1>1, <1>2, <1>3, RowStep
     DEF Touches, Columns, Invalidated, IssuePermit, Execute, ResourceRow,
     Requester

(* Nobody approves their own request.                                      *)
THEOREM NobodyApprovesOwnRequest == Spec => []NoSelfApproval
<1>1. Init => NoSelfApproval
  BY DEF Init, AuthorizationInit, NoSelfApproval
<1> QED
  BY <1>1, SelfStep, IInvAlways, PTL DEF Spec

(* One request's events replay to its row.                                 *)
Replays(b) ==
  /\ Len(log[b]) = version[b]
  /\ \A i \in 1..Len(log[b]) : log[b][i].version = i
  /\ log[b] # <<>> => log[b][Len(log[b])].state = state[b]
  /\ log[b] = <<>> => state[b] = "none"

(* A transition and its event, appended together, keep that so.            *)
LEMMA ReplayAppend ==
  ASSUME TypeOK, NEW b \in Approval, Replays(b), NEW s \in State,
         NEW why \in Reason, state'[b] = s, version'[b] = version[b] + 1,
         log'[b] = Append(log[b], Entry(s, version[b] + 1, why))
  PROVE  Replays(b)'
<1> DEFINE e == Entry(s, version[b] + 1, why)
<1>1. e \in Event /\ e.version = version[b] + 1 /\ e.state = s
  BY DEF TypeOK, AuthorizationTypeOK, Entry, Event
<1>2. log[b] \in Seq(Event) /\ version[b] = Len(log[b])
  BY DEF TypeOK, AuthorizationTypeOK, Replays
<1> HIDE DEF e
<1>3. Len(log'[b]) = version'[b] /\ log'[b] # <<>>
  BY <1>1, <1>2 DEF e
<1>4. log'[b][Len(log'[b])] = e
  BY <1>1, <1>2 DEF e
<1>5. ASSUME NEW i \in 1..Len(log'[b]) PROVE log'[b][i].version = i
  <2>1. CASE i = Len(log'[b])
    BY <1>1, <1>3, <1>4, <2>1
  <2>2. CASE i # Len(log'[b])
    <3>1. i \in 1..Len(log[b])
      BY <1>2, <1>3, <2>2
    <3>2. log'[b][i] = log[b][i]
      BY <1>1, <1>2, <3>1 DEF e
    <3> QED
      BY <3>1, <3>2 DEF Replays
  <2> QED
    BY <2>1, <2>2
<1> QED
  BY <1>1, <1>3, <1>4, <1>5 DEF Replays

LEMMA ReplayStep ==
  ASSUME TypeOK, [Next]_vars, NEW b \in Approval, Replays(b)
  PROVE  Replays(b)'
<1>1. ASSUME NEW h \in Human, NEW q \in RequestId, NEW x \in Resource,
             NEW n \in Name, NEW review \in {"required", "policy"},
             b = <<h, q>>, Request(h, q, x, n, review)
      PROVE  Replays(b)'
  <2> DEFINE e1 == Entry("pending", 1, "requested")
             e2 == Entry("approved", 2, "preauthorized_policy")
  <2>1. \/ state'[b] = "pending" /\ version'[b] = 1 /\ log'[b] = <<e1>>
        \/ state'[b] = "approved" /\ version'[b] = 2 /\ log'[b] = <<e1, e2>>
    BY <1>1 DEF TypeOK, AuthorizationTypeOK, Request
  <2>2. /\ e1.version = 1 /\ e1.state = "pending"
        /\ e2.version = 2 /\ e2.state = "approved"
    BY DEF Entry
  <2> HIDE DEF e1, e2
  <2>3. CASE log'[b] = <<e1>>
    BY <2>1, <2>2, <2>3 DEF Replays
  <2>4. CASE log'[b] = <<e1, e2>>
    BY <2>1, <2>2, <2>4 DEF Replays
  <2> QED
    BY <2>1, <2>3, <2>4
<1>2. ASSUME NEW h \in Human, NEW v, NEW outcome \in {"approve", "reject"},
             Decide(h, b, v, outcome)
      PROVE  Replays(b)'
  <2>1. DecidedState(outcome) \in State /\ "human" \in Reason
    BY DEF DecidedState, State, Reason
  <2>2. /\ state'[b] = DecidedState(outcome)
        /\ version'[b] = version[b] + 1
        /\ log'[b] = Append(log[b],
                       Entry(DecidedState(outcome), version[b] + 1, "human"))
    BY <1>2 DEF TypeOK, AuthorizationTypeOK, Decide, Transition
  <2> QED
    BY <2>1, <2>2, ReplayAppend
<1>3. ASSUME NEW h \in Human, NEW v, NEW d \in Digest, IssuePermit(h, b, v, d)
      PROVE  Replays(b)'
  <2>1. "issued" \in State /\ "permit_issued" \in Reason
    BY DEF State, Reason
  <2>2. /\ state'[b] = "issued"
        /\ version'[b] = version[b] + 1
        /\ log'[b] = Append(log[b],
                       Entry("issued", version[b] + 1, "permit_issued"))
    BY <1>3 DEF TypeOK, AuthorizationTypeOK, IssuePermit, Transition
  <2> QED
    BY <2>1, <2>2, ReplayAppend
<1>4. ASSUME NEW h \in Human, NEW v, NEW x \in Resource, NEW n \in Name,
             NEW d \in Digest, Execute(h, b, v, x, n, d)
      PROVE  Replays(b)'
  <2>1. "consumed" \in State /\ "executed" \in Reason
    BY DEF State, Reason
  <2>2. /\ state'[b] = "consumed"
        /\ version'[b] = version[b] + 1
        /\ log'[b] = Append(log[b],
                       Entry("consumed", version[b] + 1, "executed"))
    BY <1>4 DEF TypeOK, AuthorizationTypeOK, Execute, ResourceRow, Transition
  <2> QED
    BY <2>1, <2>2, ReplayAppend
<1>5. CASE Invalidated(b)
  <2>1. "revoked" \in State
    BY DEF State
  <2> QED
    BY <1>5, <2>1, ReplayAppend DEF Invalidated
<1>6. CASE UNCHANGED Columns(b)
  BY <1>6 DEF Columns, Replays
<1> QED
  BY <1>1, <1>2, <1>3, <1>4, <1>5, <1>6, RowStep DEF Touches

(* A reader of the event table alone can rebuild every request row.        *)
THEOREM EventsAlwaysReplay == Spec => []EventsReplayToRows
<1>1. Init => EventsReplayToRows
  BY DEF Init, AuthorizationInit, EventsReplayToRows
<1>2. IInv /\ EventsReplayToRows /\ [Next]_vars => EventsReplayToRows'
  <2>1. EventsReplayToRows <=> \A b \in Approval : Replays(b)
    BY DEF EventsReplayToRows, Replays
  <2>2. EventsReplayToRows' <=> \A b \in Approval : Replays(b)'
    BY DEF EventsReplayToRows, Replays
  <2> QED
    BY <2>1, <2>2, ReplayStep DEF IInv
<1> QED
  BY <1>1, <1>2, IInvAlways, PTL DEF Spec

-----------------------------------------------------------------------------
(* One effect for each version of a resource. *)

(* What a receipt says is what was approved, and its version was reached.  *)
ReceiptTrue(a) ==
  receipt[a] # Null =>
    /\ receipt[a].resource = terms[a].resource
    /\ receipt[a].name = terms[a].name
    /\ receipt[a].version = terms[a].version + 1
    /\ receipt[a].version <= resource[terms[a].resource].version

LEMMA ExecuteReceipt ==
  ASSUME IInv, NEW h, NEW a \in Approval, NEW v, NEW x \in Resource,
         NEW n \in Name, NEW d, Execute(h, a, v, x, n, d)
  PROVE  /\ receipt[a] = Null
         /\ receipt'[a] \in Receipt /\ ReceiptTrue(a)'
         /\ receipt'[a].resource = x
         /\ receipt'[a].version = resource[x].version + 1
         /\ resource'[x].version = resource[x].version + 1
         /\ \A b \in Approval : b # a => receipt'[b] = receipt[b]
         /\ \A y \in Resource : y # x => resource'[y] = resource[y]
         /\ UNCHANGED terms
<1>type. TypeOK /\ RowAgrees(a)
  BY DEF IInv, TablesAgree
<1>1. /\ terms[a].resource = x /\ terms[a].name = n
      /\ terms[a].version = resource[x].version
  BY DEF Execute, CanExecute, ResourceRow, MatchesApproved, Current
<1>2. receipt'[a] = [resource |-> x, name |-> n,
                     version |-> resource[x].version + 1]
  BY <1>type DEF TypeOK, AuthorizationTypeOK, Execute, ResourceRow
<1>3. resource'[x] = [version |-> resource[x].version + 1, name |-> n]
  BY <1>type DEF TypeOK, AuthorizationTypeOK, Execute, ResourceRow
<1>4. resource[x].version \in Nat
  BY <1>type DEF TypeOK, AuthorizationTypeOK
<1>5. UNCHANGED terms
  BY DEF Execute, ResourceRow
<1>6. receipt[a] = Null
  BY <1>type DEF Execute, CanExecute, ResourceRow, RowAgrees
<1>7. receipt'[a] \in Receipt
  BY <1>2, <1>4 DEF Receipt
<1>8. ReceiptTrue(a)'
  BY <1>1, <1>2, <1>3, <1>4, <1>5 DEF ReceiptTrue
<1>9. /\ \A b \in Approval : b # a => receipt'[b] = receipt[b]
      /\ \A y \in Resource : y # x => resource'[y] = resource[y]
  BY <1>type DEF TypeOK, AuthorizationTypeOK, Execute, ResourceRow
<1> QED
  BY <1>2, <1>3, <1>5, <1>6, <1>7, <1>8, <1>9

(* No step lowers a resource's version, and only Execute writes receipts.  *)
LEMMA VersionsGrow ==
  ASSUME TypeOK, [Next]_vars,
         ~ \E h \in Human, a \in Approval, v \in 1..LongestHistory,
              x \in Resource, n \in Name, d \in Digest :
             Execute(h, a, v, x, n, d)
  PROVE  /\ UNCHANGED receipt
         /\ \A y \in Resource : resource[y].version <= resource'[y].version
<1>1. ASSUME UNCHANGED resource
      PROVE  \A y \in Resource : resource[y].version <= resource'[y].version
  BY <1>1 DEF TypeOK, AuthorizationTypeOK
<1>2. ASSUME NEW h, NEW x \in Resource, NEW n, Rename(h, x, n)
      PROVE  /\ UNCHANGED receipt
             /\ \A y \in Resource : resource[y].version <= resource'[y].version
  BY <1>2 DEF TypeOK, AuthorizationTypeOK, Rename, DirectRename, ResourceRow,
     approvalVars
<1>3. ASSUME ApprovalStep PROVE UNCHANGED <<receipt, resource>>
  <2>1. \A h, q, x, n, review :
          Request(h, q, x, n, review) => UNCHANGED <<receipt, resource>>
    BY DEF Request
  <2>2. \A h, a, v, outcome :
          Decide(h, a, v, outcome) => UNCHANGED <<receipt, resource>>
    BY DEF Decide
  <2>3. \A h, a, v, d :
          IssuePermit(h, a, v, d) => UNCHANGED <<receipt, resource>>
    BY DEF IssuePermit
  <2>4. \A h, a, v : Revoke(h, a, v) => UNCHANGED <<receipt, resource>>
    BY DEF Revoke
  <2> QED
    BY <1>3, <2>1, <2>2, <2>3, <2>4 DEF ApprovalStep
<1>4. ASSUME AuthorityStep PROVE UNCHANGED <<receipt, resource>>
  <2>1. \A S : InvalidateApprovals(S) => UNCHANGED receipt
    BY DEF InvalidateApprovals
  <2> QED
    BY <1>4, <2>1 DEF AuthorityStep, SetHumanStatus, HumanRow, SetMembership,
       MembershipRow,
         SetOrganizationStatus, OrganizationRow, ChangePolicy, PolicyRow,
         RuleBoundary, RuleTurns, approvalVars
<1>5. ASSUME \/ UNCHANGED vars \/ Tick
             \/ \E h \in Human : SignIn(h) \/ SignOut(h)
      PROVE  UNCHANGED <<receipt, resource>>
  BY <1>5 DEF vars, Tick, TimePasses, SignIn, SessionOpens, SignOut,
     SessionEnds, approvalVars
<1> QED
  BY <1>1, <1>2, <1>3, <1>4, <1>5 DEF Next

LEMMA EffectStep ==
  IInv /\ OneEffectPerResourceVersion /\ [Next]_vars
    => OneEffectPerResourceVersion'
<1> SUFFICES ASSUME IInv, OneEffectPerResourceVersion, [Next]_vars
             PROVE  OneEffectPerResourceVersion'
  OBVIOUS
<1>type. TypeOK /\ \A b \in Approval : RowAgrees(b)
  BY DEF IInv, TablesAgree
<1>true. \A b \in Approval : ReceiptTrue(b)
  BY DEF OneEffectPerResourceVersion, ReceiptTrue
<1>kept. ASSUME NEW b \in Approval, receipt[b] # Null
         PROVE  /\ receipt'[b] = receipt[b] /\ terms'[b] = terms[b]
                /\ receipt[b].version \in Nat
                /\ terms[b].resource \in Resource
  <2>1. state[b] = "consumed"
    BY <1>type, <1>kept DEF RowAgrees
  <2>2. UNCHANGED Columns(b)
    BY <1>type, <2>1, RowStep, TouchedRow DEF Live
  <2>3. receipt[b] \in Receipt /\ terms[b] \in Terms
    BY <1>type, <1>kept, <2>1 DEF TypeOK, AuthorizationTypeOK, RowAgrees
  <2> QED
    BY <2>2, <2>3 DEF Columns, Receipt, Terms
<1>1. ASSUME NEW h \in Human, NEW a \in Approval, NEW v \in 1..LongestHistory,
             NEW x \in Resource, NEW n \in Name, NEW d \in Digest,
             Execute(h, a, v, x, n, d)
      PROVE  OneEffectPerResourceVersion'
  <2>0. /\ receipt[a] = Null
        /\ receipt'[a] \in Receipt /\ ReceiptTrue(a)'
        /\ receipt'[a].resource = x
        /\ receipt'[a].version = resource[x].version + 1
        /\ resource'[x].version = resource[x].version + 1
        /\ \A b \in Approval : b # a => receipt'[b] = receipt[b]
        /\ \A y \in Resource : y # x => resource'[y] = resource[y]
        /\ UNCHANGED terms
    BY <1>1, ExecuteReceipt
  <2>1. ASSUME NEW b \in Approval PROVE ReceiptTrue(b)'
    <3>1. CASE b = a
      BY <2>0, <3>1
    <3>2. CASE b # a /\ receipt'[b] # Null
      <4>1. receipt[b] # Null /\ receipt'[b] = receipt[b]
        BY <2>0, <3>2
      <4>2. /\ receipt[b].version \in Nat /\ terms[b].resource \in Resource
            /\ resource[x].version \in Nat
        BY <1>type, <1>kept, <4>1 DEF TypeOK, AuthorizationTypeOK
      <4>3. /\ resource[terms[b].resource].version \in Nat
            /\ resource'[terms[b].resource].version \in Nat
            /\ resource[terms[b].resource].version
                 <= resource'[terms[b].resource].version
        <5>1. resource[terms[b].resource].version \in Nat
          BY <1>type, <4>2 DEF TypeOK, AuthorizationTypeOK
        <5>2. CASE terms[b].resource = x
          BY <2>0, <4>2, <5>1, <5>2
        <5>3. CASE terms[b].resource # x
          BY <2>0, <4>2, <5>1, <5>3
        <5> QED
          BY <5>1, <5>2, <5>3
      <4> QED
        BY <1>true, <2>0, <4>1, <4>2, <4>3 DEF ReceiptTrue
    <3>3. CASE b # a /\ receipt'[b] = Null
      BY <3>3 DEF ReceiptTrue
    <3> QED
      BY <3>1, <3>2, <3>3
  <2>2. ASSUME NEW b \in Approval, b # a, receipt'[b] # Null,
               receipt'[b].resource = x
        PROVE  receipt'[b].version # receipt'[a].version
    <3>1. receipt[b] # Null /\ receipt'[b] = receipt[b]
      BY <2>0, <2>2
    <3>2. receipt[b].version <= resource[x].version
      BY <1>true, <2>2, <3>1 DEF ReceiptTrue
    <3>3. receipt[b].version \in Nat /\ resource[x].version \in Nat
      BY <1>type, <1>kept, <3>1 DEF TypeOK, AuthorizationTypeOK
    <3> QED
      BY <2>0, <3>1, <3>2, <3>3
  <2>3. ASSUME NEW b \in Approval, NEW c \in Approval,
               receipt'[b] # Null, receipt'[c] # Null,
               receipt'[b].resource = receipt'[c].resource,
               receipt'[b].version = receipt'[c].version
        PROVE  b = c
    <3>1. CASE b = a
      BY <2>0, <2>2, <2>3, <3>1
    <3>2. CASE c = a
      BY <2>0, <2>2, <2>3, <3>2
    <3>3. CASE b # a /\ c # a
      BY <2>0, <2>3, <3>3 DEF OneEffectPerResourceVersion
    <3> QED
      BY <3>1, <3>2, <3>3
  <2> QED
    BY <2>1, <2>3 DEF OneEffectPerResourceVersion, ReceiptTrue
<1>2. ASSUME UNCHANGED receipt,
             \A y \in Resource : resource[y].version <= resource'[y].version
      PROVE  OneEffectPerResourceVersion'
  <2>1. ASSUME NEW b \in Approval, receipt[b] # Null PROVE ReceiptTrue(b)'
    <3>1. /\ receipt[b].version \in Nat /\ terms[b].resource \in Resource
          /\ terms'[b] = terms[b]
      BY <1>kept, <2>1
    <3>2. TypeOK'
      BY TypeStep DEF IInv
    <3>3. /\ resource[terms[b].resource].version \in Nat
          /\ resource'[terms[b].resource].version \in Nat
      BY <1>type, <3>1, <3>2 DEF TypeOK, AuthorizationTypeOK
    <3>4. resource[terms[b].resource].version
            <= resource'[terms[b].resource].version
      BY <1>2, <3>1
    <3> QED
      BY <1>true, <1>2, <2>1, <3>1, <3>3, <3>4 DEF ReceiptTrue
  <2> QED
    BY <1>2, <2>1 DEF OneEffectPerResourceVersion, ReceiptTrue
<1> QED
  BY <1>type, <1>1, <1>2, VersionsGrow

(* However many requests are approved for one version of a resource, one   *)
(* at most is executed, and it does what was approved.                     *)
THEOREM OneEffectAlways == Spec => []OneEffectPerResourceVersion
<1>1. Init => OneEffectPerResourceVersion
  BY DEF Init, AuthorizationInit, OneEffectPerResourceVersion
<1> QED
  BY <1>1, EffectStep, IInvAlways, PTL DEF Spec

-----------------------------------------------------------------------------
(* Effects are authorized. *)

LEMMA ExecuteIsApproved ==
  ASSUME IInv, NEW h \in Human, NEW a \in Approval, NEW v, NEW x \in Resource,
         NEW n \in Name, NEW d \in Digest, Execute(h, a, v, x, n, d)
  PROVE  /\ a \in Done /\ ByApproval(a, x)
         /\ \A y \in Resource : resource'[y] # resource[y] => y = x
<1>1. /\ receipt[a] = Null /\ receipt'[a] \in Receipt
      /\ \A b \in Approval : b # a => receipt'[b] = receipt[b]
      /\ \A y \in Resource : y # x => resource'[y] = resource[y]
  BY ExecuteReceipt DEF IInv, TablesAgree
<1>2. Done = {a}
  BY <1>1, LifetimesAssumption DEF Done
<1>3. /\ Requester(a) = h /\ Actor(h) /\ Reads(h)
      /\ terms[a].resource = x /\ Current(a)
      /\ clock < permit[a].end /\ state[a] = "issued"
  BY DEF Execute, CanExecute, Visible, MatchesApproved
<1>4. clock < terms[a].expires /\ Writes(h, x) # "deny" /\ Endorsed(a)
  BY <1>3 DEF Current, IInv, TablesAgree, RowAgrees
<1>5. /\ Authority(decision[a].actor) /\ Reads(decision[a].actor)
      /\ IF decision[a].actor = h THEN Writes(h, x) = "allow"
         ELSE /\ member[decision[a].actor].role = "owner"
              /\ Writes(decision[a].actor, x) # "deny"
  BY <1>3, <1>4 DEF Endorsed, IndependentReviewer
<1> QED
  BY <1>1, <1>2, <1>3, <1>4, <1>5 DEF ByApproval

(* At the moment a resource changes, whoever asked, approved or acted      *)
(* directly has the authority to: nothing decided earlier is relied on.    *)
THEOREM EffectsAlwaysAuthorized == Spec => EffectsAreAuthorized
<1>1. IInv /\ [Next]_vars =>
        [\A x \in Resource : resource'[x] # resource[x] =>
           \/ Done = {} /\ ByOneself(x)
           \/ \E a \in Done : ByApproval(a, x)]_vars
  <2> SUFFICES ASSUME IInv, Next, NEW x \in Resource,
                      resource'[x] # resource[x]
               PROVE  \/ Done = {} /\ ByOneself(x)
                      \/ \E a \in Done : ByApproval(a, x)
    OBVIOUS
  <2>1. ASSUME NEW h, NEW a, NEW v, NEW q, NEW y, NEW n, NEW d, NEW review,
               NEW outcome,
               \/ Request(h, q, y, n, review) \/ Decide(h, a, v, outcome)
               \/ IssuePermit(h, a, v, d) \/ Revoke(h, a, v)
        PROVE  FALSE
    BY <2>1 DEF Request, Decide, IssuePermit, Revoke
  <2>2. ASSUME NEW h \in Human, NEW a \in Approval, NEW v, NEW y \in Resource,
               NEW n \in Name, NEW d \in Digest, Execute(h, a, v, y, n, d)
        PROVE  \E b \in Done : ByApproval(b, x)
    BY <2>2, ExecuteIsApproved
  <2>3. ASSUME NEW h \in Human, NEW y \in Resource, NEW n \in Name,
               Rename(h, y, n)
        PROVE  Done = {} /\ ByOneself(x)
    <3>1. x = y
      BY <2>3 DEF Rename, DirectRename, ResourceRow, IInv, TypeOK,
         AuthorizationTypeOK
    <3> QED
      BY <2>3, <3>1 DEF Rename, DirectRename, CanRename, approvalVars, Done, ByOneself
  <2>4. CASE AuthorityStep
    <3>1. UNCHANGED resource
      BY <2>4 DEF AuthorityStep, SetHumanStatus, HumanRow, SetMembership,
         MembershipRow, SetOrganizationStatus, OrganizationRow, ChangePolicy,
         PolicyRow, RuleBoundary, RuleTurns
    <3> QED
      BY <3>1
  <2>5. ASSUME NEW h \in Human, SignIn(h) \/ SignOut(h)
        PROVE  FALSE
    BY <2>5 DEF SignIn, SessionOpens, SignOut, SessionEnds
  <2>6. CASE Tick
    BY <2>6 DEF Tick, TimePasses
  <2>7. CASE ApprovalStep
    BY <2>1, <2>2, <2>7 DEF ApprovalStep
  <2> QED
    BY <2>3, <2>4, <2>5, <2>6, <2>7 DEF Next
<1> QED
  BY <1>1, IInvAlways, PTL DEF Spec, EffectsAreAuthorized

-----------------------------------------------------------------------------
(* The one-shot grant.  The three tables it is about, as the refinement    *)
(* mapping makes them.                                                     *)

GrantPhases == [a \in Approval |-> GrantPhase(a)]
GrantTerms ==
  [a \in Approval |->
     IF terms[a] = Null THEN Null
     ELSE [target |-> terms[a].resource, version |-> terms[a].version]]
Versions == [x \in Resource |-> resource[x].version]

PhaseOf(s) ==
  CASE s = "none" -> "none"
    [] s = "pending" -> "open"
    [] s \in {"approved", "issued"} -> "granted"
    [] s = "consumed" -> "spent"
    [] s \in {"rejected", "revoked"} -> "void"

LEMMA PhaseValues ==
  /\ PhaseOf("none") = "none" /\ PhaseOf("pending") = "open"
  /\ PhaseOf("approved") = "granted" /\ PhaseOf("issued") = "granted"
  /\ PhaseOf("consumed") = "spent"
  /\ PhaseOf("rejected") = "void" /\ PhaseOf("revoked") = "void"
BY DEF PhaseOf

LEMMA PhasesOfRows ==
  /\ GrantPhases = [a \in Approval |-> PhaseOf(state[a])]
  /\ GrantPhases' = [a \in Approval |-> PhaseOf(state'[a])]
BY DEF GrantPhases, GrantPhase, PhaseOf

LEMMA OneRowMoves ==
  ASSUME TypeOK, NEW a \in Approval, NEW s, state' = [state EXCEPT ![a] = s]
  PROVE  GrantPhases' = [GrantPhases EXCEPT ![a] = PhaseOf(s)]
<1>1. \A b \in Approval : state'[b] = IF b = a THEN s ELSE state[b]
  BY DEF TypeOK
<1> QED
  BY <1>1, PhasesOfRows

(* What makes a step one of the abstract grant, in terms of those tables.  *)
GrantVars == <<GrantPhases, GrantTerms, Versions>>

LEMMA GrantStutters ==
  ASSUME UNCHANGED GrantVars
  PROVE  UNCHANGED Grants!vars
BY DEF GrantVars, GrantPhases, GrantTerms, Versions, Grants!vars

LEMMA GrantOpens ==
  ASSUME NEW a \in Approval, NEW x \in Resource, NEW p \in {"open", "granted"},
         GrantPhases[a] = "none",
         GrantPhases' = [GrantPhases EXCEPT ![a] = p],
         GrantTerms' = [GrantTerms EXCEPT ![a] = [target |-> x, version |-> Versions[x]]],
         UNCHANGED Versions
  PROVE  Grants!Next
<1>1. Grants!Open(a)
  BY DEF GrantPhases, GrantTerms, Versions, Grants!Open
<1> QED
  BY <1>1 DEF Grants!Next

LEMMA GrantAllowed ==
  ASSUME NEW a \in Approval, GrantPhases[a] = "open",
         GrantTerms[a].version = Versions[GrantTerms[a].target],
         GrantPhases' = [GrantPhases EXCEPT ![a] = "granted"],
         UNCHANGED <<GrantTerms, Versions>>
  PROVE  Grants!Next
<1>1. Grants!Allow(a)
  BY DEF GrantPhases, GrantTerms, Versions, Grants!Allow
<1> QED
  BY <1>1 DEF Grants!Next

LEMMA GrantSpent ==
  ASSUME NEW a \in Approval, GrantPhases[a] = "granted",
         GrantTerms[a].version = Versions[GrantTerms[a].target],
         GrantPhases' = [GrantPhases EXCEPT ![a] = "spent"],
         Versions' = [Versions EXCEPT ![GrantTerms[a].target] = @ + 1],
         UNCHANGED GrantTerms
  PROVE  Grants!Next
<1>1. Grants!Spend(a)
  BY DEF GrantPhases, GrantTerms, Versions, Grants!Spend
<1> QED
  BY <1>1 DEF Grants!Next

LEMMA GrantsVoided ==
  ASSUME NEW S \in SUBSET Approval, \A a \in S : GrantPhases[a] \in {"open", "granted"},
         GrantPhases' = [a \in Approval |-> IF a \in S THEN "void" ELSE GrantPhases[a]],
         UNCHANGED <<GrantTerms, Versions>>
  PROVE  Grants!Next
<1>1. Grants!Void(S)
  BY DEF GrantPhases, GrantTerms, Versions, Grants!Void
<1> QED
  BY <1>1 DEF Grants!Next

LEMMA TargetMoved ==
  ASSUME NEW x \in Resource, Versions' = [Versions EXCEPT ![x] = @ + 1],
         UNCHANGED <<GrantPhases, GrantTerms>>
  PROVE  Grants!Next
<1>1. Grants!MoveDirectly(x)
  BY DEF GrantPhases, GrantTerms, Versions, Grants!MoveDirectly
<1> QED
  BY <1>1 DEF Grants!Next

(* A resource row that is written moves its target, and no other.          *)
LEMMA ResourceRowMoves ==
  ASSUME TypeOK, NEW x \in Resource, NEW n \in Name, ResourceRow(x, n)
  PROVE  Versions' = [Versions EXCEPT ![x] = @ + 1]
<1>1. \A y \in Resource : resource'[y].version =
        IF y = x THEN resource[y].version + 1 ELSE resource[y].version
  BY DEF ResourceRow, TypeOK, AuthorizationTypeOK
<1> QED
  BY <1>1 DEF Versions

(* The grant of a request that current() lets go ahead is for the present  *)
(* version of its target.                                                  *)
LEMMA CurrentGrant ==
  ASSUME IInv, NEW a \in Approval, Current(a)
  PROVE  /\ terms[a] # Null /\ terms[a].resource \in Resource
         /\ GrantTerms[a] = [target |-> terms[a].resource, version |-> terms[a].version]
         /\ GrantTerms[a].version = Versions[GrantTerms[a].target]
<1>1. terms[a] # Null
  BY DEF IInv, TablesAgree, RowAgrees, Current, Live
<1>2. terms[a] \in Terms
  BY <1>1 DEF IInv, TypeOK
<1>3. terms[a].resource \in Resource /\ terms[a].version = resource[terms[a].resource].version
  BY <1>2 DEF Terms, Current
<1> QED
  BY <1>1, <1>3 DEF GrantTerms, Versions

(* What every transaction of the control plane is to the abstract grant.   *)
LEMMA GrantStep == IInv /\ [Next]_vars => [Grants!Next]_(Grants!vars)
<1> SUFFICES ASSUME IInv, [Next]_vars PROVE Grants!Next \/ UNCHANGED Grants!vars
  OBVIOUS
<1>type. TypeOK /\ TablesAgree
  BY DEF IInv
<1>phase. \A a \in Approval : GrantPhases[a] = PhaseOf(state[a])
  BY PhasesOfRows
<1>void. ASSUME NEW S, InvalidateApprovals(S), UNCHANGED resource
         PROVE  Grants!Next
  <2> DEFINE V == {a \in Approval : a \in S /\ state[a] \in Live}
  <2>1. state' = [a \in Approval |-> IF a \in V THEN "revoked" ELSE state[a]]
    BY <1>void DEF InvalidateApprovals
  <2>2. \A a \in V : GrantPhases[a] \in {"open", "granted"}
    BY <1>phase, PhaseValues DEF Live
  <2>3. V \in SUBSET Approval
    OBVIOUS
  <2> HIDE DEF V
  <2>4. GrantPhases' = [a \in Approval |-> IF a \in V THEN "void" ELSE GrantPhases[a]]
    <3>1. \A a \in Approval : PhaseOf(state'[a]) =
            IF a \in V THEN "void" ELSE GrantPhases[a]
      BY <1>phase, <2>1, PhaseValues
    <3> QED
      BY <3>1, PhasesOfRows
  <2>5. UNCHANGED <<GrantTerms, Versions>>
    BY <1>void DEF InvalidateApprovals, GrantTerms, Versions
  <2> QED
    BY <2>2, <2>3, <2>4, <2>5, GrantsVoided
<1>voidone. ASSUME NEW a \in Approval, state[a] \in Live, NEW s \in {"rejected", "revoked"},
                   state' = [state EXCEPT ![a] = s], UNCHANGED <<terms, resource>>
            PROVE  Grants!Next
  <2>1. GrantPhases' = [GrantPhases EXCEPT ![a] = "void"]
    <3>1. GrantPhases' = [GrantPhases EXCEPT ![a] = PhaseOf(s)]
      BY <1>type, <1>voidone, OneRowMoves
    <3> QED
      BY <3>1, PhaseValues
  <2>2. GrantPhases' = [b \in Approval |-> IF b \in {a} THEN "void" ELSE GrantPhases[b]]
    BY <2>1 DEF GrantPhases
  <2>3. GrantPhases[a] \in {"open", "granted"}
    BY <1>phase, <1>voidone, PhaseValues DEF Live
  <2>4. UNCHANGED <<GrantTerms, Versions>>
    BY <1>voidone DEF GrantTerms, Versions
  <2> QED
    BY <2>2, <2>3, <2>4, GrantsVoided
<1>1. ASSUME NEW h \in Human, NEW q \in RequestId, NEW x \in Resource,
             NEW n \in Name, NEW review \in {"required", "policy"},
             Request(h, q, x, n, review)
      PROVE  Grants!Next
  <2> DEFINE a == <<h, q>>
             t == [resource |-> x, name |-> n, version |-> resource[x].version,
                   stamp |-> Stamp(h), review |-> review,
                   expires |-> clock + ApprovalLifetime]
  <2>1. a \in Approval
    BY DEF Approval
  <2>2. t # Null /\ t.resource = x /\ t.version = Versions[x]
    <3>1. t \in Terms
      BY <1>type, TermsType
    <3>2. t # Null
      BY <3>1, LifetimesAssumption
    <3> QED
      BY <3>2 DEF Versions
  <2>3. state[a] = "none" /\ terms' = [terms EXCEPT ![a] = t] /\ UNCHANGED resource
    BY <1>1 DEF Request, CanRequest
  <2>4. \/ state' = [state EXCEPT ![a] = "pending"]
        \/ state' = [state EXCEPT ![a] = "approved"]
    BY <1>1 DEF Request
  <2> HIDE DEF a, t
  <2>5. GrantTerms' = [GrantTerms EXCEPT ![a] = [target |-> x, version |-> Versions[x]]]
    <3>1. \A b \in Approval : terms'[b] = IF b = a THEN t ELSE terms[b]
      BY <1>type, <2>1, <2>3 DEF TypeOK
    <3> QED
      BY <2>2, <3>1 DEF GrantTerms
  <2>6. GrantPhases[a] = "none" /\ UNCHANGED Versions
    BY <1>phase, <2>1, <2>3, PhaseValues DEF Versions
  <2>7. CASE state' = [state EXCEPT ![a] = "pending"]
    <3>1. GrantPhases' = [GrantPhases EXCEPT ![a] = "open"]
      BY <1>type, <2>1, <2>7, OneRowMoves, PhaseValues
    <3> QED
      BY <2>1, <2>5, <2>6, <3>1, GrantOpens
  <2>8. CASE state' = [state EXCEPT ![a] = "approved"]
    <3>1. GrantPhases' = [GrantPhases EXCEPT ![a] = "granted"]
      BY <1>type, <2>1, <2>8, OneRowMoves, PhaseValues
    <3> QED
      BY <2>1, <2>5, <2>6, <3>1, GrantOpens
  <2> QED
    BY <2>4, <2>7, <2>8
<1>2. ASSUME NEW h \in Human, NEW a \in Approval, NEW v,
             NEW outcome \in {"approve", "reject"}, Decide(h, a, v, outcome)
      PROVE  Grants!Next
  <2>1. /\ state[a] = "pending" /\ Current(a) /\ UNCHANGED <<terms, resource>>
        /\ state' = [state EXCEPT ![a] = DecidedState(outcome)]
    BY <1>2 DEF Decide, CanDecide, Transition
  <2>2. CASE outcome = "approve"
    <3>1. GrantPhases' = [GrantPhases EXCEPT ![a] = "granted"]
      BY <1>type, <2>1, <2>2, OneRowMoves, PhaseValues DEF DecidedState
    <3>2. GrantPhases[a] = "open" /\ UNCHANGED <<GrantTerms, Versions>>
      BY <1>phase, <2>1, PhaseValues DEF GrantTerms, Versions
    <3> QED
      BY <2>1, <3>1, <3>2, CurrentGrant, GrantAllowed
  <2>3. CASE outcome = "reject"
    BY <1>voidone, <2>1, <2>3 DEF DecidedState, Live
  <2> QED
    BY <2>2, <2>3
<1>3. ASSUME NEW h \in Human, NEW a \in Approval, NEW v, NEW d \in Digest,
             IssuePermit(h, a, v, d)
      PROVE  UNCHANGED Grants!vars
  <2>1. /\ state[a] = "approved" /\ state' = [state EXCEPT ![a] = "issued"]
        /\ UNCHANGED <<terms, resource>>
    BY <1>3 DEF IssuePermit, CanIssue, Transition
  <2>2. GrantPhases' = [GrantPhases EXCEPT ![a] = "granted"]
    <3>1. GrantPhases' = [GrantPhases EXCEPT ![a] = PhaseOf("issued")]
      BY <1>type, <2>1, OneRowMoves
    <3> QED
      BY <3>1, PhaseValues
  <2>3. GrantPhases[a] = "granted"
    BY <1>phase, <2>1, PhaseValues
  <2>4. UNCHANGED GrantPhases
    BY <2>2, <2>3 DEF GrantPhases
  <2>5. UNCHANGED <<GrantTerms, Versions>>
    BY <2>1 DEF GrantTerms, Versions
  <2> QED
    BY <2>4, <2>5, GrantStutters DEF GrantVars
<1>4. ASSUME NEW h \in Human, NEW a \in Approval, NEW v, NEW x \in Resource,
             NEW n \in Name, NEW d \in Digest, Execute(h, a, v, x, n, d)
      PROVE  Grants!Next
  <2>1. /\ state[a] = "issued" /\ state' = [state EXCEPT ![a] = "consumed"]
        /\ Current(a) /\ terms[a].resource = x /\ ResourceRow(x, n) /\ UNCHANGED terms
    BY <1>4 DEF Execute, CanExecute, MatchesApproved, Transition
  <2>2. GrantPhases' = [GrantPhases EXCEPT ![a] = "spent"]
    <3>1. GrantPhases' = [GrantPhases EXCEPT ![a] = PhaseOf("consumed")]
      BY <1>type, <2>1, OneRowMoves
    <3> QED
      BY <3>1, PhaseValues
  <2>3. GrantPhases[a] = "granted" /\ UNCHANGED GrantTerms
    BY <1>phase, <2>1, PhaseValues DEF GrantTerms
  <2>4. GrantTerms[a].version = Versions[GrantTerms[a].target] /\ GrantTerms[a].target = x
    <3>1. /\ GrantTerms[a] = [target |-> terms[a].resource, version |-> terms[a].version]
          /\ GrantTerms[a].version = Versions[GrantTerms[a].target]
      BY <2>1, CurrentGrant
    <3> QED
      BY <2>1, <3>1
  <2>5. Versions' = [Versions EXCEPT ![x] = @ + 1]
    BY <1>type, <2>1, ResourceRowMoves
  <2> QED
    BY <2>2, <2>3, <2>4, <2>5, GrantSpent
<1>5. ASSUME NEW h \in Human, NEW a \in Approval, NEW v, Revoke(h, a, v)
      PROVE  Grants!Next
  BY <1>5, <1>voidone DEF Revoke, CanRevoke, Transition
<1>6. ASSUME NEW h \in Human, NEW x \in Resource, NEW n \in Name, Rename(h, x, n)
      PROVE  Grants!Next
  <2>1. ResourceRow(x, n) /\ UNCHANGED <<state, terms>>
    BY <1>6 DEF Rename, DirectRename, approvalVars
  <2>2. UNCHANGED <<GrantPhases, GrantTerms>>
    BY <2>1 DEF GrantPhases, GrantPhase, GrantTerms
  <2> QED
    BY <1>type, <2>1, <2>2, ResourceRowMoves, TargetMoved
<1>7. ASSUME UNCHANGED <<state, terms, resource>>
      PROVE  UNCHANGED Grants!vars
  <2>1. UNCHANGED GrantVars
    BY <1>7 DEF GrantVars, GrantPhases, GrantPhase, GrantTerms, Versions
  <2> QED
    BY <2>1, GrantStutters
<1>8. CASE ApprovalStep
  BY <1>1, <1>2, <1>3, <1>4, <1>5, <1>8 DEF ApprovalStep
<1>9. CASE AuthorityStep
  <2>1. ASSUME NEW h \in Human, NEW effect \in RuleEffect, RuleBoundary(h, effect)
        PROVE  UNCHANGED <<state, terms, resource>>
    BY <2>1 DEF RuleBoundary, RuleTurns, approvalVars
  <2>2. ASSUME NEW h \in Human, NEW active \in BOOLEAN, SetHumanStatus(h, active)
        PROVE  Grants!Next
    BY <1>void, <2>2 DEF SetHumanStatus, HumanRow
  <2>3. ASSUME NEW h \in Human, NEW role \in Role, NEW active \in BOOLEAN,
               SetMembership(h, role, active)
        PROVE  Grants!Next
    BY <1>void, <2>3 DEF SetMembership, MembershipRow
  <2>4. ASSUME NEW active \in BOOLEAN, SetOrganizationStatus(active)
        PROVE  Grants!Next
    BY <1>void, <2>4 DEF SetOrganizationStatus, OrganizationRow
  <2>5. ASSUME NEW mode \in {"active", "read_only"}, NEW h \in Human,
               NEW effect \in RuleEffect, ChangePolicy(mode, h, effect)
        PROVE  Grants!Next
    BY <1>void, <2>5 DEF ChangePolicy, PolicyRow
  <2> QED
    BY <1>7, <1>9, <2>1, <2>2, <2>3, <2>4, <2>5 DEF AuthorityStep
<1>10. CASE \/ UNCHANGED vars \/ Tick \/ \E h \in Human : SignIn(h) \/ SignOut(h)
  <2>1. UNCHANGED <<state, terms, resource>>
    BY <1>10 DEF vars, Tick, TimePasses, SignIn, SessionOpens, SignOut, SessionEnds,
       approvalVars
  <2> QED
    BY <1>7, <2>1
<1> QED
  BY <1>6, <1>8, <1>9, <1>10 DEF Next

(* The control plane implements the one-shot grant: an approval is granted *)
(* at most once and spent at most once, only after it was granted and only *)
(* while its resource is at the version it was asked for.                  *)
THEOREM ApprovalsAreOneShotGrants == Spec => ImplementsOneShotGrant
<1>1. Init => Grants!Init
  <2> SUFFICES ASSUME Init PROVE Grants!Init
    OBVIOUS
  <2>1. \A a \in Approval : GrantPhase(a) = "none"
    BY DEF Init, GrantPhase
  <2>2. \A a \in Approval : terms[a] = Null
    BY DEF Init
  <2>3. \A x \in Resource : resource[x].version = 1
    BY DEF Init, AuthorizationInit
  <2> QED
    BY <2>1, <2>2, <2>3 DEF Grants!Init
<1> QED
  BY <1>1, GrantStep, IInvAlways, PTL DEF Spec, ImplementsOneShotGrant, Grants!Spec

-----------------------------------------------------------------------------
(***************************************************************************)
(* The same transactions taken apart into lock waits, reads and a commit   *)
(* (module ApprovalLocks).                                                 *)
(***************************************************************************)

(* Calls made under the locks of everybody involved.                       *)
Scoped == OnApproval \cup {"request", "rename"}

LEMMA CallFields ==
  ASSUME NEW j \in Call
  PROVE  /\ j.op \in Scoped \cup Mutator \cup {"revokeSession"}
         /\ j.op \in Scoped \cup {"revokeSession"} => j.h \in Human
         /\ j.op \in OnApproval => j.a \in Approval
         /\ j.op \in {"request", "rename", "execute"} => j.x \in Resource /\ j.n \in Name
         /\ j.op = "request" => j.q \in RequestId /\ j.review \in {"required", "policy"}
         /\ j.op = "decide" => j.outcome \in {"approve", "reject"}
         /\ j.op \in {"issuePermit", "execute"} => j.d \in Digest
         /\ j.op \in {"setHumanStatus", "setMembership"} => j.h \in Human /\ j.active \in BOOLEAN
         /\ j.op = "setMembership" => j.role \in Role
         /\ j.op = "setOrganizationStatus" => j.active \in BOOLEAN
         /\ j.op = "changePolicy" =>
              j.h \in Human /\ j.mode \in {"active", "read_only"} /\ j.effect \in RuleEffect
BY DEF Call, Scoped, OnApproval, Mutator

(* A live request has moved at most twice: a caller's guard version is one *)
(* the control plane knows.                                                *)
VersionsOf == [none |-> {0}, pending |-> {1}, approved |-> {2}, issued |-> {3},
               rejected |-> {2}, revoked |-> 2..4, consumed |-> {4}]
Counted == \A a \in Approval : version[a] \in VersionsOf[state[a]]

LEMMA CountedInit == Init => Counted
BY DEF Init, Counted, VersionsOf

LEMMA CountedStep ==
  ASSUME IInv, Counted, [Next]_vars
  PROVE  Counted'
<1> SUFFICES ASSUME NEW b \in Approval PROVE version'[b] \in VersionsOf[state'[b]]
  BY DEF Counted
<1>0. version[b] \in VersionsOf[state[b]] /\ state[b] \in State
  BY DEF Counted, IInv, TypeOK
<1>type. TypeOK
  BY DEF IInv
<1>1. ASSUME NEW h \in Human, NEW q \in RequestId, NEW x \in Resource, NEW n \in Name,
             NEW review \in {"required", "policy"}, b = <<h, q>>, Request(h, q, x, n, review)
      PROVE  version'[b] \in VersionsOf[state'[b]]
  <2>1. \/ state'[b] = "pending" /\ version'[b] = 1
        \/ state'[b] = "approved" /\ version'[b] = 2
    BY <1>1, <1>type DEF TypeOK, Request
  <2> QED BY <2>1 DEF VersionsOf
<1>2. ASSUME NEW h \in Human, NEW v, NEW outcome \in {"approve", "reject"}, Decide(h, b, v, outcome)
      PROVE  version'[b] \in VersionsOf[state'[b]]
  <2>1. state[b] = "pending" /\ state'[b] = DecidedState(outcome) /\ version'[b] = version[b] + 1
    BY <1>2, <1>type DEF TypeOK, Decide, CanDecide, Transition
  <2>2. version[b] = 1
    BY <1>0, <2>1 DEF VersionsOf
  <2> QED BY <2>1, <2>2 DEF VersionsOf, DecidedState
<1>3. ASSUME NEW h \in Human, NEW v, NEW d \in Digest, IssuePermit(h, b, v, d)
      PROVE  version'[b] \in VersionsOf[state'[b]]
  <2>1. state[b] = "approved" /\ state'[b] = "issued" /\ version'[b] = version[b] + 1
    BY <1>3, <1>type DEF TypeOK, IssuePermit, CanIssue, Transition
  <2>2. version[b] = 2
    BY <1>0, <2>1 DEF VersionsOf
  <2> QED BY <2>1, <2>2 DEF VersionsOf
<1>4. ASSUME NEW h \in Human, NEW v, NEW x \in Resource, NEW n \in Name, NEW d \in Digest,
             Execute(h, b, v, x, n, d)
      PROVE  version'[b] \in VersionsOf[state'[b]]
  <2>1. state[b] = "issued" /\ state'[b] = "consumed" /\ version'[b] = version[b] + 1
    BY <1>4, <1>type DEF TypeOK, Execute, CanExecute, Transition
  <2>2. version[b] = 3
    BY <1>0, <2>1 DEF VersionsOf
  <2> QED BY <2>1, <2>2 DEF VersionsOf
<1>5. CASE Invalidated(b)
  <2>1. state[b] \in {"pending", "approved", "issued"} /\ state'[b] = "revoked" /\ version'[b] = version[b] + 1
    BY <1>5 DEF Invalidated, Live
  <2>2. version[b] \in 1..3
    BY <1>0, <2>1 DEF VersionsOf
  <2> QED BY <2>1, <2>2 DEF VersionsOf
<1>6. CASE UNCHANGED Columns(b)
  BY <1>0, <1>6 DEF Columns
<1> QED
  BY <1>1, <1>2, <1>3, <1>4, <1>5, <1>6, <1>type, RowStep DEF Touches

(* The step a call makes is a transaction of Approvals.                    *)
LEMMA EffectIsStep ==
  ASSUME IInv, Counted, NEW j \in Call, NEW v, Effect(j, v)
  PROVE  Next
<1>live. ASSUME NEW a \in Approval, v = version[a], state[a] \in Live
         PROVE  v \in 1..LongestHistory
  <2>1. version[a] \in VersionsOf[state[a]]
    BY DEF Counted
  <2>2. version[a] \in 1..3
    BY <1>live, <2>1 DEF VersionsOf, Live
  <2> QED BY <1>live, <2>2 DEF LongestHistory
<1>1. CASE j.op = "request" /\ Request(j.h, j.q, j.x, j.n, j.review)
  BY <1>1, CallFields DEF Next, ApprovalStep, Scoped
<1>2. CASE j.op = "decide" /\ Decide(j.h, j.a, v, j.outcome)
  <2>1. j.h \in Human /\ j.a \in Approval /\ j.outcome \in {"approve", "reject"}
    BY <1>2, CallFields DEF Scoped, OnApproval
  <2>2. v \in 1..LongestHistory
    BY <1>2, <1>live, <2>1 DEF Decide, CanDecide, Live
  <2> QED BY <1>2, <2>1, <2>2 DEF Next, ApprovalStep
<1>3. CASE j.op = "issuePermit" /\ IssuePermit(j.h, j.a, v, j.d)
  <2>1. j.h \in Human /\ j.a \in Approval /\ j.d \in Digest
    BY <1>3, CallFields DEF Scoped, OnApproval
  <2>2. v \in 1..LongestHistory
    BY <1>3, <1>live, <2>1 DEF IssuePermit, CanIssue, Live
  <2> QED BY <1>3, <2>1, <2>2 DEF Next, ApprovalStep
<1>4. CASE j.op = "execute" /\ Execute(j.h, j.a, v, j.x, j.n, j.d)
  <2>1. j.h \in Human /\ j.a \in Approval /\ j.d \in Digest /\ j.x \in Resource /\ j.n \in Name
    BY <1>4, CallFields DEF Scoped, OnApproval
  <2>2. v \in 1..LongestHistory
    BY <1>4, <1>live, <2>1 DEF Execute, CanExecute, Live
  <2> QED BY <1>4, <2>1, <2>2 DEF Next, ApprovalStep
<1>5. CASE j.op = "revoke" /\ Revoke(j.h, j.a, v)
  <2>1. j.h \in Human /\ j.a \in Approval
    BY <1>5, CallFields DEF Scoped, OnApproval
  <2>2. v \in 1..LongestHistory
    BY <1>5, <1>live, <2>1 DEF Revoke, CanRevoke
  <2> QED BY <1>5, <2>1, <2>2 DEF Next, ApprovalStep
<1>6. CASE j.op = "rename" /\ Rename(j.h, j.x, j.n)
  BY <1>6, CallFields DEF Next, Scoped
<1>7. CASE j.op = "setHumanStatus" /\ SetHumanStatus(j.h, j.active)
  BY <1>7, CallFields DEF Next, AuthorityStep
<1>8. CASE j.op = "setMembership" /\ SetMembership(j.h, j.role, j.active)
  BY <1>8, CallFields DEF Next, AuthorityStep
<1>9. CASE j.op = "setOrganizationStatus" /\ SetOrganizationStatus(j.active)
  BY <1>9, CallFields DEF Next, AuthorityStep
<1>10. CASE j.op = "changePolicy" /\ ChangePolicy(j.mode, j.h, j.effect)
  BY <1>10, CallFields DEF Next, AuthorityStep
<1>11. CASE j.op = "revokeSession" /\ SignOut(j.h)
  BY <1>11, CallFields DEF Next
<1> QED
  BY <1>1, <1>2, <1>3, <1>4, <1>5, <1>6, <1>7, <1>8, <1>9, <1>10, <1>11 DEF Effect

-----------------------------------------------------------------------------
(* What a call may read between its checks and its commit, and that a step *)
(* which leaves it alone leaves the outcome of the checks alone.           *)

Keeps(j, S) ==
  /\ UNCHANGED <<org, policy, clock>> /\ session'[j.h] = session[j.h]
  /\ \A s \in S : human'[s] = human[s] /\ member'[s] = member[s] /\ denied'[s] = denied[s]
  /\ j.op # "rename" => UNCHANGED approvalVars
  /\ j.op = "rename" => resource'[j.x] = resource[j.x]
  /\ j.op \in OnApproval => resource'[terms[j.a].resource] = resource[terms[j.a].resource]

(* What the checks say of one of the people involved.                      *)
LEMMA PersonKept ==
  ASSUME NEW s, UNCHANGED <<org, policy>>, human'[s] = human[s], member'[s] = member[s],
         denied'[s] = denied[s]
  PROVE  /\ Authority(s)' <=> Authority(s)
         /\ Stamp(s)' = Stamp(s)
         /\ Reads(s)' <=> Reads(s)
         /\ \A x : Writes(s, x)' = Writes(s, x)
BY DEF Authority, Stamp, Reads, Writes

LEMMA CurrentKept ==
  ASSUME NEW j \in Call, NEW S, Keeps(j, S), j.op \in OnApproval, Requester(j.a) \in S,
         decision[j.a] # Null => decision[j.a].actor \in S
  PROVE  Current(j.a)' <=> Current(j.a)
<1> DEFINE a == j.a
           g == Requester(a)
<1>1. UNCHANGED <<state, terms, decision, clock>> /\ j.op # "rename"
  BY DEF Keeps, approvalVars, OnApproval
<1>2. /\ Authority(g)' <=> Authority(g)
      /\ Stamp(g)' = Stamp(g)
      /\ Reads(g)' <=> Reads(g)
      /\ \A x : Writes(g, x)' = Writes(g, x)
  BY PersonKept DEF Keeps
<1>3. resource'[terms[a].resource] = resource[terms[a].resource]
  BY DEF Keeps
<1>4. ASSUME decision[a] # Null PROVE Endorsed(a)' <=> Endorsed(a)
  <2>1. PICK d \in S : d = decision[a].actor
    BY <1>4
  <2>2. human'[d] = human[d] /\ member'[d] = member[d] /\ denied'[d] = denied[d]
    BY DEF Keeps
  <2>3. UNCHANGED <<org, policy>>
    BY DEF Keeps
  <2>4. /\ Authority(d)' <=> Authority(d)
        /\ Stamp(d)' = Stamp(d)
        /\ Reads(d)' <=> Reads(d)
        /\ \A x : Writes(d, x)' = Writes(d, x)
    BY <2>2, <2>3, PersonKept
  <2>5. decision'[a].actor = d /\ decision[a].actor = d
    BY <1>1, <2>1
  <2>6. IndependentReviewer(d, a)' <=> IndependentReviewer(d, a)
    BY <1>1, <2>2, <2>4 DEF IndependentReviewer
  <2> QED
    BY <1>1, <1>2, <2>4, <2>5, <2>6 DEF Endorsed
<1> QED
  BY <1>1, <1>2, <1>3, <1>4 DEF Current

(* A call whose reads are left alone may do what it could do before.       *)
LEMMA CanKept ==
  ASSUME NEW j \in Call, NEW v, NEW S, Keeps(j, S), j.op \in Scoped, j.h \in S,
         j.op \in OnApproval =>
           /\ Requester(j.a) \in S
           /\ decision[j.a] # Null => decision[j.a].actor \in S,
         Can(j, v)
  PROVE  Can(j, v)'
<1> DEFINE h == j.h
           a == j.a
<1>1. /\ Authority(h)' <=> Authority(h)
      /\ Stamp(h)' = Stamp(h)
      /\ Reads(h)' <=> Reads(h)
      /\ \A x : Writes(h, x)' = Writes(h, x)
  BY PersonKept DEF Keeps
<1>2. Actor(h)' <=> Actor(h)
  BY <1>1 DEF Actor, Keeps
<1>3. member'[h] = member[h] /\ UNCHANGED clock
  BY DEF Keeps
<1>4. CASE j.op = "request"
  <2>1. UNCHANGED state
    BY <1>4 DEF Keeps, approvalVars
  <2> QED BY <1>1, <1>2, <1>4, <2>1 DEF Can, CanRequest
<1>5. CASE j.op = "rename"
  <2>1. resource'[j.x] = resource[j.x]
    BY <1>5 DEF Keeps
  <2> QED BY <1>1, <1>2, <1>5, <2>1 DEF Can, CanRename
<1>6. CASE j.op \in OnApproval
  <2>1. UNCHANGED <<state, version, terms, decision, permit>>
    BY <1>6 DEF Keeps, approvalVars, OnApproval
  <2>2. Visible(h, a)' <=> Visible(h, a)
    BY <1>1, <1>3, <2>1 DEF Visible
  <2>3. IndependentReviewer(h, a)' <=> IndependentReviewer(h, a)
    BY <1>1, <1>3, <2>1 DEF IndependentReviewer
  <2>4. Current(a)' <=> Current(a)
    BY <1>6, CurrentKept
  <2> HIDE DEF h, a
  <2>5. CASE j.op = "decide"
    BY <1>2, <2>1, <2>2, <2>3, <2>4, <2>5 DEF Can, CanDecide, h, a
  <2>6. CASE j.op = "issuePermit"
    BY <1>2, <2>1, <2>2, <2>4, <2>6 DEF Can, CanIssue, h, a
  <2>7. CASE j.op = "execute"
    <3>1. MatchesApproved(a, j.x, j.n)' <=> MatchesApproved(a, j.x, j.n)
      BY <2>1 DEF MatchesApproved
    <3> QED BY <1>2, <1>3, <2>1, <2>2, <2>4, <2>7, <3>1 DEF Can, CanExecute, h, a
  <2>8. CASE j.op = "revoke"
    BY <1>2, <2>1, <2>2, <2>8 DEF Can, CanRevoke, h, a
  <2> QED BY <1>6, <2>5, <2>6, <2>7, <2>8 DEF OnApproval
<1> QED BY <1>4, <1>5, <1>6 DEF Scoped

-----------------------------------------------------------------------------
(* The invariant behind the theorems: what a connection holds or is yet to *)
(* take, and what it knows, at each stage of its transaction.              *)

Events == Exclusive(<<"events">>)
Taken(p) == held[p] \cup todo[p]
Looked(p) == stage[p] \in {"locking", "ready"}

LockTypes ==
  /\ job \in [Proc -> Call \cup {Null}]
  /\ expects \in [Proc -> Nat]
  /\ stage \in [Proc -> Stage]
  /\ todo \in [Proc -> SUBSET Lock]
  /\ held \in [Proc -> SUBSET Lock]
  /\ people \in [Proc -> SUBSET Human]
  /\ hits \in [Proc -> SUBSET Approval]
  /\ allocated \in Seq(Proc)

(* Locks of two connections do not conflict.                               *)
Exclusion == \A p, q \in Proc : p # q => \A l \in held[p] : ~Blocks(q, l)

(* A transaction runs a call; one about a request is about one that exists.*)
Called(p) ==
  stage[p] # "idle" =>
    /\ job[p] \in Call
    /\ job[p].op \in OnApproval => terms[job[p].a] # Null

Begun(p) ==
  /\ stage[p] # "idle" => FirstLock(job[p]) \in Taken(p)
  /\ Looked(p) => FirstLock(job[p]) \in held[p]

(* An approval call takes the locks of all it looked up, and has looked up *)
(* at least the caller and the requester.                                  *)
Covered(p) ==
  Looked(p) /\ job[p].op \in Scoped =>
    /\ ScopeLocks(job[p], people[p]) \cup RowLocks(job[p]) \subseteq Taken(p)
    /\ job[p].h \in people[p]
    /\ job[p].op \in OnApproval => Requester(job[p].a) \in people[p]

(* A mutator that does not take the event lock has nothing to revoke.      *)
Alone(p) ==
  Looked(p) /\ job[p].op \in Mutator => Events \in Taken(p) \/ Affected(job[p]) = {}

Settles(p) ==
  stage[p] = "ready" =>
    /\ todo[p] = {} /\ Passes(p)
    /\ job[p].op \in Mutator => hits[p] = Affected(job[p])

Sound(p) == Called(p) /\ Begun(p) /\ Covered(p) /\ Alone(p) /\ Settles(p)

(* One transaction at most has uncommitted events: it has the event lock.  *)
OneWriter ==
  \/ allocated = <<>>
  \/ \E p \in Proc : allocated = <<p>> /\ stage[p] = "ready" /\ Events \in held[p]

LockInv ==
  /\ IInv /\ Counted /\ LockTypes /\ Exclusion /\ OneWriter
  /\ \A p \in Proc : Sound(p)

(* The checks of a connection pass again while what they read is left alone.*)
LEMMA PassesKept ==
  ASSUME NEW q \in Proc, NEW j \in Call, job[q] = j,
         UNCHANGED <<job[q], expects[q], people[q]>>, Passes(q),
         j.op \in Scoped =>
           /\ Keeps(j, people[q]) /\ j.h \in people[q]
           /\ j.op \in OnApproval => Requester(j.a) \in people[q],
         j.op = "revokeSession" => session'[j.h] = session[j.h]
  PROVE  Passes(q)'
<1> DEFINE S == people[q]
<1>1. PICK v : v = expects[q]
  OBVIOUS
<1>2. Can(j, v) /\ (j.op \in OnApproval /\ decision[j.a] # Null => decision[j.a].actor \in S)
  BY <1>1 DEF Passes, LocksCoverDecision
<1>3. CASE j.op \in Mutator
  BY <1>3 DEF Passes, LocksCoverDecision, Can, Mutator, OnApproval
<1>4. CASE j.op = "revokeSession"
  <2>1. Can(j, v)'
    BY <1>2, <1>4 DEF Can
  <2> QED BY <1>1, <1>4, <2>1 DEF Passes, LocksCoverDecision, OnApproval
<1>5. CASE j.op \in Scoped
  <2>1. Can(j, v)'
    BY <1>2, <1>5, CanKept
  <2>2. j.op \in OnApproval => UNCHANGED decision
    BY <1>5 DEF Keeps, approvalVars, OnApproval
  <2>3. LocksCoverDecision(q)'
    BY <1>2, <2>2 DEF LocksCoverDecision
  <2> QED BY <1>1, <2>1, <2>3 DEF Passes
<1> QED BY <1>3, <1>4, <1>5, CallFields

(* A connection that does nothing stays sound if what its call has checked *)
(* is left alone and its request stays.                                    *)
LEMMA SoundKept ==
  ASSUME LockTypes, NEW q \in Proc, Sound(q), NEW j,
         job[q] = j, UNCHANGED <<job[q], expects[q], stage[q], todo[q], held[q], people[q], hits[q]>>,
         \A a \in Approval : terms[a] # Null => terms'[a] = terms[a],
         stage[q] = "ready" /\ j.op \in Scoped => Keeps(j, people[q]),
         stage[q] = "ready" /\ j.op = "revokeSession" => session'[j.h] = session[j.h],
         Looked(q) /\ j.op \in Mutator =>
           \/ Affected(j)' = Affected(j)
           \/ stage[q] = "locking" /\ Events \in Taken(q)
  PROVE  Sound(q)'
<1>1. CASE stage[q] = "idle"
  BY <1>1 DEF Sound, Called, Begun, Covered, Alone, Settles, Looked
<1>2. CASE stage[q] # "idle"
  <2>1. j \in Call /\ job'[q] = j /\ stage'[q] = stage[q]
    BY <1>2 DEF Sound, Called
  <2>2. j.op \in OnApproval => terms[j.a] # Null /\ terms'[j.a] = terms[j.a]
    BY <1>2, <2>1, CallFields DEF Sound, Called
  <2>3. Called(q)'
    BY <2>1, <2>2 DEF Called
  <2>4. UNCHANGED <<Taken(q), Looked(q)>>
    BY DEF Taken, Looked
  <2>5. Begun(q)'
    BY <2>1, <2>4 DEF Sound, Begun
  <2>6. RowLocks(j)' = RowLocks(j) \/ j.op \notin Scoped
    BY <2>2 DEF RowLocks, Scoped, OnApproval
  <2>7. Covered(q)'
    BY <2>1, <2>4, <2>6 DEF Sound, Covered, ScopeLocks
  <2>8. Alone(q)'
    BY <2>1, <2>4 DEF Sound, Alone
  <2>9. Settles(q)'
    <3> SUFFICES ASSUME stage[q] = "ready"
                 PROVE  /\ todo'[q] = {} /\ Passes(q)'
                        /\ j.op \in Mutator => hits'[q] = Affected(j)'
      BY <2>1 DEF Settles
    <3>1. /\ todo[q] = {} /\ Passes(q) /\ Looked(q)
          /\ j.op \in Mutator => hits[q] = Affected(j)
      BY DEF Sound, Settles, Looked
    <3>2. Passes(q)'
      BY <2>1, <3>1, PassesKept DEF Sound, Covered
    <3>3. j.op \in Mutator => hits'[q] = Affected(j)'
      BY <3>1
    <3> QED BY <3>1, <3>2, <3>3
  <2> QED BY <2>3, <2>5, <2>7, <2>8, <2>9 DEF Sound
<1> QED BY <1>1, <1>2

(* So it does while others only take, wait for or drop locks.              *)
LEMMA Bystander ==
  ASSUME LockTypes, NEW q \in Proc, Sound(q), UNCHANGED vars,
         UNCHANGED <<job[q], expects[q], stage[q], todo[q], held[q], people[q], hits[q]>>
  PROVE  Sound(q)'
<1>1. PICK j : j = job[q]
  OBVIOUS
<1>2. Keeps(j, people[q]) /\ UNCHANGED <<terms, session>>
  BY DEF vars, Keeps, approvalVars
<1>3. Affected(j)' = Affected(j)
  BY DEF vars, Affected, Involving
<1> QED BY <1>1, <1>2, <1>3, SoundKept

-----------------------------------------------------------------------------
(* The steps that only move locks. *)

LEMMA LockKinds ==
  /\ \A on \in On : Shared(on) \in Lock /\ Exclusive(on) \in Lock
  /\ \A h \in Human : <<"session", h>> \in On /\ <<"human", h>> \in On /\ <<"membership", h>> \in On
  /\ <<"organization">> \in On /\ <<"policy">> \in On /\ <<"events">> \in On
  /\ \A a \in Approval : <<"request", a>> \in On /\ <<"permit", a>> \in On
  /\ \A x \in Resource : <<"resource", x>> \in On
BY DEF On, Lock, Shared, Exclusive

LEMMA FirstLockType ==
  ASSUME NEW j \in Call
  PROVE  FirstLock(j) \in Lock
<1>1. CASE j.op \in Mutator
  BY <1>1, CallFields, LockKinds DEF FirstLock, Mutator
<1>2. CASE j.op \in Scoped \cup {"revokeSession"}
  <2>1. j.h \in Human
    BY <1>2, CallFields
  <2> QED BY <1>2, <2>1, LockKinds DEF FirstLock, Scoped, OnApproval
<1> QED BY <1>1, <1>2, CallFields

LEMMA ScopeLocksType ==
  ASSUME NEW j \in Call, NEW S \in SUBSET Human
  PROVE  ScopeLocks(j, S) \in SUBSET Lock
<1>1. {Shared(<<"human", h>>) : h \in S} \cup {Shared(<<"membership", h>>) : h \in S} \in SUBSET Lock
  BY LockKinds
<1>2. {Shared(<<"organization">>), Shared(<<"policy">>)} \in SUBSET Lock
  BY LockKinds
<1>3. (IF j.op = "rename" THEN {} ELSE {Exclusive(<<"events">>)}) \in SUBSET Lock
  BY LockKinds
<1> QED BY <1>1, <1>2, <1>3 DEF ScopeLocks

LEMMA RowLocksType ==
  ASSUME IInv, NEW j \in Call, j.op \in Scoped, j.op \in OnApproval => terms[j.a] # Null
  PROVE  RowLocks(j) \in SUBSET Lock
<1>1. CASE j.op \in {"request", "rename"}
  <2>1. j.x \in Resource
    BY <1>1, CallFields
  <2>2. RowLocks(j) = {Exclusive(<<"resource", j.x>>)}
    BY <1>1 DEF RowLocks
  <2> QED BY <2>1, <2>2, LockKinds
<1>2. CASE j.op \in OnApproval
  <2>1. j.a \in Approval /\ terms[j.a] \in Terms
    BY <1>2, CallFields DEF IInv, TypeOK
  <2>2. terms[j.a].resource \in Resource
    BY <2>1 DEF Terms
  <2>3. RowLocks(j) \subseteq {Exclusive(<<"request", j.a>>), Exclusive(<<"permit", j.a>>),
                               Exclusive(<<"resource", terms[j.a].resource>>)}
    BY <1>2 DEF RowLocks, OnApproval
  <2> QED BY <2>1, <2>2, <2>3, LockKinds
<1> QED BY <1>1, <1>2 DEF Scoped

LEMMA PreliminaryType ==
  ASSUME IInv, NEW j \in Call, j.op \in Scoped
  PROVE  Preliminary(j) \in SUBSET Human
<1>1. j.h \in Human
  BY CallFields
<1>2. CASE j.op \notin OnApproval
  BY <1>1, <1>2 DEF Preliminary
<1>3. CASE j.op \in OnApproval
  <2>1. j.a \in Approval /\ Requester(j.a) \in Human
    BY <1>3, CallFields DEF Approval, Requester
  <2>2. decision[j.a] # Null => decision[j.a].actor \in Human
    BY <2>1 DEF IInv, TypeOK, Decision
  <2> QED BY <1>1, <2>1, <2>2 DEF Preliminary
<1> QED BY <1>2, <1>3

LEMMA StutterIsStep ==
  ASSUME IInv, Counted, UNCHANGED vars
  PROVE  IInv' /\ Counted'
BY IInvStep, CountedStep

(* Nobody else notices when a transaction begins, ...                      *)
LEMMA StartStep ==
  ASSUME LockInv, NEW p \in Proc, NEW j \in Job[p], Start(p, j)
  PROVE  LockInv'
<1>1. j \in Call /\ j # Null
  BY LocksAssumption
<1>2. UNCHANGED vars /\ UNCHANGED <<held, people, hits, allocated>> /\ stage[p] = "idle"
  BY DEF Start
<1>3. LockTypes'
  <2>1. FirstLock(j) \in Lock
    BY <1>1, FirstLockType
  <2>2. (IF j.op \in OnApproval THEN version[j.a] ELSE 0) \in Nat
    BY <1>1, CallFields DEF LockInv, IInv, TypeOK
  <2> QED BY <1>1, <2>1, <2>2 DEF LockInv, LockTypes, Start, Stage
<1>4. \A q \in Proc : q # p => UNCHANGED <<job[q], expects[q], stage[q], todo[q], held[q], people[q], hits[q]>>
  BY DEF LockInv, LockTypes, Start
<1>5. Exclusion'
  BY <1>2 DEF LockInv, Exclusion, Blocks
<1>6. OneWriter'
  BY <1>2, <1>4 DEF LockInv, OneWriter
<1>7. ASSUME NEW q \in Proc PROVE Sound(q)'
  <2>1. CASE q # p
    BY <1>2, <1>4, <2>1, Bystander DEF LockInv
  <2>2. CASE q = p
    <3>1. job'[p] = j /\ stage'[p] = "opening" /\ todo'[p] = {FirstLock(j)}
      BY DEF LockInv, LockTypes, Start
    <3>2. Called(p)'
      BY <1>1, <1>2, <3>1 DEF Start, Called, vars
    <3>3. Begun(p)'
      BY <3>1 DEF Begun, Taken, Looked
    <3> QED BY <2>2, <3>1, <3>2, <3>3 DEF Sound, Covered, Alone, Settles, Looked
  <2> QED BY <2>1, <2>2
<1> QED BY <1>2, <1>3, <1>5, <1>6, <1>7, StutterIsStep DEF LockInv

(* ... takes a lock nobody blocks, ...                                     *)
LEMMA AcquireStep ==
  ASSUME LockInv, NEW p \in Proc, Acquire(p)
  PROVE  LockInv'
<1>1. PICK l \in todo[p] : /\ \A q \in Proc \ {p} : ~Blocks(q, l)
                           /\ held' = [held EXCEPT ![p] = @ \cup {l}]
                           /\ todo' = [todo EXCEPT ![p] = @ \ {l}]
                           /\ UNCHANGED <<vars, job, expects, stage, people, hits, allocated>>
  BY DEF Acquire
<1>2. LockTypes'
  BY <1>1 DEF LockInv, LockTypes
<1>3. /\ held'[p] = held[p] \cup {l} /\ todo'[p] = todo[p] \ {l}
      /\ \A q \in Proc : q # p => held'[q] = held[q] /\ todo'[q] = todo[q]
  BY <1>1 DEF LockInv, LockTypes
<1>4. Exclusion'
  <2> SUFFICES ASSUME NEW r \in Proc, NEW q \in Proc, r # q, NEW k \in held'[r], NEW m \in held'[q], m.on = k.on
               PROVE  m.mode # "exclusive" /\ k.mode # "exclusive"
    BY DEF Exclusion, Blocks
  <2>1. CASE k \in held[r] /\ m \in held[q]
    BY <2>1 DEF LockInv, Exclusion, Blocks
  <2>2. CASE r = p /\ k = l
    <3>1. m \in held[q] /\ ~Blocks(q, l)
      BY <1>1, <1>3, <2>2
    <3> QED BY <2>2, <3>1 DEF Blocks
  <2>3. CASE q = p /\ m = l
    <3>1. k \in held[r] /\ ~Blocks(r, l)
      BY <1>1, <1>3, <2>3
    <3> QED BY <2>3, <3>1 DEF Blocks
  <2> QED BY <1>3, <2>1, <2>2, <2>3
<1>5. OneWriter'
  BY <1>1, <1>3 DEF LockInv, OneWriter
<1>6. ASSUME NEW q \in Proc PROVE Sound(q)'
  <2>1. CASE q # p
    BY <1>1, <1>3, <2>1, Bystander DEF LockInv
  <2>2. CASE q = p
    <3>1. Taken(p)' = Taken(p) /\ held[p] \subseteq held'[p]
      BY <1>1, <1>3 DEF Taken
    <3>2. Looked(p)' = Looked(p) /\ UNCHANGED <<job[p], stage[p], people[p], terms, state, decision>>
      BY <1>1 DEF Looked, vars
    <3>3. Called(p)' /\ Begun(p)'
      BY <3>1, <3>2 DEF LockInv, Sound, Called, Begun
    <3>4. Covered(p)'
      <4>1. RowLocks(job[p])' = RowLocks(job[p])
        BY <3>2 DEF RowLocks
      <4> QED BY <3>1, <3>2, <4>1 DEF LockInv, Sound, Covered
    <3>5. Alone(p)'
      <4>1. Affected(job[p])' = Affected(job[p])
        BY <3>2 DEF Affected, Involving
      <4> QED BY <3>1, <3>2, <4>1 DEF LockInv, Sound, Alone
    <3>6. Settles(p)'
      BY <1>1, <3>2 DEF LockInv, Sound, Settles
    <3> QED BY <2>2, <3>3, <3>4, <3>5, <3>6 DEF Sound
  <2> QED BY <2>1, <2>2
<1> QED BY <1>1, <1>2, <1>4, <1>5, <1>6, StutterIsStep DEF LockInv

(* ... looks up which locks to take next, ...                              *)
LEMMA LookStep ==
  ASSUME LockInv, NEW p \in Proc, Look(p)
  PROVE  LockInv'
<1>0. PICK j : j = job[p]
  OBVIOUS
<1>1. stage[p] = "opening" /\ todo[p] = {} /\ UNCHANGED <<vars, job, expects, held, hits, allocated>>
  BY DEF Look
<1>2. /\ j \in Call /\ (j.op \in OnApproval => terms[j.a] # Null)
      /\ FirstLock(j) \in held[p]
  BY <1>0, <1>1 DEF LockInv, Sound, Called, Begun, Taken
<1>3. j.op \in Scoped => /\ people' = [people EXCEPT ![p] = Preliminary(j)]
                         /\ todo' = [todo EXCEPT ![p] = ScopeLocks(j, Preliminary(j)) \cup RowLocks(j)]
  BY <1>0 DEF Look, Scoped, OnApproval, Mutator
<1>4. j.op \in Mutator => /\ todo' = [todo EXCEPT ![p] = IF Affected(j) = {} THEN {} ELSE {Events}]
                          /\ UNCHANGED people
  BY <1>0 DEF Look, Events
<1>5. j.op = "revokeSession" => UNCHANGED <<todo, people>>
  BY <1>0 DEF Look, Mutator
<1>6. stage' = [stage EXCEPT ![p] = "locking"]
  BY DEF Look
<1>7. j.op \in Scoped \cup Mutator \cup {"revokeSession"}
  BY <1>2, CallFields
<1>8. j.op \in Scoped => Preliminary(j) \in SUBSET Human /\ ScopeLocks(j, Preliminary(j)) \cup RowLocks(j) \in SUBSET Lock
  BY <1>2, PreliminaryType, ScopeLocksType, RowLocksType DEF LockInv
<1>9. Events \in Lock
  BY LockKinds DEF Events
<1>10. LockTypes'
  <2>1. todo' \in [Proc -> SUBSET Lock] /\ people' \in [Proc -> SUBSET Human]
    <3>0. todo \in [Proc -> SUBSET Lock] /\ people \in [Proc -> SUBSET Human]
      BY DEF LockInv, LockTypes
    <3>1. CASE j.op \in Scoped
      <4>1. PICK new \in SUBSET Lock : todo' = [todo EXCEPT ![p] = new]
        BY <1>3, <1>8, <3>1
      <4>2. PICK S \in SUBSET Human : people' = [people EXCEPT ![p] = S]
        BY <1>3, <1>8, <3>1
      <4> QED BY <3>0, <4>1, <4>2
    <3>2. CASE j.op \in Mutator
      <4>1. PICK new \in SUBSET Lock : todo' = [todo EXCEPT ![p] = new]
        BY <1>4, <1>9, <3>2
      <4> QED BY <1>4, <3>0, <3>2, <4>1
    <3> QED BY <1>5, <1>7, <3>0, <3>1, <3>2
  <2> QED BY <1>1, <1>6, <2>1 DEF LockInv, LockTypes, Stage
<1>11. \A q \in Proc : q # p => UNCHANGED <<job[q], expects[q], stage[q], todo[q], held[q], people[q], hits[q]>>
  BY <1>1, <1>3, <1>4, <1>5, <1>6, <1>7 DEF LockInv, LockTypes
<1>12. Exclusion'
  BY <1>1 DEF LockInv, Exclusion, Blocks
<1>13. OneWriter'
  BY <1>1, <1>11 DEF LockInv, OneWriter
<1>14. ASSUME NEW q \in Proc PROVE Sound(q)'
  <2>1. CASE q # p
    BY <1>1, <1>11, <2>1, Bystander DEF LockInv
  <2>2. CASE q = p
    <3>1. job'[p] = j /\ stage'[p] = "locking" /\ held'[p] = held[p] /\ UNCHANGED <<terms, state, decision>>
      BY <1>0, <1>1, <1>6 DEF LockInv, LockTypes, vars
    <3>2. Called(p)' /\ Begun(p)'
      BY <1>2, <3>1 DEF Called, Begun, Taken
    <3>3. Covered(p)'
      <4> SUFFICES ASSUME j.op \in Scoped
                   PROVE  /\ ScopeLocks(j, people'[p]) \cup RowLocks(j)' \subseteq Taken(p)'
                          /\ j.h \in people'[p]
                          /\ j.op \in OnApproval => Requester(j.a) \in people'[p]
        BY <3>1 DEF Covered
      <4>1. people'[p] = Preliminary(j) /\ todo'[p] = ScopeLocks(j, Preliminary(j)) \cup RowLocks(j)
        BY <1>3 DEF LockInv, LockTypes
      <4>2. RowLocks(j)' = RowLocks(j)
        BY <3>1 DEF RowLocks
      <4> QED BY <4>1, <4>2 DEF Taken, Preliminary
    <3>4. Alone(p)'
      <4>1. Affected(j)' = Affected(j)
        BY <3>1 DEF Affected, Involving
      <4>2. j.op \in Mutator => todo'[p] = IF Affected(j) = {} THEN {} ELSE {Events}
        BY <1>4 DEF LockInv, LockTypes
      <4> QED BY <3>1, <4>1, <4>2 DEF Alone, Taken
    <3> QED BY <2>2, <3>1, <3>2, <3>3, <3>4 DEF Sound, Settles
  <2> QED BY <2>1, <2>2
<1> QED BY <1>1, <1>10, <1>12, <1>13, <1>14, StutterIsStep DEF LockInv

(* ... passes its checks, ...                                              *)
LEMMA CheckStep ==
  ASSUME LockInv, NEW p \in Proc, Check(p)
  PROVE  LockInv'
<1>1. PICK j : j = job[p]
  OBVIOUS
<1>2. /\ stage[p] = "locking" /\ todo[p] = {} /\ Passes(p)
      /\ stage' = [stage EXCEPT ![p] = "ready"]
      /\ hits' = [hits EXCEPT ![p] = IF j.op \in Mutator /\ Events \in held[p] THEN Affected(j) ELSE {}]
      /\ allocated' = IF WritesEvents(j) THEN Append(allocated, p) ELSE allocated
      /\ UNCHANGED <<vars, job, expects, todo, held, people>>
  BY <1>1 DEF Check, Events
<1>3. j \in Call /\ Looked(p) /\ Taken(p) = held[p] /\ Sound(p)
  BY <1>1, <1>2 DEF LockInv, Sound, Called, Looked, Taken
<1>4. WritesEvents(j) => Events \in held[p]
  <2>1. CASE j.op \in OnApproval \cup {"request"}
    <3>1. Events \in ScopeLocks(j, people[p])
      BY <2>1 DEF ScopeLocks, Events, OnApproval
    <3> QED BY <1>1, <1>3, <2>1, <3>1 DEF Sound, Covered, Scoped
  <2>2. CASE j.op \in Mutator /\ Affected(j) # {}
    BY <1>1, <1>3, <2>2 DEF Sound, Alone
  <2> QED BY <2>1, <2>2 DEF WritesEvents
<1>5. WritesEvents(j) => allocated = <<>>
  <2> SUFFICES ASSUME WritesEvents(j), NEW q \in Proc, stage[q] = "ready", Events \in held[q]
               PROVE  FALSE
    BY DEF LockInv, OneWriter
  <2>1. q # p
    BY <1>2
  <2>2. ~Blocks(q, Events)
    BY <1>4, <2>1 DEF LockInv, Exclusion
  <2> QED BY <2>2 DEF Blocks, Events, Exclusive
<1>6. UNCHANGED <<state, decision>>
  BY <1>2 DEF vars
<1>7. Affected(j) \in SUBSET Approval
  BY DEF Affected
<1>8. allocated' = IF WritesEvents(j) THEN <<p>> ELSE allocated
  <2>1. Append(<<>>, p) = <<p>>
    OBVIOUS
  <2>2. allocated' = IF WritesEvents(j) THEN Append(allocated, p) ELSE allocated
    BY <1>2
  <2> QED BY <1>5, <2>1, <2>2
<1>9. LockTypes'
  BY <1>2, <1>7, <1>8 DEF LockInv, LockTypes, Stage
<1>10. \A q \in Proc : q # p => UNCHANGED <<job[q], expects[q], stage[q], todo[q], held[q], people[q], hits[q]>>
  BY <1>2 DEF LockInv, LockTypes
<1>11. Exclusion'
  BY <1>2 DEF LockInv, Exclusion, Blocks
<1>12. stage'[p] = "ready" /\ hits'[p] = IF j.op \in Mutator /\ Events \in held[p] THEN Affected(j) ELSE {}
  BY <1>2 DEF LockInv, LockTypes
<1>13. OneWriter'
  <2>1. CASE WritesEvents(j)
    BY <1>2, <1>4, <1>8, <1>12, <2>1 DEF OneWriter
  <2>2. CASE ~WritesEvents(j)
    BY <1>2, <1>8, <1>10, <1>12, <2>2 DEF LockInv, OneWriter
  <2> QED BY <2>1, <2>2
<1>14. ASSUME NEW q \in Proc PROVE Sound(q)'
  <2>1. CASE q # p
    BY <1>2, <1>10, <2>1, Bystander DEF LockInv
  <2>2. CASE q = p
    <3>1. UNCHANGED <<terms, session, job[p], Taken(p), held[p], people[p], Looked(p)>> /\ job'[p] = j
      BY <1>1, <1>2, <1>3, <1>12 DEF vars, Taken, Looked
    <3>2. Called(p)' /\ Begun(p)'
      BY <1>2, <1>3, <3>1 DEF Sound, Called, Begun
    <3>3. Affected(j)' = Affected(j) /\ RowLocks(j)' = RowLocks(j)
      BY <1>6, <3>1 DEF Affected, Involving, RowLocks
    <3>4. Covered(p)' /\ Alone(p)'
      BY <1>1, <1>3, <3>1, <3>3 DEF Sound, Covered, Alone, ScopeLocks
    <3>5. Passes(p)'
      <4>1. Keeps(j, people[p])
        BY <1>2 DEF vars, Keeps, approvalVars
      <4> QED BY <1>1, <1>2, <1>3, <3>1, <4>1, PassesKept DEF Sound, Covered
    <3>6. Settles(p)'
      BY <1>1, <1>2, <1>3, <1>12, <3>1, <3>3, <3>5 DEF Settles, Sound, Alone
    <3> QED BY <2>2, <3>2, <3>4, <3>6 DEF Sound
  <2> QED BY <2>1, <2>2
<1> QED BY <1>2, <1>9, <1>11, <1>13, <1>14, StutterIsStep DEF LockInv

(* ... or ends, by whatever way.                                           *)
LEMMA WithoutOne ==
  ASSUME NEW p, NEW q, allocated = <<q>>
  PROVE  Without(p) = IF p = q THEN <<>> ELSE <<q>>
<1>1. DOMAIN allocated = {1} /\ allocated[1] = q /\ Len(allocated) = 1
  OBVIOUS
<1>2. CASE p # q
  BY <1>1, <1>2 DEF Without
<1>3. CASE p = q
  <2>1. (CHOOSE k \in DOMAIN allocated : allocated[k] = p) = 1
    BY <1>1, <1>3
  <2>2. SubSeq(allocated, 1, 1 - 1) = <<>> /\ SubSeq(allocated, 1 + 1, Len(allocated)) = <<>>
    BY <1>1
  <2>3. Without(p) = SubSeq(allocated, 1, 1 - 1) \o SubSeq(allocated, 1 + 1, Len(allocated))
    BY <1>1, <1>3, <2>1 DEF Without
  <2> QED BY <1>3, <2>2, <2>3
<1> QED BY <1>2, <1>3

LEMMA ReleaseLocks ==
  ASSUME LockInv, NEW p \in Proc, Release(p)
  PROVE  /\ LockTypes' /\ Exclusion' /\ OneWriter' /\ Sound(p)'
         /\ \A q \in Proc : q # p =>
              UNCHANGED <<job[q], expects[q], stage[q], todo[q], held[q], people[q], hits[q]>>
<1>1. /\ stage'[p] = "idle" /\ held'[p] = {}
      /\ \A q \in Proc : q # p =>
           UNCHANGED <<job[q], expects[q], stage[q], todo[q], held[q], people[q], hits[q]>>
  BY DEF LockInv, LockTypes, Release
<1>2. allocated' = Without(p)
  BY DEF Release
<1>3. allocated' = <<>> \/ allocated' = allocated
  <2>1. CASE allocated = <<>>
    BY <1>2, <2>1 DEF Without
  <2>2. CASE \E q \in Proc : allocated = <<q>>
    BY <1>2, <2>2, WithoutOne
  <2> QED BY <2>1, <2>2 DEF LockInv, OneWriter
<1>4. LockTypes'
  <2>1. allocated' \in Seq(Proc)
    <3>1. <<>> \in Seq(Proc) /\ allocated \in Seq(Proc)
      BY DEF LockInv, LockTypes
    <3> QED BY <1>3, <3>1
  <2> QED BY <2>1 DEF LockInv, LockTypes, Release, Stage
<1>5. Exclusion'
  BY <1>1 DEF LockInv, Exclusion, Blocks
<1>6. OneWriter'
  <2>1. CASE allocated' = <<>>
    BY <2>1 DEF OneWriter
  <2>2. ASSUME NEW q \in Proc, allocated = <<q>>, stage[q] = "ready", Events \in held[q], allocated' = allocated
        PROVE  OneWriter'
    <3>1. q # p
      <4>1. Without(p) = IF p = q THEN <<>> ELSE <<q>>
        BY <2>2, WithoutOne
      <4>2. <<q>> # <<>>
        OBVIOUS
      <4> QED BY <1>2, <2>2, <4>1, <4>2
    <3>2. stage'[q] = "ready" /\ Events \in held'[q]
      BY <1>1, <2>2, <3>1
    <3> QED BY <2>2, <3>2 DEF OneWriter
  <2> QED BY <1>3, <2>1, <2>2 DEF LockInv, OneWriter
<1>7. Sound(p)'
  BY <1>1 DEF Sound, Called, Begun, Covered, Alone, Settles, Looked
<1> QED BY <1>1, <1>4, <1>5, <1>6, <1>7

LEMMA EndStep ==
  ASSUME LockInv, NEW p \in Proc, Release(p), UNCHANGED vars
  PROVE  LockInv'
<1>1. \A q \in Proc : Sound(q)'
  BY ReleaseLocks, Bystander DEF LockInv
<1> QED BY <1>1, ReleaseLocks, StutterIsStep DEF LockInv

-----------------------------------------------------------------------------
(* What locks keep apart: the commit of one connection and what another    *)
(* has read.                                                               *)

LEMMA Excluded ==
  ASSUME LockInv, NEW p \in Proc, NEW q \in Proc, p # q, NEW on, Exclusive(on) \in held[p]
  PROVE  Shared(on) \notin held[q] /\ Exclusive(on) \notin held[q]
BY DEF LockInv, Exclusion, Blocks, Shared, Exclusive

(* What an approval call or a rename holds when it commits.                *)
LEMMA ScopedHolds ==
  ASSUME LockInv, NEW p \in Proc, stage[p] = "ready", NEW j, job[p] = j, j.op \in Scoped
  PROVE  /\ j \in Call /\ j.h \in people[p]
         /\ j.op \in OnApproval => Requester(j.a) \in people[p]
         /\ \A s \in people[p] :
              Shared(<<"human", s>>) \in held[p] /\ Shared(<<"membership", s>>) \in held[p]
         /\ Shared(<<"organization">>) \in held[p] /\ Shared(<<"policy">>) \in held[p]
         /\ Shared(<<"session", j.h>>) \in held[p]
         /\ j.op # "rename" => Events \in held[p]
         /\ j.op \in {"request", "rename"} => Exclusive(<<"resource", j.x>>) \in held[p]
         /\ j.op \in OnApproval => Exclusive(<<"resource", terms[j.a].resource>>) \in held[p]
<1>1. /\ Sound(p) /\ Looked(p) /\ Taken(p) = held[p]
  BY DEF LockInv, Sound, Settles, Looked, Taken
<1>2. j \in Call
  BY <1>1 DEF Sound, Called
<1>3. /\ ScopeLocks(j, people[p]) \subseteq held[p] /\ RowLocks(j) \subseteq held[p]
      /\ j.h \in people[p] /\ (j.op \in OnApproval => Requester(j.a) \in people[p])
      /\ FirstLock(j) \in held[p]
  BY <1>1 DEF Sound, Covered, Begun
<1>4. \A s \in people[p] :
         Shared(<<"human", s>>) \in held[p] /\ Shared(<<"membership", s>>) \in held[p]
  BY <1>3 DEF ScopeLocks
<1>5. Shared(<<"organization">>) \in held[p] /\ Shared(<<"policy">>) \in held[p]
  BY <1>3 DEF ScopeLocks
<1>6. j.op # "rename" => Events \in held[p]
  BY <1>3 DEF ScopeLocks, Events
<1>7. Shared(<<"session", j.h>>) \in held[p]
  BY <1>3 DEF FirstLock, Scoped, OnApproval
<1>8. j.op \in {"request", "rename"} => Exclusive(<<"resource", j.x>>) \in held[p]
  BY <1>3 DEF RowLocks
<1>9. j.op \in OnApproval => Exclusive(<<"resource", terms[j.a].resource>>) \in held[p]
  BY <1>3 DEF RowLocks, OnApproval
<1> QED BY <1>2, <1>3, <1>4, <1>5, <1>6, <1>7, <1>8, <1>9

(* What a mutator and the end of a session hold once they have looked.     *)
LEMMA FirstHolds ==
  ASSUME LockInv, NEW p \in Proc, Looked(p), NEW j, job[p] = j
  PROVE  /\ j \in Call
         /\ j.op = "setHumanStatus" => Exclusive(<<"human", j.h>>) \in held[p]
         /\ j.op = "setMembership" => Exclusive(<<"membership", j.h>>) \in held[p]
         /\ j.op = "setOrganizationStatus" => Exclusive(<<"organization">>) \in held[p]
         /\ j.op = "changePolicy" => Exclusive(<<"policy">>) \in held[p]
         /\ j.op = "revokeSession" => Exclusive(<<"session", j.h>>) \in held[p]
<1>1. FirstLock(j) \in held[p] /\ j \in Call
  BY DEF LockInv, Sound, Begun, Called, Looked
<1> QED BY <1>1 DEF FirstLock

(* A mutator that is not under the event lock has nothing to revoke.       *)
LEMMA MutatorAlone ==
  ASSUME LockInv, NEW p \in Proc, stage[p] = "ready", NEW j, job[p] = j, j.op \in Mutator,
         Events \notin held[p]
  PROVE  Affected(j) = {}
BY DEF LockInv, Sound, Alone, Settles, Looked, Taken

LEMMA InvalidatesNothing ==
  ASSUME TypeOK, NEW S, InvalidateApprovals(S), \A a \in Approval : a \in S => state[a] \notin Live
  PROVE  UNCHANGED approvalVars
<1>1. state' = state /\ version' = version /\ log' = log
  BY DEF TypeOK, InvalidateApprovals
<1> QED BY <1>1 DEF InvalidateApprovals, approvalVars

(* What a mutator writes.                                                  *)
LEMMA MutatorWrites ==
  ASSUME LockInv, NEW p \in Proc, stage[p] = "ready", NEW j, job[p] = j, j.op \in Mutator,
         NEW v, Effect(j, v)
  PROVE  /\ UNCHANGED <<session, resource, clock, terms, decision>>
         /\ Events \notin held[p] => UNCHANGED approvalVars
         /\ \A a \in Approval : state'[a] \in Live => state[a] \in Live
         /\ j.op # "setHumanStatus" => UNCHANGED human
         /\ j.op # "setMembership" => UNCHANGED member
         /\ j.op # "setOrganizationStatus" => UNCHANGED org
         /\ j.op # "changePolicy" => UNCHANGED <<policy, denied>>
         /\ j.op = "setHumanStatus" => \A s \in Human : s # j.h => human'[s] = human[s]
         /\ j.op = "setMembership" => \A s \in Human : s # j.h => member'[s] = member[s]
<1>type. TypeOK
  BY DEF LockInv, IInv
<1>voids. ASSUME NEW S, InvalidateApprovals(S), Affected(j) = {a \in Approval : state[a] \in Live /\ a \in S}
          PROVE  /\ UNCHANGED <<terms, decision>>
                 /\ Events \notin held[p] => UNCHANGED approvalVars
                 /\ \A a \in Approval : state'[a] \in Live => state[a] \in Live
  <2>1. UNCHANGED <<terms, decision>> /\ \A a \in Approval : state'[a] \in Live => state[a] \in Live
    BY <1>voids DEF InvalidateApprovals, Live
  <2>2. ASSUME Events \notin held[p] PROVE UNCHANGED approvalVars
    <3>1. Affected(j) = {}
      BY <2>2, MutatorAlone
    <3>2. \A a \in Approval : a \in S => state[a] \notin Live
      BY <1>voids, <3>1
    <3> QED BY <1>voids, <1>type, <3>2, InvalidatesNothing
  <2> QED BY <2>1, <2>2
<1>1. CASE j.op = "setHumanStatus"
  <2>1. HumanRow(j.h, j.active) /\ InvalidateApprovals(Involving(j.h))
    BY <1>1 DEF Effect, SetHumanStatus
  <2>2. Affected(j) = {a \in Approval : state[a] \in Live /\ a \in Involving(j.h)}
    BY <1>1 DEF Affected
  <2>3. /\ UNCHANGED <<member, org, policy, denied, session, resource, clock>>
        /\ \A s \in Human : s # j.h => human'[s] = human[s]
    BY <2>1, <1>type DEF HumanRow, TypeOK, AuthorizationTypeOK
  <2> QED BY <1>1, <1>voids, <2>1, <2>2, <2>3
<1>2. CASE j.op = "setMembership"
  <2>1. MembershipRow(j.h, j.role, j.active) /\ InvalidateApprovals(Involving(j.h))
    BY <1>2 DEF Effect, SetMembership
  <2>2. Affected(j) = {a \in Approval : state[a] \in Live /\ a \in Involving(j.h)}
    BY <1>2 DEF Affected
  <2>3. /\ UNCHANGED <<human, org, policy, denied, session, resource, clock>>
        /\ \A s \in Human : s # j.h => member'[s] = member[s]
    BY <2>1, <1>type DEF MembershipRow, TypeOK, AuthorizationTypeOK
  <2> QED BY <1>2, <1>voids, <2>1, <2>2, <2>3
<1>3. CASE j.op = "setOrganizationStatus"
  <2>1. OrganizationRow(j.active) /\ InvalidateApprovals(Approval)
    BY <1>3 DEF Effect, SetOrganizationStatus
  <2>2. Affected(j) = {a \in Approval : state[a] \in Live /\ a \in Approval}
    BY <1>3 DEF Affected
  <2>3. UNCHANGED <<human, member, policy, denied, session, resource, clock>>
    BY <2>1 DEF OrganizationRow
  <2> QED BY <1>3, <1>voids, <2>1, <2>2, <2>3
<1>4. CASE j.op = "changePolicy"
  <2>1. PolicyRow(j.mode, j.h, j.effect) /\ InvalidateApprovals(Approval)
    BY <1>4 DEF Effect, ChangePolicy
  <2>2. Affected(j) = {a \in Approval : state[a] \in Live /\ a \in Approval}
    BY <1>4 DEF Affected
  <2>3. UNCHANGED <<human, member, org, session, resource, clock>>
    BY <2>1 DEF PolicyRow
  <2> QED BY <1>4, <1>voids, <2>1, <2>2, <2>3
<1> QED BY <1>1, <1>2, <1>3, <1>4 DEF Mutator

(* What an approval call writes.                                           *)
LEMMA ApprovalWrites ==
  ASSUME LockInv, NEW j \in Call, j.op \in OnApproval \cup {"request"}, NEW v, Effect(j, v)
  PROVE  /\ UNCHANGED <<human, member, org, policy, denied, session, clock>>
         /\ j.op # "execute" => UNCHANGED resource
         /\ j.op = "execute" =>
              \A y \in Resource : y # terms[j.a].resource => resource'[y] = resource[y]
         /\ \A b \in Approval :
              \/ UNCHANGED <<state[b], decision[b]>>
              \/ state'[b] \notin Live
              \/ j.op \in OnApproval /\ b = j.a /\ state[b] \in Live /\ UNCHANGED decision[b]
              \/ /\ Requester(b) = j.h \/ (j.op \in OnApproval /\ Requester(b) = Requester(j.a))
                 /\ decision'[b] # Null => decision'[b].actor = j.h
<1>type. TypeOK /\ TablesAgree
  BY DEF LockInv, IInv
<1>1. CASE j.op = "request"
  <2>1. Request(j.h, j.q, j.x, j.n, j.review)
    BY <1>1 DEF Effect
  <2>2. j.h \in Human /\ j.q \in RequestId
    BY <1>1, CallFields DEF Scoped
  <2>3. UNCHANGED <<human, member, org, policy, denied, session, clock, resource>>
    BY <2>1 DEF Request, authorityVars
  <2> DEFINE a == <<j.h, j.q>>
  <2>4. a \in Approval /\ Requester(a) = j.h
    BY <2>2 DEF Approval, Requester
  <2>5. state[a] = "none" /\ decision[a] = Null
    BY <1>type, <2>1, <2>4 DEF Request, CanRequest, TablesAgree, RowAgrees
  <2>6. \A b \in Approval : b # a => UNCHANGED <<state[b], decision[b]>>
    BY <1>type, <2>1, <2>4 DEF Request, TypeOK
  <2>7. decision'[a] # Null => decision'[a].actor = j.h
    BY <1>type, <2>1, <2>4, <2>5 DEF Request, TypeOK
  <2> HIDE DEF a
  <2> QED BY <1>1, <2>3, <2>4, <2>6, <2>7
<1>2. CASE j.op = "decide"
  <2>1. Decide(j.h, j.a, v, j.outcome) /\ j.a \in Approval
    BY <1>2, CallFields DEF Effect, OnApproval
  <2>2. UNCHANGED <<human, member, org, policy, denied, session, clock, resource>>
    BY <2>1 DEF Decide, authorityVars
  <2>3. \A b \in Approval : b # j.a => UNCHANGED <<state[b], decision[b]>>
    BY <1>type, <2>1 DEF Decide, Transition, TypeOK
  <2>4. decision'[j.a].actor = j.h
    BY <1>type, <2>1 DEF Decide, TypeOK
  <2> QED BY <1>2, <2>2, <2>3, <2>4 DEF OnApproval
<1>3. CASE j.op \in {"issuePermit", "execute", "revoke"}
  <2>1. j.a \in Approval
    BY <1>3, CallFields DEF OnApproval
  <2>2. \/ j.op = "issuePermit" /\ IssuePermit(j.h, j.a, v, j.d)
        \/ j.op = "execute" /\ Execute(j.h, j.a, v, j.x, j.n, j.d)
        \/ j.op = "revoke" /\ Revoke(j.h, j.a, v)
    BY <1>3 DEF Effect
  <2>3. UNCHANGED <<human, member, org, policy, denied, session, clock, decision>>
    BY <2>2 DEF IssuePermit, Execute, Revoke, authorityVars
  <2>4. state[j.a] \in Live /\ \A b \in Approval : b # j.a => state'[b] = state[b]
    BY <1>type, <2>1, <2>2 DEF IssuePermit, CanIssue, Execute, CanExecute, Revoke, CanRevoke, Transition, TypeOK, Live
  <2>5. j.op # "execute" => UNCHANGED resource
    BY <1>3, <2>2 DEF IssuePermit, Revoke
  <2>6. j.op = "execute" => \A y \in Resource : y # terms[j.a].resource => resource'[y] = resource[y]
    <3> SUFFICES ASSUME Execute(j.h, j.a, v, j.x, j.n, j.d)
                 PROVE  \A y \in Resource : y # terms[j.a].resource => resource'[y] = resource[y]
      BY <2>2
    <3>1. terms[j.a].resource = j.x /\ ResourceRow(j.x, j.n)
      BY DEF Execute, CanExecute, MatchesApproved
    <3> QED BY <1>type, <3>1 DEF ResourceRow, TypeOK, AuthorizationTypeOK
  <2> QED BY <1>3, <2>3, <2>4, <2>5, <2>6 DEF OnApproval
<1> QED BY <1>1, <1>2, <1>3 DEF OnApproval

LEMMA RenameWrites ==
  ASSUME LockInv, NEW j, j.op = "rename", NEW v, Effect(j, v)
  PROVE  /\ UNCHANGED approvalVars /\ UNCHANGED <<human, member, org, policy, denied, session, clock>>
         /\ \A y \in Resource : y # j.x => resource'[y] = resource[y]
<1>1. Rename(j.h, j.x, j.n)
  BY DEF Effect
<1> QED BY <1>1 DEF Rename, DirectRename, ResourceRow, authorityVars, LockInv, IInv, TypeOK, AuthorizationTypeOK

LEMMA SignOutWrites ==
  ASSUME LockInv, NEW j, j.op = "revokeSession", NEW v, Effect(j, v)
  PROVE  /\ UNCHANGED approvalVars /\ UNCHANGED <<human, member, org, policy, denied, resource, clock>>
         /\ \A h \in Human : h # j.h => session'[h] = session[h]
<1>1. SignOut(j.h)
  BY DEF Effect
<1> QED BY <1>1 DEF SignOut, SessionEnds, authorityVars, LockInv, IInv, TypeOK, AuthorizationTypeOK

(* No commit touches what another approval call or rename has read.        *)
LEMMA CommitSparesScoped ==
  ASSUME LockInv, NEW p \in Proc, NEW q \in Proc, p # q, stage[p] = "ready", stage[q] = "ready",
         NEW j, job[p] = j, NEW k, job[q] = k, k.op \in Scoped, NEW v, Effect(j, v)
  PROVE  Keeps(k, people[q])
<1> DEFINE S == people[q]
<1>q. /\ k \in Call /\ k.h \in S /\ k.h \in Human
      /\ k.op \in OnApproval => k.a \in Approval /\ terms[k.a] # Null
      /\ k.op \in {"request", "rename"} => k.x \in Resource
  BY ScopedHolds, CallFields DEF LockInv, Sound, Called
<1>people. S \subseteq Human
  BY DEF LockInv, LockTypes
<1>target. k.op \in OnApproval => terms[k.a].resource \in Resource
  BY <1>q DEF LockInv, IInv, TypeOK, Terms
<1>p. j \in Call
  BY DEF LockInv, Sound, Called
<1>1. CASE j.op \in OnApproval \cup {"request"}
  <2>1. Events \in held[p] /\ j.op \in Scoped
    BY <1>1, ScopedHolds DEF Scoped, OnApproval
  <2>2. k.op = "rename"
    BY <2>1, Excluded, ScopedHolds DEF Events
  <2>3. resource'[k.x] = resource[k.x]
    <3>1. CASE j.op = "execute"
      <4>1. Exclusive(<<"resource", terms[j.a].resource>>) \in held[p]
        BY <3>1, ScopedHolds DEF Scoped, OnApproval
      <4>2. Exclusive(<<"resource", k.x>>) \in held[q]
        BY <2>2, ScopedHolds
      <4>3. k.x # terms[j.a].resource
        BY <4>1, <4>2, Excluded
      <4> QED BY <1>1, <1>p, <1>q, <2>2, <3>1, <4>3, ApprovalWrites
    <3>2. CASE j.op # "execute"
      BY <1>1, <1>p, <3>2, ApprovalWrites
    <3> QED BY <3>1, <3>2
  <2>4. UNCHANGED <<human, member, org, policy, denied, session, clock>>
    BY <1>1, <1>p, ApprovalWrites
  <2> QED BY <2>2, <2>3, <2>4 DEF Keeps, OnApproval
<1>2. CASE j.op = "rename"
  <2>1. Exclusive(<<"resource", j.x>>) \in held[p]
    BY <1>2, ScopedHolds DEF Scoped
  <2>2. /\ k.op = "rename" => k.x # j.x
        /\ k.op \in OnApproval => terms[k.a].resource # j.x
    <3>1. Exclusive(<<"resource", j.x>>) \notin held[q]
      BY <2>1, Excluded
    <3>2. /\ k.op = "rename" => Exclusive(<<"resource", k.x>>) \in held[q]
          /\ k.op \in OnApproval => Exclusive(<<"resource", terms[k.a].resource>>) \in held[q]
      BY ScopedHolds
    <3> QED BY <3>1, <3>2
  <2>3. /\ UNCHANGED approvalVars /\ UNCHANGED <<human, member, org, policy, denied, session, clock>>
        /\ \A y \in Resource : y # j.x => resource'[y] = resource[y]
    BY <1>2, RenameWrites
  <2> QED BY <1>q, <1>target, <2>2, <2>3 DEF Keeps
<1>3. CASE j.op \in Mutator
  <2>1. /\ UNCHANGED <<session, resource, clock, terms, decision>>
        /\ Events \notin held[p] => UNCHANGED approvalVars
        /\ j.op # "setHumanStatus" => UNCHANGED human
        /\ j.op # "setMembership" => UNCHANGED member
        /\ j.op # "setOrganizationStatus" => UNCHANGED org
        /\ j.op # "changePolicy" => UNCHANGED <<policy, denied>>
        /\ j.op = "setHumanStatus" => \A s \in Human : s # j.h => human'[s] = human[s]
        /\ j.op = "setMembership" => \A s \in Human : s # j.h => member'[s] = member[s]
    BY <1>3, MutatorWrites
  <2>2. k.op # "rename" => UNCHANGED approvalVars
    <3>1. k.op # "rename" => Events \notin held[p]
      BY Excluded, ScopedHolds DEF Events
    <3> QED BY <2>1, <3>1
  <2>3. j.op # "setOrganizationStatus" /\ j.op # "changePolicy"
    BY Excluded, ScopedHolds, FirstHolds DEF Looked
  <2>4. j.op = "setHumanStatus" => j.h \notin S
    <3>1. j.op = "setHumanStatus" => Exclusive(<<"human", j.h>>) \in held[p]
      BY FirstHolds DEF Looked
    <3>2. j.op = "setHumanStatus" => Shared(<<"human", j.h>>) \notin held[q]
      BY <3>1, Excluded
    <3>3. \A s \in S : Shared(<<"human", s>>) \in held[q]
      BY ScopedHolds
    <3> QED BY <3>2, <3>3
  <2>5. j.op = "setMembership" => j.h \notin S
    <3>1. j.op = "setMembership" => Exclusive(<<"membership", j.h>>) \in held[p]
      BY FirstHolds DEF Looked
    <3>2. j.op = "setMembership" => Shared(<<"membership", j.h>>) \notin held[q]
      BY <3>1, Excluded
    <3>3. \A s \in S : Shared(<<"membership", s>>) \in held[q]
      BY ScopedHolds
    <3> QED BY <3>2, <3>3
  <2>6. \A s \in S : human'[s] = human[s] /\ member'[s] = member[s]
    BY <1>people, <2>1, <2>4, <2>5
  <2> QED BY <2>1, <2>2, <2>3, <2>6 DEF Keeps
<1>4. CASE j.op = "revokeSession"
  <2>1. Exclusive(<<"session", j.h>>) \in held[p]
    BY <1>4, FirstHolds DEF Looked
  <2>2. k.h # j.h
    <3>1. Shared(<<"session", j.h>>) \notin held[q]
      BY <2>1, Excluded
    <3>2. Shared(<<"session", k.h>>) \in held[q]
      BY ScopedHolds
    <3> QED BY <3>1, <3>2
  <2>3. /\ UNCHANGED approvalVars /\ UNCHANGED <<human, member, org, policy, denied, resource, clock>>
        /\ \A h \in Human : h # j.h => session'[h] = session[h]
    BY <1>4, SignOutWrites
  <2> QED BY <1>q, <2>2, <2>3 DEF Keeps
<1> QED BY <1>p, <1>1, <1>2, <1>3, <1>4, CallFields DEF Scoped

(* No commit changes what another mutator has to revoke, once that one has *)
(* the event lock or has found nothing.                                    *)
LEMMA CommitSparesMutator ==
  ASSUME LockInv, NEW p \in Proc, NEW q \in Proc, p # q, stage[p] = "ready", Looked(q),
         NEW j, job[p] = j, NEW k, job[q] = k, k.op \in Mutator, NEW v, Effect(j, v),
         ~(stage[q] = "locking" /\ Events \in Taken(q))
  PROVE  Affected(k)' = Affected(k)
<1>p. j \in Call
  BY DEF LockInv, Sound, Called
<1>same. ASSUME UNCHANGED <<state, decision>>
         PROVE  Affected(k)' = Affected(k)
  BY <1>same DEF Affected, Involving
<1>1. CASE j.op \in {"rename", "revokeSession"}
  <2>1. UNCHANGED approvalVars
    BY <1>1, RenameWrites, SignOutWrites
  <2> QED BY <1>same, <2>1 DEF approvalVars
<1>2. CASE Events \in held[q]
  <2>1. Events \notin held[p]
    BY <1>2, Excluded DEF Events
  <2>2. CASE j.op \in OnApproval \cup {"request"}
    BY <2>1, <2>2, ScopedHolds DEF Scoped, OnApproval
  <2>3. CASE j.op \in Mutator
    <3>1. UNCHANGED approvalVars
      BY <2>1, <2>3, MutatorWrites
    <3> QED BY <1>same, <3>1 DEF approvalVars
  <2> QED BY <1>p, <1>1, <2>2, <2>3, CallFields DEF Scoped
<1>3. CASE Events \notin held[q]
  <2>1. Affected(k) = {}
    BY <1>3 DEF LockInv, Sound, Alone, Settles, Looked, Taken
  <2>2. CASE j.op \in Mutator
    <3>1. UNCHANGED decision /\ \A a \in Approval : state'[a] \in Live => state[a] \in Live
      BY <2>2, MutatorWrites
    <3>2. Affected(k)' \subseteq Affected(k)
      BY <3>1 DEF Affected, Involving
    <3> QED BY <2>1, <3>2
  <2>3. CASE j.op \in OnApproval \cup {"request"}
    <3>1. j.op \in Scoped
      BY <2>3 DEF Scoped
    <3>2. /\ Shared(<<"organization">>) \in held[p] /\ Shared(<<"policy">>) \in held[p]
          /\ j.h \in people[p] /\ (j.op \in OnApproval => Requester(j.a) \in people[p])
          /\ \A s \in people[p] : Shared(<<"human", s>>) \in held[p] /\ Shared(<<"membership", s>>) \in held[p]
      BY <3>1, ScopedHolds
    <3>3. k.op \in {"setHumanStatus", "setMembership"} /\ k.h \notin people[p]
      <4>1. /\ k.op = "setHumanStatus" => Exclusive(<<"human", k.h>>) \in held[q]
            /\ k.op = "setMembership" => Exclusive(<<"membership", k.h>>) \in held[q]
            /\ k.op = "setOrganizationStatus" => Exclusive(<<"organization">>) \in held[q]
            /\ k.op = "changePolicy" => Exclusive(<<"policy">>) \in held[q]
        BY FirstHolds
      <4> QED BY <3>2, <4>1, Excluded DEF Mutator
    <3>4. \A b \in Approval :
              \/ UNCHANGED <<state[b], decision[b]>>
              \/ state'[b] \notin Live
              \/ j.op \in OnApproval /\ b = j.a /\ state[b] \in Live /\ UNCHANGED decision[b]
              \/ /\ Requester(b) = j.h \/ (j.op \in OnApproval /\ Requester(b) = Requester(j.a))
                 /\ decision'[b] # Null => decision'[b].actor = j.h
      BY <1>p, <2>3, ApprovalWrites
    <3>5. ASSUME NEW b \in Approval, b \in Affected(k)'
          PROVE  b \in Affected(k)
      <4>1. /\ state'[b] \in Live
            /\ Requester(b) = k.h \/ (decision'[b] # Null /\ decision'[b].actor = k.h)
        <5>1. state'[b] \in Live /\ b \in Involving(k.h)'
          BY <3>3, <3>5 DEF Affected
        <5>2. PICK h : h = k.h
          OBVIOUS
        <5>3. b \in Involving(h)'
          BY <5>1, <5>2
        <5>4. Requester(b) = h \/ (decision'[b] # Null /\ decision'[b].actor = h)
          BY <5>3 DEF Involving
        <5> QED BY <5>1, <5>2, <5>4
      <4>2. CASE UNCHANGED <<state[b], decision[b]>>
        BY <4>1, <4>2 DEF Affected, Involving
      <4>3. CASE j.op \in OnApproval /\ b = j.a /\ state[b] \in Live /\ UNCHANGED decision[b]
        BY <4>1, <4>3 DEF Affected, Involving
      <4>4. CASE /\ Requester(b) = j.h \/ (j.op \in OnApproval /\ Requester(b) = Requester(j.a))
                 /\ decision'[b] # Null => decision'[b].actor = j.h
        BY <3>2, <3>3, <4>1, <4>4
      <4> QED BY <3>4, <4>1, <4>2, <4>3, <4>4
    <3>6. Affected(k)' \subseteq Approval
      BY DEF Affected
    <3> QED BY <2>1, <3>5, <3>6
  <2> QED BY <1>p, <1>1, <2>2, <2>3, CallFields DEF Scoped
<1> QED BY <1>2, <1>3

(* Nor does it end the session of one that is about to end it.             *)
LEMMA CommitSparesSession ==
  ASSUME LockInv, NEW p \in Proc, NEW q \in Proc, p # q, stage[p] = "ready", Looked(q),
         NEW j, job[p] = j, NEW k, job[q] = k, k.op = "revokeSession", NEW v, Effect(j, v)
  PROVE  session'[k.h] = session[k.h]
<1>1. j \in Call /\ k \in Call
  BY DEF LockInv, Sound, Called, Looked
<1>2. CASE j.op \in OnApproval \cup {"request"}
  BY <1>1, <1>2, ApprovalWrites
<1>3. CASE j.op = "rename"
  BY <1>3, RenameWrites
<1>4. CASE j.op \in Mutator
  BY <1>4, MutatorWrites
<1>5. CASE j.op = "revokeSession"
  <2>1. Exclusive(<<"session", k.h>>) \in held[q] /\ Exclusive(<<"session", j.h>>) \in held[p]
    BY <1>5, FirstHolds DEF Looked
  <2>2. Exclusive(<<"session", j.h>>) \notin held[q]
    BY <2>1, Excluded
  <2>3. j.h # k.h
    BY <2>1, <2>2
  <2>4. k.h \in Human
    BY <1>1, CallFields
  <2> QED BY <1>5, <2>3, <2>4, SignOutWrites
<1> QED BY <1>1, <1>2, <1>3, <1>4, <1>5, CallFields DEF Scoped

(* The terms of a request are written once.                                *)
LEMMA TermsKept ==
  ASSUME IInv, [Next]_vars, NEW a \in Approval, terms[a] # Null
  PROVE  terms'[a] = terms[a]
<1>type. TypeOK /\ state[a] # "none"
  BY DEF IInv, TablesAgree, RowAgrees
<1>1. ASSUME NEW h \in Human, NEW q \in RequestId, NEW x \in Resource, NEW n \in Name,
             NEW review \in {"required", "policy"}, a = <<h, q>>, Request(h, q, x, n, review)
      PROVE  FALSE
  BY <1>type, <1>1 DEF Request, CanRequest
<1>2. ASSUME NEW h \in Human, NEW v, NEW outcome \in {"approve", "reject"}, Decide(h, a, v, outcome)
      PROVE  terms'[a] = terms[a]
  BY <1>2 DEF Decide
<1>3. ASSUME NEW h \in Human, NEW v, NEW d \in Digest, IssuePermit(h, a, v, d)
      PROVE  terms'[a] = terms[a]
  BY <1>3 DEF IssuePermit
<1>4. ASSUME NEW h \in Human, NEW v, NEW x \in Resource, NEW n \in Name, NEW d \in Digest,
             Execute(h, a, v, x, n, d)
      PROVE  terms'[a] = terms[a]
  BY <1>4 DEF Execute
<1>5. CASE Invalidated(a) \/ UNCHANGED Columns(a)
  BY <1>5 DEF Columns, Invalidated
<1> QED
  BY <1>1, <1>2, <1>3, <1>4, <1>5, <1>type, RowStep DEF Touches

LEMMA CommitStep ==
  ASSUME LockInv, NEW p \in Proc, Commit(p)
  PROVE  LockInv'
<1>1. PICK j : j = job[p]
  OBVIOUS
<1>2. PICK v : v = expects[p]
  OBVIOUS
<1>3. stage[p] = "ready" /\ Effect(j, v) /\ Release(p)
  BY <1>1, <1>2 DEF Commit
<1>4. j \in Call
  BY <1>1, <1>3 DEF LockInv, Sound, Called
<1>5. Next
  BY <1>3, <1>4, EffectIsStep DEF LockInv
<1>6. IInv' /\ Counted'
  BY <1>5, IInvStep, CountedStep DEF LockInv
<1>7. \A a \in Approval : terms[a] # Null => terms'[a] = terms[a]
  BY <1>5, TermsKept DEF LockInv
<1>8. ASSUME NEW q \in Proc, q # p
      PROVE  Sound(q)'
  <2>1. PICK k : k = job[q]
    OBVIOUS
  <2>2. UNCHANGED <<job[q], expects[q], stage[q], todo[q], held[q], people[q], hits[q]>>
    BY <1>3, <1>8, ReleaseLocks
  <2>3. stage[q] = "ready" /\ k.op \in Scoped => Keeps(k, people[q])
    BY <1>1, <1>3, <1>8, <2>1, CommitSparesScoped
  <2>4. stage[q] = "ready" /\ k.op = "revokeSession" => session'[k.h] = session[k.h]
    BY <1>1, <1>3, <1>8, <2>1, CommitSparesSession DEF Looked
  <2>5. Looked(q) /\ k.op \in Mutator =>
           \/ Affected(k)' = Affected(k)
           \/ stage[q] = "locking" /\ Events \in Taken(q)
    BY <1>1, <1>3, <1>8, <2>1, CommitSparesMutator
  <2> QED
    BY <1>7, <2>1, <2>2, <2>3, <2>4, <2>5, SoundKept DEF LockInv
<1> QED BY <1>3, <1>6, <1>8, ReleaseLocks DEF LockInv

(* A session is replaced only while no transaction relies on it.           *)
LEMMA OpenSessionStep ==
  ASSUME LockInv, NEW h \in Human, OpenSession(h)
  PROVE  LockInv'
<1>1. SignIn(h) /\ UNCHANGED lockVars
  BY DEF OpenSession
<1>2. Next
  BY <1>1 DEF Next
<1>3. IInv' /\ Counted'
  BY <1>2, IInvStep, CountedStep DEF LockInv
<1>4. /\ UNCHANGED approvalVars /\ UNCHANGED <<human, member, org, policy, denied, resource, clock>>
      /\ \A g \in Human : g # h => session'[g] = session[g]
  BY <1>1 DEF SignIn, SessionOpens, authorityVars, LockInv, IInv, TypeOK, AuthorizationTypeOK
<1>5. UNCHANGED <<job, expects, stage, todo, held, people, hits, allocated>>
  BY <1>1 DEF lockVars
<1>6. LockTypes' /\ Exclusion' /\ OneWriter'
  BY <1>5 DEF LockInv, LockTypes, Exclusion, Blocks, OneWriter
<1>7. ASSUME NEW q \in Proc
      PROVE  Sound(q)'
  <2>1. PICK k : k = job[q]
    OBVIOUS
  <2>2. stage[q] = "ready" /\ k.op \in Scoped \cup {"revokeSession"} =>
          k.h \in Human /\ k.h # h
    <3> SUFFICES ASSUME stage[q] = "ready", k.op \in Scoped \cup {"revokeSession"}
                 PROVE  k.h \in Human /\ k.h # h
      OBVIOUS
    <3>1. k \in Call
      BY <2>1, FirstHolds DEF Looked
    <3>2. Shared(<<"session", k.h>>) \in held[q] \/ Exclusive(<<"session", k.h>>) \in held[q]
      BY <2>1, ScopedHolds, FirstHolds DEF Looked
    <3>3. Shared(<<"session", h>>) \notin held[q] /\ Exclusive(<<"session", h>>) \notin held[q]
      BY DEF OpenSession, Blocks, Shared, Exclusive
    <3>4. k.h # h
      BY <3>2, <3>3
    <3> QED BY <3>1, <3>4, CallFields
  <2>3. stage[q] = "ready" /\ k.op \in Scoped => Keeps(k, people[q])
    BY <1>4, <2>2 DEF Keeps
  <2>4. stage[q] = "ready" /\ k.op = "revokeSession" => session'[k.h] = session[k.h]
    BY <1>4, <2>2
  <2>5. UNCHANGED <<state, decision, terms>>
    BY <1>4 DEF approvalVars
  <2>6. Affected(k)' = Affected(k)
    BY <2>5 DEF Affected, Involving
  <2> QED
    BY <1>5, <2>1, <2>3, <2>4, <2>5, <2>6, SoundKept DEF LockInv
<1> QED BY <1>3, <1>6, <1>7 DEF LockInv

LEMMA LockInvInit == LockInit => LockInv
<1> SUFFICES ASSUME LockInit PROVE LockInv
  OBVIOUS
<1>1. IInv /\ Counted
  BY IInvInit, CountedInit DEF LockInit
<1>2. \A p \in Proc : job[p] = Null /\ stage[p] = "idle" /\ held[p] = {}
  BY DEF LockInit
<1>3. LockTypes
  <2>1. allocated \in Seq(Proc)
    BY DEF LockInit
  <2> QED BY <2>1 DEF LockInit, LockTypes, Stage
<1>4. Exclusion /\ OneWriter
  BY <1>2 DEF LockInit, Exclusion, OneWriter
<1>5. ASSUME NEW p \in Proc PROVE Sound(p)
  BY <1>2 DEF Sound, Called, Begun, Covered, Alone, Settles, Looked
<1> QED BY <1>1, <1>3, <1>4, <1>5 DEF LockInv

LEMMA LockInvStep ==
  ASSUME LockInv, [LockNext]_allVars
  PROVE  LockInv'
<1>1. ASSUME NEW p \in Proc, NEW j \in Job[p], Start(p, j) PROVE LockInv'
  <2>1. j \in Call
    BY <1>1, LocksAssumption
  <2> QED BY <1>1, <2>1, StartStep
<1>2. ASSUME NEW p \in Proc, Acquire(p) PROVE LockInv'
  BY <1>2, AcquireStep
<1>3. ASSUME NEW p \in Proc, Look(p) PROVE LockInv'
  BY <1>3, LookStep
<1>4. ASSUME NEW p \in Proc, Check(p) PROVE LockInv'
  BY <1>4, CheckStep
<1>5. ASSUME NEW p \in Proc, Refuse(p) \/ Rollback(p) PROVE LockInv'
  BY <1>5, EndStep DEF Refuse, Rollback
<1>6. ASSUME NEW p \in Proc, Commit(p) PROVE LockInv'
  BY <1>6, CommitStep
<1>7. ASSUME NEW h \in Human, OpenSession(h) PROVE LockInv'
  BY <1>7, OpenSessionStep
<1>8. CASE UNCHANGED allVars
  <2>1. UNCHANGED vars /\ UNCHANGED <<job, expects, stage, todo, held, people, hits, allocated>>
    BY <1>8 DEF allVars, lockVars
  <2>2. LockTypes' /\ Exclusion' /\ OneWriter'
    BY <2>1 DEF LockInv, LockTypes, Exclusion, Blocks, OneWriter
  <2>3. \A p \in Proc : Sound(p)'
    BY <2>1, Bystander DEF LockInv
  <2> QED BY <2>1, <2>2, <2>3, StutterIsStep DEF LockInv
<1> QED
  BY <1>1, <1>2, <1>3, <1>4, <1>5, <1>6, <1>7, <1>8 DEF LockNext

LEMMA LockInvAlways == LockSpec => []LockInv
BY LockInvInit, LockInvStep, PTL DEF LockSpec

-----------------------------------------------------------------------------

(* What a transaction has checked under its locks is so when it commits:   *)
(* its step is still allowed, and a mutator still revokes exactly the live *)
(* requests it affects (context(), lockScope(), invalidateApprovals()).    *)
THEOREM ChecksAlwaysHold == LockSpec => []ChecksHoldAtCommit
<1>1. LockInv => ChecksHoldAtCommit
  BY DEF LockInv, Sound, Settles, Passes, ChecksHoldAtCommit
<1> QED BY <1>1, LockInvAlways, PTL

(* Events become visible in the order they were numbered in: whoever       *)
(* commits has the oldest uncommitted ones (events()).                     *)
THEOREM CursorSkipsNothing == LockSpec => CursorNeverSkips
<1>1. ASSUME LockInv
      PROVE  \A p \in Proc, i \in DOMAIN allocated : Commit(p) /\ allocated[i] = p => i = 1
  BY <1>1 DEF LockInv, OneWriter
<1> QED BY <1>1, LockInvAlways, PTL DEF CursorNeverSkips

(* Taken apart into lock waits, reads and a commit, the transactions are   *)
(* still the atomic steps of module Approvals: all that is proved of those *)
(* holds of connections that interleave.                                   *)
THEOREM TransactionsAreSteps == LockSpec => Spec
<1>1. LockInit => Init
  BY DEF LockInit
<1>2. ASSUME LockInv, [LockNext]_allVars
      PROVE  [Next]_vars
  <2>1. ASSUME NEW p \in Proc, Commit(p) PROVE Next
    <3>1. job[p] \in Call
      BY <1>2, <2>1 DEF LockInv, Sound, Called, Commit
    <3> QED BY <1>2, <2>1, <3>1, EffectIsStep DEF Commit, LockInv
  <2>2. ASSUME NEW h \in Human, OpenSession(h) PROVE Next
    BY <2>2 DEF OpenSession, Next
  <2>3. ASSUME NEW p \in Proc,
               \/ \E j \in Job[p] : Start(p, j)
               \/ Acquire(p) \/ Look(p) \/ Check(p) \/ Refuse(p) \/ Rollback(p)
        PROVE  UNCHANGED vars
    BY <2>3 DEF Start, Acquire, Look, Check, Refuse, Rollback
  <2>4. CASE UNCHANGED allVars
    BY <2>4 DEF allVars
  <2> QED BY <1>2, <2>1, <2>2, <2>3, <2>4 DEF LockNext
<1> QED BY <1>1, <1>2, LockInvAlways, PTL DEF LockSpec, Spec

(* So, however the statements of transactions interleave, an approval is a  *)
(* grant that has its effect once at most, and none after it was voided     *)
(* (context() and execute() of approvals.ts under READ COMMITTED).          *)
THEOREM InterleavedAreOneShotGrants == LockSpec => ImplementsOneShotGrant
BY TransactionsAreSteps, ApprovalsAreOneShotGrants, PTL
=============================================================================
