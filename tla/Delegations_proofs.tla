------------------------- MODULE Delegations_proofs -------------------------
(***************************************************************************)
(* Theorems about delegations, for any number of humans, agents, resources *)
(* and requests, any terms, any depth of chains and no bound on time.      *)
(***************************************************************************)
EXTENDS Delegations, FiniteSetTheorems, SequenceTheorems,
        WellFoundedInduction, TLAPS

-----------------------------------------------------------------------------
(* Chains. *)

LEMMA DelegationShape ==
  ASSUME NEW d \in Delegation
  PROVE  /\ d.owner \in Human
         /\ d.path \in Seq(RequestId)
         /\ Depth(d) \in Nat /\ Depth(d) \in 1..MaxChainDepth
         /\ d.path \in [1..Depth(d) -> RequestId]
         /\ d = [owner |-> d.owner, path |-> d.path]
<1>1. PICK n \in 1..MaxChainDepth : d.path \in [1..n -> RequestId]
  BY DEF Delegation
<1>2. n \in Nat
  BY DelegationsAssumption
<1>3. d.path \in Seq(RequestId) /\ Len(d.path) = n
  BY <1>1, <1>2
<1> QED
  BY <1>1, <1>2, <1>3 DEF Delegation, Depth

(* Going up a chain stays in it: the owner is the same, and the delegation *)
(* at depth n is reached from every one below.                             *)
LEMMA AncestorShape ==
  ASSUME NEW d \in Delegation, NEW n \in 1..Depth(d)
  PROVE  /\ Ancestor(d, n) \in Delegation
         /\ Depth(Ancestor(d, n)) = n
         /\ Ancestor(d, n).owner = d.owner
         /\ Ancestor(d, n).path = SubSeq(d.path, 1, n)
<1> DEFINE p == SubSeq(d.path, 1, n)
<1>1. n \in Nat /\ n \in 1..MaxChainDepth /\ n <= Depth(d)
  BY DelegationShape, DelegationsAssumption
<1>2. \A i \in 1..n : d.path[i] \in RequestId
  BY DelegationShape, <1>1
<1>3. p \in Seq(RequestId) /\ Len(p) = n
  <2>1. 1 \in Int /\ n \in Int
    BY <1>1
  <2> QED
    BY <1>1, <1>2, <2>1, SubSeqProperties
<1>4. p \in [1..n -> RequestId]
  <2> HIDE DEF p
  <2> QED
    BY <1>3
<1>5. Ancestor(d, n) = [owner |-> d.owner, path |-> p]
  BY DEF Ancestor
<1>6. Ancestor(d, n).path = p /\ Ancestor(d, n).owner = d.owner
  BY <1>5
<1>7. [owner |-> d.owner, path |-> p] \in Delegation
  <2>1. p \in UNION {[1..m -> RequestId] : m \in 1..MaxChainDepth}
    BY <1>1, <1>4
  <2> HIDE DEF p
  <2> QED
    BY <2>1, DelegationShape DEF Delegation
<1> HIDE DEF p
<1>8. Ancestor(d, n) \in Delegation /\ Depth(Ancestor(d, n)) = n
  BY <1>3, <1>5, <1>6, <1>7 DEF Depth
<1> QED
  BY <1>6, <1>8 DEF p

LEMMA AncestorSelf ==
  ASSUME NEW d \in Delegation
  PROVE  Ancestor(d, Depth(d)) = d
<1>1. SubSeq(d.path, 1, Len(d.path)) = d.path
  BY DelegationShape, SubSeqFull
<1> QED
  BY <1>1, DelegationShape DEF Ancestor, Depth

LEMMA AncestorOfAncestor ==
  ASSUME NEW d \in Delegation, NEW n \in 1..Depth(d), NEW m \in 1..n
  PROVE  Ancestor(Ancestor(d, n), m) = Ancestor(d, m)
<1>1. SubSeq(SubSeq(d.path, 1, n), 1, m) = SubSeq(d.path, 1, m)
  <2> DEFINE s == SubSeq(d.path, 1, n)
             t == SubSeq(s, 1, m)
             u == SubSeq(d.path, 1, m)
  <2>1. n \in Int /\ m \in Int /\ 1 \in Int /\ m <= n /\ n <= Depth(d)
    BY DelegationShape
  <2>2. \A i \in 1..Depth(d) : d.path[i] \in RequestId
    BY DelegationShape
  <2>3. \A i \in 1..n : d.path[i] \in RequestId
    BY <2>1, <2>2, DelegationShape
  <2>4. /\ s \in Seq(RequestId) /\ Len(s) = n
        /\ \A i \in 1..n : s[i] = d.path[i]
    BY <2>1, <2>3, SubSeqProperties
  <2> HIDE DEF s
  <2>5. /\ t \in Seq(RequestId) /\ Len(t) = m
        /\ \A i \in 1..m : t[i] = s[i]
    BY <2>1, <2>3, <2>4, SubSeqProperties
  <2>6. /\ u \in Seq(RequestId) /\ Len(u) = m
        /\ \A i \in 1..m : u[i] = d.path[i]
    BY <2>1, <2>3, SubSeqProperties
  <2> HIDE DEF t, u
  <2>7. t = u
    BY <2>1, <2>4, <2>5, <2>6
  <2> QED
    BY <2>7 DEF s, t, u
<1>2. Ancestor(d, n) = [owner |-> d.owner, path |-> SubSeq(d.path, 1, n)]
  BY DEF Ancestor
<1> QED
  BY <1>1, <1>2, DelegationShape DEF Ancestor

LEMMA ChainMembers ==
  ASSUME NEW d \in Delegation
  PROVE  /\ d \in Chain(d)
         /\ \A e \in Chain(d) : /\ e \in Delegation
                                /\ e.owner = d.owner
                                /\ Depth(e) \in 1..Depth(d)
<1>1. Depth(d) \in 1..Depth(d)
  BY DelegationShape
<1> QED
  BY <1>1, AncestorSelf, AncestorShape DEF Chain

LEMMA ChainOfRoot ==
  ASSUME NEW d \in Delegation, Depth(d) = 1
  PROVE  Chain(d) = {d}
<1>1. \A n \in 1..Depth(d) : n = Depth(d)
  OBVIOUS
<1> QED
  BY <1>1, AncestorSelf DEF Chain

LEMMA ChainOfChild ==
  ASSUME NEW d \in Delegation, Depth(d) > 1
  PROVE  /\ Parent(d) \in Delegation /\ Parent(d) # d
         /\ Parent(d).owner = d.owner
         /\ Depth(Parent(d)) = Depth(d) - 1
         /\ Chain(d) = {d} \cup Chain(Parent(d))
<1> DEFINE k == Depth(d) - 1
<1>1. Depth(d) \in Nat /\ k \in 1..Depth(d) /\ k # Depth(d)
  BY DelegationShape
<1>2. /\ Parent(d) \in Delegation /\ Parent(d).owner = d.owner
      /\ Depth(Parent(d)) = k
  BY <1>1, AncestorShape DEF Parent
<1>3. \A m \in 1..k : Ancestor(Parent(d), m) = Ancestor(d, m)
  BY <1>1, AncestorOfAncestor DEF Parent
<1>4. 1..Depth(d) = {Depth(d)} \cup 1..k
  BY <1>1
<1>5. Chain(d) = {d} \cup {Ancestor(d, n) : n \in 1..k}
  BY <1>4, AncestorSelf DEF Chain
<1>6. Chain(Parent(d)) = {Ancestor(d, n) : n \in 1..k}
  BY <1>2, <1>3 DEF Chain
<1> QED
  BY <1>1, <1>2, <1>5, <1>6

-----------------------------------------------------------------------------
(* Types. *)

LEMMA StampType ==
  ASSUME AuthorizationTypeOK, NEW h \in Human
  PROVE  Stamp(h) \in Stamps
BY DEF AuthorizationTypeOK, Stamp, Stamps

(* Versions and the clock only grow. *)
Grown ==
  /\ \A h \in Human : /\ human'[h].version >= human[h].version
                      /\ member'[h].version >= member[h].version
  /\ org'.version >= org.version
  /\ policy'.revision >= policy.revision
  /\ clock' >= clock

LEMMA ResourceType ==
  ASSUME AuthorizationTypeOK, NEW x \in Resource, NEW n \in Name,
         ResourceRow(x, n)
  PROVE  resource' \in [Resource -> [version: Nat, name: Name]]
<1>1. [version |-> resource[x].version + 1, name |-> n]
        \in [version: Nat, name: Name]
  BY DEF AuthorizationTypeOK
<1> QED
  BY <1>1 DEF AuthorizationTypeOK, ResourceRow

LEMMA AuthorizationGrows ==
  ASSUME AuthorizationTypeOK, AuthorizationStep
  PROVE  AuthorizationTypeOK' /\ Grown
<1> USE DEF AuthorizationTypeOK, Grown
<1>1. ASSUME NEW h \in Human, NEW active \in BOOLEAN, HumanRow(h, active)
      PROVE  AuthorizationTypeOK' /\ Grown
  BY <1>1 DEF HumanRow
<1>2. ASSUME NEW h \in Human, NEW role \in Role, NEW active \in BOOLEAN,
             MembershipRow(h, role, active)
      PROVE  AuthorizationTypeOK' /\ Grown
  BY <1>2 DEF MembershipRow
<1>3. ASSUME NEW mode \in {"active", "read_only"}, NEW h \in Human,
             NEW effect \in RuleEffect, PolicyRow(mode, h, effect)
      PROVE  AuthorizationTypeOK' /\ Grown
  BY <1>3, ConstantsAssumption DEF PolicyRow
<1>4. ASSUME NEW h \in Human, NEW effect \in RuleEffect, RuleTurns(h, effect)
      PROVE  AuthorizationTypeOK' /\ Grown
  BY <1>4, ConstantsAssumption DEF RuleTurns
<1>5. ASSUME NEW h \in Human, NEW x \in Resource, NEW n \in Name,
             DirectRename(h, x, n)
      PROVE  AuthorizationTypeOK' /\ Grown
  <2>1. resource' \in [Resource -> [version: Nat, name: Name]]
    BY <1>5, ResourceType DEF DirectRename
  <2> QED
    BY <1>5, <2>1 DEF DirectRename, authorityVars
<1>6. ASSUME NEW h \in Human, SessionOpens(h) \/ SessionEnds(h)
      PROVE  AuthorizationTypeOK' /\ Grown
  BY <1>6 DEF SessionOpens, SessionEnds, authorityVars
<1>7. ASSUME NEW active \in BOOLEAN, OrganizationRow(active)
      PROVE  AuthorizationTypeOK' /\ Grown
  BY <1>7 DEF OrganizationRow
<1>8. CASE TimePasses
  BY <1>8 DEF TimePasses, authorityVars
<1> QED
  BY <1>1, <1>2, <1>3, <1>4, <1>5, <1>6, <1>7, <1>8 DEF AuthorizationStep

(* The row issue() inserts; nothing else of its table changes.             *)
LEMMA InsertedRow ==
  ASSUME TypeOK, NEW d \in Delegation, NEW x \in Agent, NEW t \in Offer,
         Insert(d, x, t)
  PROVE  /\ row' \in [Delegation -> Row \cup {Null}]
         /\ row[d] = Null
         /\ row'[d] \in Row /\ row'[d] # Null
         /\ row'[d].agent = x /\ row'[d].terms = t
         /\ row'[d].stamp = Stamp(d.owner)
         /\ row'[d].agentVersion = agents[x].version
         /\ agents[x] \in AgentRow /\ agents[x].owner = d.owner
         /\ \A e \in Delegation : e # d => row'[e] = row[e]
         /\ t \in Terms /\ ValidTerms(t)
<1> DEFINE r == [agent |-> x, agentVersion |-> agents[x].version,
                 stamp |-> Stamp(d.owner), terms |-> t]
<1>1. agents[x] \in AgentRow /\ agents[x].owner = d.owner
  BY DEF TypeOK, Insert, OwnedActive
<1>2. t \in Terms
  BY DelegationsAssumption
<1>3. Stamp(d.owner) \in Stamps
  BY DelegationShape, StampType DEF TypeOK
<1>4. r \in Row /\ r # Null
  BY <1>1, <1>2, <1>3, DelegationsAssumption DEF Row, AgentRow
<1>5. row' = [row EXCEPT ![d] = r] /\ row[d] = Null /\ ValidTerms(t)
  BY DEF Insert, Affordable
<1>6. row'[d] = r /\ \A e \in Delegation : e # d => row'[e] = row[e]
  BY <1>5 DEF TypeOK
<1>7. row' \in [Delegation -> Row \cup {Null}]
  <2> HIDE DEF r
  <2> QED
    BY <1>4, <1>5 DEF TypeOK
<1> QED
  BY <1>1, <1>2, <1>4, <1>5, <1>6, <1>7

LEMMA TypeInit == Init => TypeOK
<1> SUFFICES ASSUME Init PROVE TypeOK
  OBVIOUS
<1>1. AuthorizationTypeOK
  BY ConstantsAssumption DEF Init, AuthorizationInit, AuthorizationTypeOK,
     Role
<1> QED
  BY <1>1 DEF Init, TypeOK

LEMMA TypeStep == TypeOK /\ [Next]_vars => TypeOK'
<1> SUFFICES ASSUME TypeOK, [Next]_vars PROVE TypeOK'
  OBVIOUS
<1>1. ASSUME NEW h \in Human, NEW x \in Agent, Register(h, x)
      PROVE  TypeOK'
  <2>1. [owner |-> h, version |-> 1, active |-> TRUE] \in AgentRow
    BY DEF AgentRow
  <2> QED
    BY <1>1, <2>1 DEF Register, TypeOK, AuthorizationTypeOK, authorityVars
<1>2. ASSUME NEW h \in Human, NEW x \in Agent, NEW v \in 1..2,
             Disable(h, x, v)
      PROVE  TypeOK'
  <2>1. agents' \in [Agent -> AgentRow \cup {Null}]
    BY <1>2 DEF Disable, OwnedActive, TypeOK, AgentRow
  <2> QED
    BY <1>2, <2>1 DEF Disable, TypeOK, AuthorizationTypeOK, authorityVars
<1>3. ASSUME NEW d \in Delegation, NEW x \in Agent, NEW t \in Offer,
             IssueRoot(d, x, t)
      PROVE  TypeOK'
  <2>1. row' \in [Delegation -> Row \cup {Null}]
    BY <1>3, InsertedRow DEF IssueRoot
  <2> QED
    BY <1>3, <2>1 DEF IssueRoot, TypeOK, AuthorizationTypeOK, authorityVars
<1>4. ASSUME NEW d \in Delegation, NEW x \in Agent, NEW t \in Offer,
             Delegate(d, x, t)
      PROVE  TypeOK'
  <2>1. row' \in [Delegation -> Row \cup {Null}] /\ t \in Terms
    BY <1>4, InsertedRow DEF Delegate
  <2>2. Parent(d) \in Delegation
    BY <1>4, ChainOfChild DEF Delegate
  <2>3. reserved' \in [Delegation -> Nat] /\ edition' \in [Delegation -> Nat]
    BY <1>4, <2>1, <2>2 DEF Delegate, Reserve, TypeOK, Terms
  <2> QED
    BY <1>4, <2>1, <2>3 DEF Delegate, TypeOK, AuthorizationTypeOK,
       authorityVars
<1>5. ASSUME NEW d \in Delegation, NEW h \in Human, NEW v,
             RevokeDelegation(h, d, v)
      PROVE  TypeOK'
  BY <1>5 DEF RevokeDelegation, TypeOK, AuthorizationTypeOK, authorityVars
<1>6. ASSUME NEW d \in Delegation, NEW r \in CallId, NEW x \in Resource,
             NEW action \in Action, NEW n \in Name, NEW v, NEW revision,
             Invoke(d, r, x, action, n, v, revision)
      PROVE  TypeOK'
  <2>1. resource' \in [Resource -> [version: Nat, name: Name]]
    BY <1>6, ResourceType DEF Invoke, TypeOK, AuthorizationTypeOK
  <2>2. operations' \in [Delegation -> [CallId -> Call \cup {Null}]]
    <3>1. [resource |-> x, action |-> action, version |-> resource'[x].version]
            \in Call
      BY <2>1 DEF Call
    <3> QED
      BY <1>6, <3>1 DEF Invoke, TypeOK
  <2> QED
    BY <1>6, <2>1, <2>2 DEF Invoke, TypeOK, AuthorizationTypeOK, authorityVars
<1>7. CASE OwnersStep
  BY <1>7, AuthorizationGrows DEF OwnersStep, TypeOK, delegationVars
<1>8. CASE UNCHANGED vars
  BY <1>8 DEF vars, authorityVars, delegationVars, TypeOK, AuthorizationTypeOK
<1> QED
  BY <1>1, <1>2, <1>3, <1>4, <1>5, <1>6, <1>7, <1>8
  DEF Next, DelegationStep

(* The columns of every table hold values of their types.                  *)
THEOREM TypeCorrect == Spec => []TypeOK
BY TypeInit, TypeStep, PTL DEF Spec

-----------------------------------------------------------------------------
(* Calls are paid for: the counters agree with the calls on record, which  *)
(* stay finitely many.                                                     *)

Paid(d) ==
  /\ IsFiniteSet(Made(d))
  /\ used[d] = Cardinality(Made(d))
  /\ row[d] = Null => used[d] = 0 /\ reserved[d] = 0 /\ ~revoked[d]
  /\ row[d] # Null => used[d] + reserved[d] <= row[d].terms.calls

PaidInv == \A d \in Delegation : Paid(d)

LEMMA PaidStep == TypeOK /\ PaidInv /\ [Next]_vars => PaidInv'
<1> SUFFICES ASSUME TypeOK, PaidInv, [Next]_vars, NEW e \in Delegation
             PROVE  Paid(e)'
  BY DEF PaidInv
<1>0. Paid(e)
  BY DEF PaidInv
<1>typed. /\ used \in [Delegation -> Nat] /\ reserved \in [Delegation -> Nat]
          /\ revoked \in [Delegation -> BOOLEAN]
          /\ row[e] # Null => row[e].terms.calls \in Nat
  BY DEF TypeOK, Row, Terms
<1>same. ASSUME UNCHANGED <<row, reserved, used, revoked, operations>>
         PROVE  Paid(e)'
  BY <1>0, <1>same DEF Paid, Made
<1>1. ASSUME NEW h \in Human, NEW x \in Agent, Register(h, x)
      PROVE  Paid(e)'
  BY <1>1, <1>same DEF Register
<1>2. ASSUME NEW h \in Human, NEW x \in Agent, NEW v, Disable(h, x, v)
      PROVE  Paid(e)'
  BY <1>2, <1>same DEF Disable
<1>3. ASSUME NEW d \in Delegation, NEW x \in Agent, NEW t \in Offer,
             IssueRoot(d, x, t)
      PROVE  Paid(e)'
  <2>1. Made(e)' = Made(e)
    BY <1>3 DEF IssueRoot, Made
  <2>2. /\ row[d] = Null /\ row'[d] # Null
        /\ row'[d].terms = t /\ t.calls \in Nat
        /\ e # d => row'[e] = row[e]
    BY <1>3, InsertedRow DEF IssueRoot, Terms
  <2>3. UNCHANGED <<used, reserved, revoked>>
    BY <1>3 DEF IssueRoot
  <2> QED
    BY <1>0, <2>1, <2>2, <2>3 DEF Paid
<1>4. ASSUME NEW d \in Delegation, NEW x \in Agent, NEW t \in Offer,
             Delegate(d, x, t)
      PROVE  Paid(e)'
  <2>1. Made(e)' = Made(e)
    BY <1>4 DEF Delegate, Made
  <2>2. /\ row[d] = Null /\ row'[d] # Null
        /\ row'[d].terms = t /\ t.calls \in Nat
        /\ \A f \in Delegation : f # d => row'[f] = row[f]
    BY <1>4, InsertedRow DEF Delegate, Terms
  <2>3. Parent(d) \in Delegation /\ Parent(d) # d
    BY <1>4, ChainOfChild DEF Delegate
  <2>4. /\ row[Parent(d)] # Null /\ t.calls <= Remaining(Parent(d))
        /\ reserved' = [reserved EXCEPT ![Parent(d)] = @ + t.calls]
        /\ UNCHANGED <<used, revoked>>
    BY <1>4 DEF Delegate, Reserve
  <2>5. CASE e = Parent(d)
    BY <1>0, <1>typed, <2>1, <2>2, <2>3, <2>4, <2>5 DEF Paid, Remaining
  <2>6. CASE e # Parent(d)
    BY <1>0, <1>typed, <2>1, <2>2, <2>4, <2>6 DEF Paid
  <2> QED
    BY <2>5, <2>6
<1>5. ASSUME NEW d \in Delegation, NEW h \in Human, NEW v,
             RevokeDelegation(h, d, v)
      PROVE  Paid(e)'
  <2>1. Made(e)' = Made(e)
    BY <1>5 DEF RevokeDelegation, Made
  <2> QED
    BY <1>5, <1>0, <1>typed, <2>1 DEF RevokeDelegation, Paid
<1>6. ASSUME NEW d \in Delegation, NEW r \in CallId, NEW x \in Resource,
             NEW action \in Action, NEW n \in Name, NEW v, NEW revision,
             Invoke(d, r, x, action, n, v, revision)
      PROVE  Paid(e)'
  <2>1. UNCHANGED <<row, reserved, revoked>>
    BY <1>6 DEF Invoke
  <2>2. /\ row[d] # Null /\ Remaining(d) >= 1 /\ operations[d][r] = Null
        /\ used' = [used EXCEPT ![d] = @ + 1]
    BY <1>6 DEF Invoke
  <2>3. PICK c \in Call : operations' = [operations EXCEPT ![d][r] = c]
    <3>1. resource' \in [Resource -> [version: Nat, name: Name]]
      BY <1>6, ResourceType DEF Invoke, TypeOK, AuthorizationTypeOK
    <3>2. [resource |-> x, action |-> action, version |-> resource'[x].version]
            \in Call
      BY <3>1 DEF Call
    <3> QED
      BY <1>6, <3>2 DEF Invoke
  <2>4. c # Null
    BY DelegationsAssumption
  <2>5. CASE e = d
    <3>1. Made(e)' = Made(e) \cup {r} /\ r \notin Made(e)
      BY <2>2, <2>3, <2>4, <2>5 DEF Made, TypeOK
    <3>2. IsFiniteSet(Made(e)) /\ used[e] = Cardinality(Made(e))
      BY <1>0 DEF Paid
    <3>3. /\ IsFiniteSet(Made(e)')
          /\ Cardinality(Made(e)') = Cardinality(Made(e)) + 1
      BY <3>1, <3>2, FS_AddElement
    <3> QED
      BY <1>0, <1>typed, <2>1, <2>2, <2>5, <3>2, <3>3 DEF Paid, Remaining
  <2>6. CASE e # d
    <3>1. Made(e)' = Made(e)
      BY <2>3, <2>6 DEF Made, TypeOK
    <3> QED
      BY <1>0, <1>typed, <2>1, <2>2, <2>6, <3>1 DEF Paid
  <2> QED
    BY <2>5, <2>6
<1>7. CASE OwnersStep
  BY <1>7, <1>same DEF OwnersStep, delegationVars
<1>8. CASE UNCHANGED vars
  BY <1>8, <1>same DEF vars, delegationVars
<1> QED
  BY <1>1, <1>2, <1>3, <1>4, <1>5, <1>6, <1>7, <1>8
  DEF Next, DelegationStep

LEMMA PaidInit == Init => PaidInv
<1> SUFFICES ASSUME Init, NEW d \in Delegation PROVE Paid(d)
  BY DEF PaidInv
<1>1. Made(d) = {}
  BY DEF Init, Made
<1> QED
  BY <1>1, FS_EmptySet DEF Init, Paid

(* However calls and issues interleave, each recorded call was paid for    *)
(* once and no delegation spends and reserves more than it was given.      *)
THEOREM CallsAlwaysPaid == Spec => []CallsArePaid
<1>1. Init => TypeOK /\ PaidInv
  BY TypeInit, PaidInit
<1>2. TypeOK /\ PaidInv /\ [Next]_vars => (TypeOK /\ PaidInv)'
  BY TypeStep, PaidStep
<1>3. TypeOK /\ PaidInv => CallsArePaid
  BY DEF PaidInv, Paid, CallsArePaid
<1> QED
  BY <1>1, <1>2, <1>3, PTL DEF Spec

-----------------------------------------------------------------------------
(* Authority only shrinks. *)

(* Every delegation is as narrow as itself, and a child attenuated from    *)
(* its parent is narrower than all above it.  Both are needed of the state *)
(* a step leads to, so they are stated as formulas of a state.             *)
SelfIsNarrow ==
  \A d \in Issued :
    agents[row[d].agent] # Null /\ agents[row[d].agent].owner = d.owner
      => Narrower(d, d)

ChildIsNarrow ==
  \A p, d \in Issued : \A e \in Chain(p) :
    /\ Narrower(p, e)
    /\ Attenuates(row[p].terms, row[d].terms)
    /\ Depth(p) = Depth(d) - 1 /\ p.owner = d.owner
    /\ row[e].agent # row[d].agent
    => Narrower(d, e)

LEMMA NarrowerThanSelf == TypeOK => SelfIsNarrow
<1> SUFFICES ASSUME TypeOK, NEW d \in Issued,
                    agents[row[d].agent] # Null,
                    agents[row[d].agent].owner = d.owner
             PROVE  Narrower(d, d)
  BY DEF SelfIsNarrow
<1>1. row[d] \in Row
  BY DEF TypeOK, Issued
<1>2. row[d].terms.from \in Nat /\ row[d].terms.until \in Nat
  BY <1>1 DEF Row, Terms
<1>3. row[d].terms.depth \in Nat /\ Depth(d) \in Nat
  BY <1>1, DelegationShape DEF Row, Terms, Issued
<1> QED
  BY <1>2, <1>3 DEF Narrower

LEMMA NarrowerThanAncestors == TypeOK => ChildIsNarrow
<1> SUFFICES ASSUME TypeOK, NEW p \in Issued, NEW d \in Issued,
                    NEW e \in Chain(p), Narrower(p, e),
                    Attenuates(row[p].terms, row[d].terms),
                    Depth(p) = Depth(d) - 1, p.owner = d.owner,
                    row[e].agent # row[d].agent
             PROVE  Narrower(d, e)
  BY DEF ChildIsNarrow
<1>1. e \in Delegation /\ e \in Issued
  BY ChainMembers DEF Issued, Narrower
<1>2. row[p] \in Row /\ row[d] \in Row /\ row[e] \in Row
  BY <1>1 DEF TypeOK, Issued
<1>3. \A f \in {p, d, e} : /\ row[f].terms.from \in Nat
                           /\ row[f].terms.until \in Nat
                           /\ row[f].terms.depth \in Nat
                           /\ Depth(f) \in Nat
  BY <1>1, <1>2, DelegationShape DEF Row, Terms, Issued
<1>4. /\ row[d].terms.from >= row[e].terms.from
      /\ row[d].terms.until <= row[e].terms.until
  BY <1>3 DEF Narrower, Attenuates
<1>5. row[d].terms.depth + Depth(d) <= row[e].terms.depth + Depth(e)
  BY <1>3 DEF Narrower, Attenuates
<1>6. \A x \in Resource :
        row[d].terms.scope[x] \subseteq row[e].terms.scope[x]
  BY DEF Narrower, Attenuates
<1> QED
  BY <1>1, <1>4, <1>5, <1>6 DEF Narrower

LEMMA ShrinksStep ==
  TypeOK /\ AuthorityOnlyShrinks /\ [Next]_vars => AuthorityOnlyShrinks'
<1> SUFFICES ASSUME TypeOK, AuthorityOnlyShrinks, [Next]_vars
             PROVE  AuthorityOnlyShrinks'
  OBVIOUS
<1>type. SelfIsNarrow' /\ ChildIsNarrow'
  BY TypeStep, NarrowerThanSelf, NarrowerThanAncestors, PTL
<1>same. ASSUME UNCHANGED row,
                \A x \in Agent : agents[x] # Null =>
                  agents'[x] # Null /\ agents'[x].owner = agents[x].owner
         PROVE  AuthorityOnlyShrinks'
  <2>1. \A e \in Issued : row[e].agent \in Agent
    BY DEF Issued, TypeOK, Row
  <2> QED
    BY <1>same, <2>1 DEF AuthorityOnlyShrinks, Narrower, Issued
<1>old. ASSUME NEW d \in Delegation, NEW x \in Agent, NEW t \in Offer,
               Insert(d, x, t), UNCHANGED agents,
               NEW f \in Issued', f # d, NEW e \in Chain(f)
        PROVE  Narrower(f, e)'
  <2>1. /\ row[d] = Null
        /\ \A g \in Delegation : g # d => row'[g] = row[g]
    BY <1>old, InsertedRow
  <2>2. f \in Issued
    BY <1>old, <2>1 DEF Issued
  <2>3. Narrower(f, e) /\ e \in Issued /\ e # d
    BY <2>1, <2>2 DEF AuthorityOnlyShrinks, Narrower, Issued
  <2> QED
    BY <1>old, <2>1, <2>2, <2>3 DEF Narrower, Issued
<1>1. ASSUME NEW h \in Human, NEW x \in Agent, Register(h, x)
      PROVE  AuthorityOnlyShrinks'
  BY <1>1, <1>same DEF Register, TypeOK
<1>2. ASSUME NEW h \in Human, NEW x \in Agent, NEW v, Disable(h, x, v)
      PROVE  AuthorityOnlyShrinks'
  <2>1. agents[x] \in AgentRow
    BY <1>2 DEF Disable, OwnedActive, TypeOK
  <2>2. agents'[x] \in AgentRow /\ agents'[x].owner = agents[x].owner
    BY <1>2, <2>1 DEF Disable, TypeOK, AgentRow
  <2>3. Null \notin AgentRow
    BY DelegationsAssumption
  <2>4. \A y \in Agent : y # x => agents'[y] = agents[y]
    BY <1>2 DEF Disable, TypeOK
  <2> QED
    BY <1>2, <1>same, <2>2, <2>3, <2>4 DEF Disable
<1>3. ASSUME NEW d \in Delegation, NEW x \in Agent, NEW t \in Offer,
             IssueRoot(d, x, t)
      PROVE  AuthorityOnlyShrinks'
  <2> SUFFICES ASSUME NEW f \in Issued', NEW e \in Chain(f)
               PROVE  Narrower(f, e)'
    BY DEF AuthorityOnlyShrinks
  <2>1. Insert(d, x, t) /\ UNCHANGED agents /\ Depth(d) = 1
    BY <1>3 DEF IssueRoot
  <2>2. CASE f # d
    BY <2>1, <2>2, <1>old
  <2>3. CASE f = d
    <3>1. e = d
      BY <2>1, <2>3, ChainOfRoot
    <3>2. /\ row'[d] # Null
          /\ agents'[row'[d].agent] # Null
          /\ agents'[row'[d].agent].owner = d.owner
      BY <2>1, InsertedRow, DelegationsAssumption
    <3>3. Narrower(d, d)'
      BY <1>type, <2>3, <3>2 DEF SelfIsNarrow
    <3> QED
      BY <2>3, <3>1, <3>3
  <2> QED
    BY <2>2, <2>3
<1>4. ASSUME NEW d \in Delegation, NEW x \in Agent, NEW t \in Offer,
             Delegate(d, x, t)
      PROVE  AuthorityOnlyShrinks'
  <2> DEFINE p == Parent(d)
  <2> SUFFICES ASSUME NEW f \in Issued', NEW e \in Chain(f)
               PROVE  Narrower(f, e)'
    BY DEF AuthorityOnlyShrinks
  <2>1. Insert(d, x, t) /\ UNCHANGED agents /\ Depth(d) > 1
    BY <1>4 DEF Delegate
  <2>2. CASE f # d
    BY <2>1, <2>2, <1>old
  <2>3. CASE f = d
    <3>1. /\ row[d] = Null /\ row'[d] # Null
          /\ row'[d].agent = x /\ row'[d].terms = t
          /\ agents'[x] # Null /\ agents'[x].owner = d.owner
          /\ \A g \in Delegation : g # d => row'[g] = row[g]
      BY <2>1, InsertedRow, DelegationsAssumption
    <3>2. /\ p \in Delegation /\ p # d /\ p.owner = d.owner
          /\ Depth(p) = Depth(d) - 1
          /\ Chain(d) = {d} \cup Chain(p)
      BY <2>1, ChainOfChild
    <3>3. /\ row[p] # Null /\ Attenuates(row[p].terms, t)
          /\ \A g \in Chain(p) : row[g].agent # x
      BY <1>4 DEF Delegate
    <3>4. CASE e = d
      <4>1. Narrower(d, d)'
        BY <1>type, <2>3, <3>1 DEF SelfIsNarrow
      <4> QED
        BY <2>3, <3>4, <4>1
    <3>5. CASE e \in Chain(p)
      <4>1. p \in Issued /\ Narrower(p, e) /\ e \in Issued /\ e # d
        BY <3>1, <3>2, <3>3, <3>5 DEF AuthorityOnlyShrinks, Narrower, Issued
      <4>2. Narrower(p, e)' /\ p \in Issued' /\ d \in Issued'
        BY <2>1, <3>1, <3>2, <4>1, <3>5, <1>old DEF Issued
      <4>3. /\ Attenuates(row'[p].terms, row'[d].terms)
            /\ row'[e].agent # row'[d].agent
        BY <3>1, <3>2, <3>3, <3>5, <4>1 DEF Issued
      <4>4. Narrower(d, e)'
        BY <1>type, <3>2, <3>5, <4>2, <4>3 DEF ChildIsNarrow
      <4> QED
        BY <2>3, <4>4
    <3> QED
      BY <2>3, <3>2, <3>4, <3>5
  <2> QED
    BY <2>2, <2>3
<1>5. ASSUME NEW d \in Delegation, NEW h \in Human, NEW v,
             RevokeDelegation(h, d, v)
      PROVE  AuthorityOnlyShrinks'
  BY <1>5, <1>same DEF RevokeDelegation
<1>6. ASSUME NEW d \in Delegation, NEW r \in CallId, NEW x \in Resource,
             NEW action \in Action, NEW n \in Name, NEW v, NEW revision,
             Invoke(d, r, x, action, n, v, revision)
      PROVE  AuthorityOnlyShrinks'
  BY <1>6, <1>same DEF Invoke
<1>7. CASE OwnersStep
  BY <1>7, <1>same DEF OwnersStep, delegationVars
<1>8. CASE UNCHANGED vars
  BY <1>8, <1>same DEF vars, delegationVars
<1> QED
  BY <1>1, <1>2, <1>3, <1>4, <1>5, <1>6, <1>7, <1>8
  DEF Next, DelegationStep

(* Along every chain, however deep, authority only shrinks: nothing below  *)
(* a root can do what the root was not given.                              *)
THEOREM AuthorityAlwaysShrinks == Spec => []AuthorityOnlyShrinks
<1>1. Init => AuthorityOnlyShrinks
  BY DEF Init, AuthorityOnlyShrinks, Issued
<1> QED
  BY <1>1, TypeInit, TypeStep, ShrinksStep, PTL DEF Spec

-----------------------------------------------------------------------------
(* What is cut stays cut. *)

(* A delegation is bound to versions that have been: those of now are as   *)
(* high or higher, so one that differs can never be met again.             *)
BoundToThePast(d) ==
  /\ row[d].agentVersion <= agents[row[d].agent].version
  /\ row[d].stamp.auth <= human[d.owner].version
  /\ row[d].stamp.membership <= member[d.owner].version
  /\ row[d].stamp.organization <= org.version
  /\ row[d].stamp.policy <= policy.revision

BoundInv == \A d \in Issued : BoundToThePast(d)

DInv == TypeOK /\ AuthorityOnlyShrinks /\ BoundInv

AgentsAge ==
  \A x \in Agent : agents[x] # Null =>
    /\ agents'[x] # Null
    /\ agents'[x].version >= agents[x].version
    /\ ~agents[x].active => ~agents'[x].active

RowsStay == \A d \in Issued : row'[d] = row[d] /\ (revoked[d] => revoked'[d])

LEMMA NothingGetsYounger ==
  TypeOK /\ [Next]_vars => Grown /\ AgentsAge /\ RowsStay
<1> SUFFICES ASSUME TypeOK, [Next]_vars PROVE Grown /\ AgentsAge /\ RowsStay
  OBVIOUS
<1>ages. /\ UNCHANGED authorityVars /\ UNCHANGED clock => Grown
         /\ UNCHANGED agents => AgentsAge
         /\ UNCHANGED row /\ UNCHANGED revoked => RowsStay
  <2>1. \A x \in Agent : agents[x] # Null => agents[x].version \in Nat
    BY DEF TypeOK, AgentRow
  <2>2. UNCHANGED agents => AgentsAge
    BY <2>1 DEF AgentsAge
  <2> QED
    BY <2>2 DEF Grown, RowsStay, authorityVars, TypeOK, AuthorizationTypeOK
<1>1. ASSUME NEW h \in Human, NEW x \in Agent, Register(h, x)
      PROVE  Grown /\ AgentsAge /\ RowsStay
  <2>1. AgentsAge
    BY <1>1 DEF Register, AgentsAge, TypeOK, AgentRow
  <2> QED
    BY <1>1, <1>ages, <2>1 DEF Register
<1>2. ASSUME NEW h \in Human, NEW x \in Agent, NEW v, Disable(h, x, v)
      PROVE  Grown /\ AgentsAge /\ RowsStay
  <2>1. agents[x] \in AgentRow
    BY <1>2 DEF Disable, OwnedActive, TypeOK
  <2>2. /\ agents'[x] \in AgentRow /\ ~agents'[x].active
        /\ agents'[x].version = agents[x].version + 1
    BY <1>2, <2>1 DEF Disable, TypeOK, AgentRow
  <2>3. \A y \in Agent : y # x => agents'[y] = agents[y]
    BY <1>2 DEF Disable, TypeOK
  <2>4. \A y \in Agent : agents[y] # Null => agents[y].version \in Nat
    BY DEF TypeOK, AgentRow
  <2>5. AgentsAge
    BY <2>1, <2>2, <2>3, <2>4, DelegationsAssumption DEF AgentsAge
  <2> QED
    BY <1>2, <1>ages, <2>5 DEF Disable
<1>3. ASSUME NEW d \in Delegation, NEW x \in Agent, NEW t \in Offer,
             IssueRoot(d, x, t) \/ Delegate(d, x, t)
      PROVE  Grown /\ AgentsAge /\ RowsStay
  <2>1. /\ Insert(d, x, t) /\ UNCHANGED <<agents, revoked, clock>>
        /\ UNCHANGED authorityVars
    BY <1>3 DEF IssueRoot, Delegate
  <2>2. RowsStay
    BY <2>1, InsertedRow DEF RowsStay, Issued
  <2> QED
    BY <1>ages, <2>1, <2>2
<1>4. ASSUME NEW d \in Delegation, NEW h \in Human, NEW v,
             RevokeDelegation(h, d, v)
      PROVE  Grown /\ AgentsAge /\ RowsStay
  <2>1. RowsStay
    BY <1>4 DEF RevokeDelegation, RowsStay, TypeOK, Issued
  <2> QED
    BY <1>4, <1>ages, <2>1 DEF RevokeDelegation
<1>5. ASSUME NEW d \in Delegation, NEW r \in CallId, NEW x \in Resource,
             NEW action \in Action, NEW n \in Name, NEW v, NEW revision,
             Invoke(d, r, x, action, n, v, revision)
      PROVE  Grown /\ AgentsAge /\ RowsStay
  BY <1>5, <1>ages DEF Invoke
<1>6. CASE OwnersStep
  BY <1>6, <1>ages, AuthorizationGrows DEF OwnersStep, delegationVars, TypeOK
<1>7. CASE UNCHANGED vars
  BY <1>7, <1>ages DEF vars, authorityVars, delegationVars
<1> QED
  BY <1>1, <1>2, <1>3, <1>4, <1>5, <1>6, <1>7 DEF Next, DelegationStep

(* A step leaves the rows alone or inserts one. *)
LEMMA OneRowAtMost ==
  ASSUME [Next]_vars, row' # row
  PROVE  \E d \in Delegation, x \in Agent, t \in Offer :
           /\ IssueRoot(d, x, t) \/ Delegate(d, x, t)
           /\ Insert(d, x, t)
           /\ UNCHANGED <<agents, authorityVars>>
<1>1. ~UNCHANGED vars /\ ~OwnersStep
  BY DEF vars, OwnersStep, delegationVars
<1>2. ASSUME NEW h \in Human, NEW x \in Agent, NEW v,
             Register(h, x) \/ Disable(h, x, v)
      PROVE  FALSE
  BY <1>2 DEF Register, Disable
<1>3. ASSUME NEW d \in Delegation, NEW h \in Human, NEW v,
             RevokeDelegation(h, d, v)
      PROVE  FALSE
  BY <1>3 DEF RevokeDelegation
<1>4. ASSUME NEW d \in Delegation, NEW r \in CallId, NEW x \in Resource,
             NEW action \in Action, NEW n \in Name, NEW v, NEW revision,
             Invoke(d, r, x, action, n, v, revision)
      PROVE  FALSE
  BY <1>4 DEF Invoke
<1>5. PICK d \in Delegation, x \in Agent, t \in Offer :
             IssueRoot(d, x, t) \/ Delegate(d, x, t)
  BY <1>1, <1>2, <1>3, <1>4 DEF Next, DelegationStep
<1> QED
  BY <1>5 DEF IssueRoot, Delegate

LEMMA BoundStep == DInv /\ [Next]_vars => BoundInv'
<1> SUFFICES ASSUME DInv, [Next]_vars, NEW d \in Issued'
             PROVE  BoundToThePast(d)'
  BY DEF BoundInv
<1>1. Grown /\ AgentsAge /\ RowsStay
  BY NothingGetsYounger DEF DInv
<1>2. TypeOK' /\ d \in Delegation /\ d.owner \in Human
  BY TypeStep, DelegationShape DEF DInv, Issued
<1>3. CASE d \in Issued
  <2>1. row'[d] = row[d] /\ BoundToThePast(d) /\ row[d] \in Row
    BY <1>1, <1>3 DEF RowsStay, DInv, BoundInv, TypeOK, Issued
  <2>2. agents[row[d].agent] # Null
    BY <1>2, <1>3, ChainMembers DEF DInv, AuthorityOnlyShrinks, Narrower
  <2>3. agents[row[d].agent] \in AgentRow
        /\ agents'[row[d].agent] \in AgentRow
    BY <1>1, <1>2, <2>1, <2>2 DEF AgentsAge, DInv, TypeOK, Row
  <2>4. row[d].agentVersion <= agents'[row[d].agent].version
    BY <1>1, <2>1, <2>2, <2>3 DEF BoundToThePast, AgentsAge, Row, AgentRow
  <2>5. /\ row[d].stamp.auth \in Nat /\ row[d].stamp.membership \in Nat
        /\ row[d].stamp.organization \in Nat /\ row[d].stamp.policy \in Nat
    BY <2>1 DEF Row, Stamps
  <2>6. /\ row[d].stamp.auth <= human'[d.owner].version
        /\ row[d].stamp.membership <= member'[d.owner].version
        /\ row[d].stamp.organization <= org'.version
        /\ row[d].stamp.policy <= policy'.revision
    BY <1>1, <1>2, <2>1, <2>5 DEF BoundToThePast, Grown, DInv, TypeOK,
       AuthorizationTypeOK
  <2> QED
    BY <2>1, <2>4, <2>6 DEF BoundToThePast
<1>4. CASE d \notin Issued
  <2>1. row' # row
    BY <1>4, <1>2 DEF Issued
  <2>2. PICK e \in Delegation, x \in Agent, t \in Offer :
               Insert(e, x, t) /\ UNCHANGED <<agents, authorityVars>>
    BY <2>1, OneRowAtMost
  <2>3. /\ d = e
        /\ row'[d].agent = x /\ row'[d].agentVersion = agents[x].version
        /\ agents[x] \in AgentRow /\ row'[d].stamp = Stamp(d.owner)
    BY <1>2, <1>4, <2>2, InsertedRow DEF Issued, DInv
  <2>4. agents[x].version \in Nat
    BY <2>3 DEF AgentRow
  <2> QED
    BY <1>2, <2>2, <2>3, <2>4 DEF BoundToThePast, Stamp, authorityVars, TypeOK,
       AuthorizationTypeOK
<1> QED
  BY <1>3, <1>4

LEMMA DInvAlways == Spec => []DInv
<1>1. Init => DInv
  BY TypeInit DEF Init, DInv, AuthorityOnlyShrinks, BoundInv, Issued
<1>2. DInv /\ [Next]_vars => DInv'
  BY TypeStep, ShrinksStep, BoundStep DEF DInv
<1> QED
  BY <1>1, <1>2, PTL DEF Spec

LEMMA UnboundForGood ==
  ASSUME DInv, [Next]_vars, NEW d \in Issued, ~StillBound(d)
  PROVE  ~StillBound(d)'
<1> DEFINE x == row[d].agent
<1>1. Grown /\ AgentsAge /\ row'[d] = row[d]
  BY NothingGetsYounger DEF DInv, RowsStay
<1>2. TypeOK' /\ d \in Delegation /\ d.owner \in Human /\ row[d] \in Row
  BY TypeStep, DelegationShape DEF DInv, Issued, TypeOK
<1>3. BoundToThePast(d) /\ agents[x] # Null
  BY ChainMembers DEF DInv, BoundInv, AuthorityOnlyShrinks, Narrower, Issued
<1>4. /\ agents[x] \in AgentRow /\ agents'[x] \in AgentRow
      /\ agents'[x].version >= agents[x].version
      /\ ~agents[x].active => ~agents'[x].active
  BY <1>1, <1>2, <1>3 DEF AgentsAge, DInv, TypeOK, Row
<1>5. CASE ~agents[x].active
  BY <1>1, <1>4, <1>5 DEF StillBound
<1>6. CASE agents[x].version # row[d].agentVersion
  <2>1. row[d].agentVersion < agents'[x].version
    BY <1>2, <1>3, <1>4, <1>6 DEF BoundToThePast, Row, AgentRow
  <2> QED
    BY <1>1, <1>2, <2>1 DEF StillBound, Row
<1>7. CASE row[d].stamp # Stamp(d.owner)
  <2>1. /\ row[d].stamp \in Stamps
        /\ Stamp(d.owner) \in Stamps /\ Stamp(d.owner)' \in Stamps
    BY <1>2 DEF Row, DInv, TypeOK, AuthorizationTypeOK, Stamp, Stamps
  <2>2. \/ row[d].stamp.auth < human[d.owner].version
        \/ row[d].stamp.membership < member[d.owner].version
        \/ row[d].stamp.organization < org.version
        \/ row[d].stamp.policy < policy.revision
    <3>1. \A s, t \in Stamps :
            /\ s.auth = t.auth /\ s.membership = t.membership
            /\ s.organization = t.organization /\ s.policy = t.policy
            => s = t
      BY DEF Stamps
    <3>2. \/ row[d].stamp.auth # human[d.owner].version
          \/ row[d].stamp.membership # member[d.owner].version
          \/ row[d].stamp.organization # org.version
          \/ row[d].stamp.policy # policy.revision
      BY <1>7, <2>1, <3>1 DEF Stamp
    <3>3. /\ row[d].stamp.auth \in Nat /\ human[d.owner].version \in Nat
          /\ row[d].stamp.membership \in Nat
          /\ member[d.owner].version \in Nat
          /\ row[d].stamp.organization \in Nat /\ org.version \in Nat
          /\ row[d].stamp.policy \in Nat /\ policy.revision \in Nat
      BY <1>2, <2>1 DEF Stamps, DInv, TypeOK, AuthorizationTypeOK
    <3> QED
      BY <1>3, <3>2, <3>3 DEF BoundToThePast
  <2>3. row[d].stamp # Stamp(d.owner)'
    BY <1>1, <1>2, <2>1, <2>2 DEF Stamp, Stamps, Grown, DInv, TypeOK,
       AuthorizationTypeOK
  <2> QED
    BY <1>1, <2>3 DEF StillBound
<1> QED
  BY <1>5, <1>6, <1>7 DEF StillBound

LEMMA CutStays ==
  ASSUME DInv, [Next]_vars, NEW d \in Issued, Cut(d)
  PROVE  Cut(d)'
<1>1. PICK e \in Chain(d) :
        revoked[e] \/ ~StillBound(e) \/ row[e].terms.until <= clock
  BY DEF Cut
<1>2. e \in Issued /\ row[e] \in Row
  BY DEF DInv, AuthorityOnlyShrinks, Narrower, TypeOK, Issued
<1>3. /\ row'[e] = row[e]
      /\ revoked[e] => revoked'[e]
      /\ clock' >= clock
      /\ clock \in Nat /\ clock' \in Nat /\ row[e].terms.until \in Nat
  BY <1>2, NothingGetsYounger, TypeStep DEF DInv, RowsStay, Grown, TypeOK,
     AuthorizationTypeOK, Row, Terms
<1>4. ~StillBound(e) => ~StillBound(e)'
  BY <1>2, UnboundForGood
<1>5. \/ revoked'[e] \/ ~StillBound(e)'
      \/ row'[e].terms.until <= clock'
  BY <1>1, <1>3, <1>4
<1> QED
  BY <1>5 DEF Cut

LEMMA LiveIsNotCut ==
  ASSUME TypeOK, NEW d \in Delegation, Live(d)
  PROVE  ~Cut(d)
<1> SUFFICES ASSUME NEW e \in Chain(d)
             PROVE  ~revoked[e] /\ StillBound(e) /\ ~(row[e].terms.until <= clock)
  BY DEF Cut
<1>1. /\ row[e] # Null /\ ~revoked[e] /\ StillBound(e)
      /\ WithinDates(row[e].terms) /\ e \in Delegation
  BY ChainMembers DEF Live
<1>2. row[e].terms.until \in Nat /\ clock \in Nat
  BY <1>1 DEF TypeOK, Row, Terms, AuthorizationTypeOK
<1> QED
  BY <1>1, <1>2 DEF WithinDates

LEMMA CutIsIdle ==
  ASSUME DInv, [Next]_vars, NEW d \in Issued, Cut(d)
  PROVE  UNCHANGED <<used[d], reserved[d], operations[d]>>
<1> USE DEF DInv
<1>0. d \in Delegation
  BY DEF Issued
<1>1. ASSUME NEW h \in Human, NEW x \in Agent, NEW v,
             Register(h, x) \/ Disable(h, x, v)
      PROVE  UNCHANGED <<used[d], reserved[d], operations[d]>>
  BY <1>1 DEF Register, Disable
<1>2. ASSUME NEW e \in Delegation, NEW x \in Agent, NEW t \in Offer,
             IssueRoot(e, x, t)
      PROVE  UNCHANGED <<used[d], reserved[d], operations[d]>>
  BY <1>2 DEF IssueRoot
<1>3. ASSUME NEW e \in Delegation, NEW x \in Agent, NEW t \in Offer,
             Delegate(e, x, t)
      PROVE  UNCHANGED <<used[d], reserved[d], operations[d]>>
  <2>1. Parent(e) \in Delegation /\ Live(Parent(e))
    BY <1>3, ChainOfChild DEF Delegate
  <2>2. d # Parent(e)
    BY <2>1, LiveIsNotCut
  <2> QED
    BY <1>0, <1>3, <2>2 DEF Delegate, Reserve, TypeOK
<1>4. ASSUME NEW e \in Delegation, NEW h \in Human, NEW v,
             RevokeDelegation(h, e, v)
      PROVE  UNCHANGED <<used[d], reserved[d], operations[d]>>
  BY <1>4 DEF RevokeDelegation
<1>5. ASSUME NEW e \in Delegation, NEW r \in CallId, NEW x \in Resource,
             NEW action \in Action, NEW n \in Name, NEW v, NEW revision,
             Invoke(e, r, x, action, n, v, revision)
      PROVE  UNCHANGED <<used[d], reserved[d], operations[d]>>
  <2>1. d # e
    BY <1>5, LiveIsNotCut DEF Invoke
  <2> QED
    BY <1>0, <1>5, <2>1 DEF Invoke, TypeOK
<1>6. CASE OwnersStep
  BY <1>6 DEF OwnersStep, delegationVars
<1>7. CASE UNCHANGED vars
  BY <1>7 DEF vars, delegationVars
<1> QED
  BY <1>1, <1>2, <1>3, <1>4, <1>5, <1>6, <1>7 DEF Next, DelegationStep

(* A delegation that was revoked, has expired, lost its agent or its       *)
(* owner's authority, or hangs below one that did, never becomes valid     *)
(* again and has no further effect.                                        *)
THEOREM CutStaysCut == Spec => CutForGood
<1>1. DInv /\ [Next]_vars =>
        [\A d \in Issued : Cut(d) =>
           /\ Cut(d)'
           /\ UNCHANGED <<used[d], reserved[d], operations[d]>>]_vars
  BY CutStays, CutIsIdle
<1> QED
  BY <1>1, DInvAlways, PTL DEF Spec, CutForGood

-----------------------------------------------------------------------------
(* Effects. *)

CallsAreDelegated ==
  \A d \in Delegation, r \in CallId :
    operations'[d][r] # operations[d][r] =>
      LET c == operations'[d][r] IN
      /\ operations[d][r] = Null
      /\ Authority(d.owner) /\ Reads(d.owner)
      /\ c.action = "resource.update" => Writes(d.owner, c.resource) = "allow"
      /\ ~Cut(d)
      /\ \A e \in Chain(d) :
           /\ row[e].terms.from <= clock
           /\ c.action \in row[e].terms.scope[c.resource]
      /\ c.version = resource[c.resource].version
                       + (IF c.action = "resource.update" THEN 1 ELSE 0)

ChangesAreAccounted ==
  \A x \in Resource : resource'[x] # resource[x] =>
    \/ \E h \in Human : Actor(h) /\ Writes(h, x) = "allow"
    \/ \E d \in Delegation, r \in CallId :
         /\ operations'[d][r] # operations[d][r]
         /\ operations'[d][r] = [resource |-> x, action |-> "resource.update",
                                 version |-> resource'[x].version]

LEMMA InvokeIsDelegated ==
  ASSUME TypeOK, NEW d \in Delegation, NEW r \in CallId, NEW x \in Resource,
         NEW action \in Action, NEW n \in Name, NEW v, NEW revision,
         Invoke(d, r, x, action, n, v, revision)
  PROVE  CallsAreDelegated /\ ChangesAreAccounted
<1> DEFINE c == [resource |-> x, action |-> action,
                 version |-> resource'[x].version]
<1>1. /\ operations[d][r] = Null
      /\ operations' = [operations EXCEPT ![d][r] = c]
  BY DEF Invoke
<1>2. resource' \in [Resource -> [version: Nat, name: Name]]
  BY ResourceType DEF Invoke, TypeOK, AuthorizationTypeOK
<1>3. c \in Call /\ c # Null
  BY <1>2, DelegationsAssumption DEF Call
<1>4. /\ operations'[d][r] = c
      /\ \A e \in Delegation, q \in CallId :
           operations'[e][q] # operations[e][q] => e = d /\ q = r
  BY <1>1 DEF TypeOK
<1>5. CallsAreDelegated
  <2>1. Authority(d.owner) /\ Reads(d.owner)
    BY DEF Invoke, Live, OwnerMay
  <2>2. action = "resource.update" => Writes(d.owner, x) = "allow"
    BY DEF Invoke, OwnerMay
  <2>3. ~Cut(d)
    BY LiveIsNotCut DEF Invoke
  <2>4. \A e \in Chain(d) : /\ row[e].terms.from <= clock
                            /\ action \in row[e].terms.scope[x]
    BY DEF Invoke, Live, WithinDates
  <2>5. resource'[x].version = resource[x].version
                                 + (IF action = "resource.update" THEN 1 ELSE 0)
    BY <1>2 DEF Invoke, ResourceRow, TypeOK, AuthorizationTypeOK
  <2> QED
    BY <1>1, <1>4, <2>1, <2>2, <2>3, <2>4, <2>5 DEF CallsAreDelegated
<1>6. ChangesAreAccounted
  <2> SUFFICES ASSUME NEW y \in Resource, resource'[y] # resource[y]
               PROVE  y = x /\ action = "resource.update"
    BY <1>1, <1>3, <1>4 DEF ChangesAreAccounted
  <2> QED
    BY DEF Invoke, ResourceRow, TypeOK, AuthorizationTypeOK
<1> QED
  BY <1>5, <1>6

LEMMA RenameIsAllowed ==
  ASSUME TypeOK, AuthorizationStep,
         NEW x \in Resource, resource'[x] # resource[x]
  PROVE  \E h \in Human : Actor(h) /\ Writes(h, x) = "allow"
<1>1. PICK h \in Human, y \in Resource, n \in Name : DirectRename(h, y, n)
  BY DEF AuthorizationStep, HumanRow, MembershipRow, PolicyRow, RuleTurns,
     SessionOpens, SessionEnds, OrganizationRow, TimePasses
<1>2. x = y
  BY <1>1 DEF DirectRename, ResourceRow, TypeOK, AuthorizationTypeOK
<1> QED
  BY <1>1, <1>2 DEF DirectRename, CanRename

(* Whatever an agent does, its accountable owner may do outright at that   *)
(* moment and everything above it grants; nothing else but a person's own  *)
(* rename changes a resource.                                              *)
THEOREM EffectsAlwaysDelegated == Spec => EffectsAreDelegated
<1>1. TypeOK /\ [Next]_vars =>
        [CallsAreDelegated /\ ChangesAreAccounted]_vars
  <2> SUFFICES ASSUME TypeOK, Next
               PROVE  CallsAreDelegated /\ ChangesAreAccounted
    OBVIOUS
  <2>idle. UNCHANGED <<operations, resource>>
             => CallsAreDelegated /\ ChangesAreAccounted
    BY DEF CallsAreDelegated, ChangesAreAccounted
  <2>1. ASSUME NEW h \in Human, NEW x \in Agent, NEW v,
               Register(h, x) \/ Disable(h, x, v)
        PROVE  CallsAreDelegated /\ ChangesAreAccounted
    BY <2>1, <2>idle DEF Register, Disable
  <2>2. ASSUME NEW d \in Delegation, NEW x \in Agent, NEW t \in Offer,
               IssueRoot(d, x, t) \/ Delegate(d, x, t)
        PROVE  CallsAreDelegated /\ ChangesAreAccounted
    BY <2>2, <2>idle DEF IssueRoot, Delegate
  <2>3. ASSUME NEW d \in Delegation, NEW h \in Human, NEW v,
               RevokeDelegation(h, d, v)
        PROVE  CallsAreDelegated /\ ChangesAreAccounted
    BY <2>3, <2>idle DEF RevokeDelegation
  <2>4. CASE OwnersStep
    <3>1. AuthorizationStep /\ UNCHANGED operations
      BY <2>4 DEF OwnersStep, delegationVars
    <3> QED
      BY <3>1, RenameIsAllowed DEF CallsAreDelegated, ChangesAreAccounted
  <2> QED
    BY <2>1, <2>2, <2>3, <2>4, InvokeIsDelegated DEF Next, DelegationStep
<1> QED
  BY <1>1, TypeCorrect, PTL DEF Spec, EffectsAreDelegated, CallsAreDelegated,
     ChangesAreAccounted

-----------------------------------------------------------------------------
(* Sums.  MapThenSumSet adds in an order that CHOOSE fixes; that the order  *)
(* does not matter, and what one more or one different element does to a    *)
(* sum, is shown by the least counterexample, among numbers or finite sets. *)

Sum(f, S) == MapThenSumSet(LAMBDA x : f[x], S)

Pick(s) == CHOOSE x \in s : TRUE
Sums(g, f, S) ==
  g = [s \in SUBSET S |-> IF s = {} THEN 0 ELSE f[Pick(s)] + g[s \ {Pick(s)}]]

LEMMA LeastNumber ==
  ASSUME NEW S \in SUBSET Nat, S # {}
  PROVE  \E x \in S : \A y \in S : x <= y
<1>1. PICK x \in S : \A y \in S : ~(<<y, x>> \in OpToRel(<, Nat))
  BY NatLessThanWellFounded, WFMin
<1>2. ASSUME NEW y \in S PROVE x <= y
  <2>1. y \in Nat /\ x \in Nat
    OBVIOUS
  <2>2. CASE y < x
    <3>1. <<y, x>> \in {ss \in Nat \X Nat : ss[1] < ss[2]}
      BY <2>1, <2>2
    <3> QED BY <1>1, <3>1 DEF OpToRel
  <2> QED BY <2>1, <2>2
<1> QED BY <1>2

LEMMA SmallestSet ==
  ASSUME NEW U, IsFiniteSet(U), NEW B \in SUBSET (SUBSET U), B # {}
  PROVE  \E s \in B : \A x \in s : s \ {x} \notin B
<1>1. \A s \in SUBSET U : IsFiniteSet(s) /\ Cardinality(s) \in Nat
  BY FS_Subset, FS_CardinalityType
<1>2. {Cardinality(s) : s \in B} \in SUBSET Nat /\ {Cardinality(s) : s \in B} # {}
  BY <1>1
<1>3. PICK n \in {Cardinality(s) : s \in B} : \A m \in {Cardinality(s) : s \in B} : n <= m
  BY <1>2, LeastNumber
<1>4. PICK s \in B : n = Cardinality(s)
  BY <1>3
<1>5. ASSUME NEW x \in s, s \ {x} \in B PROVE FALSE
  <2>1. Cardinality(s \ {x}) = Cardinality(s) - 1
    BY <1>1, FS_RemoveElement
  <2>2. Cardinality(s) <= Cardinality(s \ {x})
    BY <1>3, <1>4, <1>5
  <2> QED BY <1>1, <2>1, <2>2
<1> QED BY <1>5

LEMMA PickInside ==
  ASSUME NEW s, s # {}
  PROVE  Pick(s) \in s
BY DEF Pick

LEMMA SumsExist ==
  ASSUME NEW U, IsFiniteSet(U), NEW f
  PROVE  \E g : Sums(g, f, U)
<1> DEFINE Small(n) == {s \in SUBSET U : Cardinality(s) <= n}
           Upto(g, n) == g = [s \in Small(n) |-> IF s = {} THEN 0 ELSE f[Pick(s)] + g[s \ {Pick(s)}]]
           Bad == {n \in Nat : ~\E g : Upto(g, n)}
<1>1. \A s \in SUBSET U : IsFiniteSet(s) /\ Cardinality(s) \in Nat
  BY FS_Subset, FS_CardinalityType
<1>2. \A s \in SUBSET U : s # {} => Cardinality(s \ {Pick(s)}) = Cardinality(s) - 1
  BY <1>1, PickInside, FS_RemoveElement
<1>3. 0 \notin Bad
  <2>1. \A s \in Small(0) : s = {}
    BY <1>1, FS_EmptySet
  <2>2. PICK g : g = [s \in Small(0) |-> 0]
    OBVIOUS
  <2>3. Upto(g, 0)
    BY <2>1, <2>2
  <2> QED BY <2>3
<1>4. ASSUME NEW n \in Nat, n \notin Bad PROVE n + 1 \notin Bad
  <2>1. PICK g : Upto(g, n)
    BY <1>4
  <2>2. PICK h : h = [s \in Small(n + 1) |-> IF s = {} THEN 0 ELSE f[Pick(s)] + g[s \ {Pick(s)}]]
    OBVIOUS
  <2>3. \A s \in Small(n) : h[s] = g[s] /\ s \in Small(n + 1)
    <3>1. \A s \in Small(n) : s \in Small(n + 1)
      BY <1>1
    <3>2. \A s \in Small(n) : g[s] = IF s = {} THEN 0 ELSE f[Pick(s)] + g[s \ {Pick(s)}]
      BY <2>1
    <3> HIDE DEF Small
    <3> QED BY <2>2, <3>1, <3>2
  <2>4. \A s \in Small(n + 1) : s # {} => s \ {Pick(s)} \in Small(n)
    BY <1>1, <1>2
  <2>5. Upto(h, n + 1)
    <3> HIDE DEF Small
    <3>1. \A s \in Small(n + 1) : s # {} => g[s \ {Pick(s)}] = h[s \ {Pick(s)}]
      BY <2>3, <2>4
    <3> QED BY <2>2, <3>1
  <2> QED BY <2>5
<1> HIDE DEF Bad
<1>5. Bad = {}
  <2> SUFFICES ASSUME Bad # {} PROVE FALSE
    OBVIOUS
  <2>1. Bad \in SUBSET Nat
    BY DEF Bad
  <2>2. PICK n \in Bad : \A m \in Bad : n <= m
    BY <2>1, LeastNumber
  <2>3. n \in Nat /\ n # 0 /\ n - 1 \in Nat /\ n - 1 \notin Bad
    BY <1>3, <2>1, <2>2
  <2>4. (n - 1) + 1 \notin Bad /\ (n - 1) + 1 = n
    BY <1>4, <2>3
  <2> QED BY <2>2, <2>4
<1>6. Cardinality(U) \in Nat
  BY <1>1
<1>7. Small(Cardinality(U)) = SUBSET U
  BY FS_Subset
<1>8. \E g : Upto(g, Cardinality(U))
  BY <1>5, <1>6 DEF Bad
<1> QED BY <1>7, <1>8 DEF Sums

LEMMA SumsTyped ==
  ASSUME NEW U, IsFiniteSet(U), NEW f, \A x \in U : f[x] \in Nat, NEW g, Sums(g, f, U)
  PROVE  \A s \in SUBSET U : g[s] \in Nat
<1> DEFINE B == {s \in SUBSET U : g[s] \notin Nat}
<1> SUFFICES ASSUME B # {} PROVE FALSE
  OBVIOUS
<1>1. PICK s \in B : \A x \in s : s \ {x} \notin B
  <2> B \in SUBSET (SUBSET U)
    OBVIOUS
  <2> HIDE DEF B
  <2> QED BY SmallestSet
<1>2. s \in SUBSET U /\ g[s] = IF s = {} THEN 0 ELSE f[Pick(s)] + g[s \ {Pick(s)}]
  BY <1>1 DEF Sums
<1>3. s # {}
  BY <1>1, <1>2
<1>4. Pick(s) \in s
  BY <1>3, PickInside
<1>5. g[s \ {Pick(s)}] \in Nat
  BY <1>1, <1>2, <1>4
<1> QED BY <1>1, <1>2, <1>3, <1>4, <1>5

LEMMA SumsAnyOrder ==
  ASSUME NEW U, IsFiniteSet(U), NEW f, \A x \in U : f[x] \in Nat, NEW g, Sums(g, f, U)
  PROVE  \A s \in SUBSET U : \A x \in s : g[s] = f[x] + g[s \ {x}]
<1> DEFINE B == {s \in SUBSET U : \E x \in s : g[s] # f[x] + g[s \ {x}]}
<1> SUFFICES ASSUME B # {} PROVE FALSE
  OBVIOUS
<1>1. PICK s \in B : \A x \in s : s \ {x} \notin B
  <2> B \in SUBSET (SUBSET U)
    OBVIOUS
  <2> HIDE DEF B
  <2> QED BY SmallestSet
<1>2. PICK x \in s : g[s] # f[x] + g[s \ {x}]
  BY <1>1
<1>3. PICK c : c = Pick(s)
  OBVIOUS
<1>4. s \in SUBSET U /\ c \in s /\ g[s] = f[c] + g[s \ {c}]
  BY <1>1, <1>2, <1>3, PickInside DEF Sums
<1>5. c # x
  BY <1>2, <1>4
<1>6. PICK cs, xs, b : cs = s \ {c} /\ xs = s \ {x} /\ b = (s \ {c}) \ {x}
  OBVIOUS
<1>7. cs \in SUBSET U /\ xs \in SUBSET U /\ b \in SUBSET U /\ x \in cs /\ c \in xs /\ cs \ {x} = b /\ xs \ {c} = b
  BY <1>4, <1>5, <1>6
<1>8. g[cs] = f[x] + g[b]
  BY <1>1, <1>4, <1>6, <1>7
<1>9. g[xs] = f[c] + g[b]
  BY <1>1, <1>2, <1>6, <1>7
<1>10. g[b] \in Nat /\ f[c] \in Nat /\ f[x] \in Nat
  BY <1>4, <1>7, SumsTyped
<1> QED BY <1>2, <1>4, <1>6, <1>8, <1>9, <1>10

LEMMA SumsAgree ==
  ASSUME NEW U, IsFiniteSet(U), NEW V \in SUBSET U, NEW f, NEW e, \A x \in V : f[x] = e[x],
         NEW g, NEW h, Sums(g, f, U), Sums(h, e, V)
  PROVE  \A s \in SUBSET V : g[s] = h[s]
<1> DEFINE B == {s \in SUBSET V : g[s] # h[s]}
<1> SUFFICES ASSUME B # {} PROVE FALSE
  OBVIOUS
<1>1. PICK s \in B : \A x \in s : s \ {x} \notin B
  <2> B \in SUBSET (SUBSET V)
    OBVIOUS
  <2> IsFiniteSet(V)
    BY FS_Subset
  <2> HIDE DEF B
  <2> QED BY SmallestSet
<1>2. s \in SUBSET U /\ s \in SUBSET V
  BY <1>1
<1>3. g[s] = (IF s = {} THEN 0 ELSE f[Pick(s)] + g[s \ {Pick(s)}])
  BY <1>2 DEF Sums
<1>4. h[s] = (IF s = {} THEN 0 ELSE e[Pick(s)] + h[s \ {Pick(s)}])
  BY <1>2 DEF Sums
<1>5. s # {}
  BY <1>1, <1>3, <1>4
<1>6. Pick(s) \in s /\ g[s \ {Pick(s)}] = h[s \ {Pick(s)}]
  BY <1>1, <1>2, <1>5, PickInside
<1> QED BY <1>1, <1>2, <1>3, <1>4, <1>5, <1>6

LEMMA SumIs ==
  ASSUME NEW U, IsFiniteSet(U), NEW f
  PROVE  \E g : Sums(g, f, U) /\ Sum(f, U) = g[U]
<1>1. Sum(f, U) = (CHOOSE g : g = [s \in SUBSET U |-> IF s = {} THEN 0
                     ELSE f[CHOOSE x \in s : TRUE] + g[s \ {CHOOSE x \in s : TRUE}]])[U]
  BY DEF Sum, MapThenSumSet, MapThenFoldSet
<1>2. Sum(f, U) = (CHOOSE g : Sums(g, f, U))[U]
  BY <1>1 DEF Sums, Pick
<1> QED BY <1>2, SumsExist

LEMMA SumOfNone ==
  ASSUME NEW f
  PROVE  Sum(f, {}) = 0
<1>1. PICK g : Sums(g, f, {}) /\ Sum(f, {}) = g[{}]
  BY FS_EmptySet, SumIs
<1> QED BY <1>1 DEF Sums

LEMMA SumType ==
  ASSUME NEW S, IsFiniteSet(S), NEW f, \A x \in S : f[x] \in Nat
  PROVE  Sum(f, S) \in Nat
BY SumIs, SumsTyped

(* A sum depends on its terms only.                                         *)
LEMMA SumSame ==
  ASSUME NEW S, IsFiniteSet(S), NEW f, NEW e, \A x \in S : f[x] = e[x]
  PROVE  Sum(f, S) = Sum(e, S)
<1>1. PICK g : Sums(g, f, S) /\ Sum(f, S) = g[S]
  BY SumIs
<1>2. PICK h : Sums(h, e, S) /\ Sum(e, S) = h[S]
  BY SumIs
<1>3. \A s \in SUBSET S : g[s] = h[s]
  <2>1. S \in SUBSET S
    OBVIOUS
  <2> QED BY <1>1, <1>2, <2>1, SumsAgree
<1> QED BY <1>1, <1>2, <1>3

(* One more element adds its term.                                          *)
LEMMA SumAdds ==
  ASSUME NEW S, IsFiniteSet(S), NEW x, x \notin S, NEW f, \A y \in S \cup {x} : f[y] \in Nat
  PROVE  Sum(f, S \cup {x}) = f[x] + Sum(f, S)
<1> DEFINE U == S \cup {x}
<1>1. IsFiniteSet(U) /\ S \in SUBSET U /\ U \ {x} = S /\ x \in U /\ U \in SUBSET U
  BY FS_AddElement
<1> HIDE DEF U
<1>2. PICK g : Sums(g, f, U) /\ Sum(f, U) = g[U]
  BY <1>1, SumIs
<1>3. PICK h : Sums(h, f, S) /\ Sum(f, S) = h[S]
  BY SumIs
<1>4. g[S] = h[S]
  BY <1>1, <1>2, <1>3, SumsAgree
<1>5. g[U] = f[x] + g[S]
  <2>1. \A y \in U : f[y] \in Nat
    BY DEF U
  <2> QED BY <1>1, <1>2, <2>1, SumsAnyOrder
<1> QED BY <1>2, <1>3, <1>4, <1>5 DEF U

(* One term more by one makes the sum more by one.                          *)
LEMMA SumCounts ==
  ASSUME NEW S, IsFiniteSet(S), NEW x \in S, NEW f, NEW e, \A y \in S : f[y] \in Nat,
         \A y \in S \ {x} : e[y] = f[y], e[x] = f[x] + 1
  PROVE  Sum(e, S) = Sum(f, S) + 1
<1> DEFINE T == S \ {x}
<1>1. IsFiniteSet(T) /\ x \notin T /\ S = T \cup {x}
  BY FS_RemoveElement
<1>2. \A y \in S : e[y] \in Nat
  OBVIOUS
<1>3. \A y \in T : f[y] \in Nat /\ e[y] = f[y]
  OBVIOUS
<1> HIDE DEF T
<1>4. Sum(f, S) = f[x] + Sum(f, T) /\ Sum(e, S) = e[x] + Sum(e, T)
  BY <1>1, <1>2, SumAdds
<1>5. Sum(f, T) = Sum(e, T) /\ Sum(f, T) \in Nat
  BY <1>1, <1>3, SumSame, SumType
<1> QED BY <1>4, <1>5

(* Greater terms make a greater sum.                                        *)
LEMMA SumGrows ==
  ASSUME NEW S, IsFiniteSet(S), NEW f, NEW e, \A x \in S : f[x] \in Nat /\ e[x] \in Nat /\ f[x] <= e[x]
  PROVE  Sum(f, S) <= Sum(e, S)
<1>1. PICK g : Sums(g, f, S) /\ Sum(f, S) = g[S]
  BY SumIs
<1>2. PICK h : Sums(h, e, S) /\ Sum(e, S) = h[S]
  BY SumIs
<1> DEFINE B == {s \in SUBSET S : ~(g[s] <= h[s])}
<1> SUFFICES ASSUME B # {} PROVE FALSE
  BY <1>1, <1>2
<1>3. PICK s \in B : \A x \in s : s \ {x} \notin B
  <2> B \in SUBSET (SUBSET S)
    OBVIOUS
  <2> HIDE DEF B
  <2> QED BY SmallestSet
<1>4. s \in SUBSET S
  BY <1>3
<1>5. g[s] = (IF s = {} THEN 0 ELSE f[Pick(s)] + g[s \ {Pick(s)}])
  BY <1>1, <1>4 DEF Sums
<1>6. h[s] = (IF s = {} THEN 0 ELSE e[Pick(s)] + h[s \ {Pick(s)}])
  BY <1>2, <1>4 DEF Sums
<1>7. s # {}
  BY <1>3, <1>5, <1>6
<1>8. Pick(s) \in s
  BY <1>7, PickInside
<1>9. g[s \ {Pick(s)}] \in Nat /\ h[s \ {Pick(s)}] \in Nat /\ g[s \ {Pick(s)}] <= h[s \ {Pick(s)}]
  BY <1>1, <1>2, <1>3, <1>4, <1>8, SumsTyped
<1> QED BY <1>3, <1>4, <1>5, <1>6, <1>7, <1>8, <1>9

-----------------------------------------------------------------------------
(* Budgets. *)

(* What the children of a delegation have been given together, as the       *)
(* property states it and as the lemmas on sums speak of it.                *)
LEMMA GivenTogether ==
  ASSUME NEW S \in SUBSET Issued, IsFiniteSet(S), Issued \subseteq Delegation
  PROVE  MapThenSumSet(LAMBDA c : row[c].terms.calls, S) = Sum(CallsGiven, S)
<1> DEFINE Is(g) == g = [s \in SUBSET S |-> IF s = {} THEN 0 ELSE row[Pick(s)].terms.calls + g[s \ {Pick(s)}]]
<1>1. MapThenSumSet(LAMBDA c : row[c].terms.calls, S) = (CHOOSE g : Is(g))[S]
  BY DEF MapThenSumSet, MapThenFoldSet, Pick
<1>2. \A s \in SUBSET S : s # {} => CallsGiven[Pick(s)] = row[Pick(s)].terms.calls
  BY PickInside DEF CallsGiven
<1>3. \A g : Is(g) <=> Sums(g, CallsGiven, S)
  BY <1>2 DEF Sums
<1>4. Sums((CHOOSE g : Is(g)), CallsGiven, S)
  <2>1. \E g : Is(g)
    BY <1>3, SumsExist
  <2> HIDE DEF Is
  <2>2. Is(CHOOSE g : Is(g))
    BY <2>1
  <2> QED BY <1>3, <2>2
<1>5. PICK h : Sums(h, CallsGiven, S) /\ Sum(CallsGiven, S) = h[S]
  BY SumIs
<1> HIDE DEF Is
<1>6. S \in SUBSET S
  OBVIOUS
<1> QED BY <1>1, <1>4, <1>5, <1>6, SumsAgree

(* What the row issue() inserts adds to every set of delegations.           *)
LEMMA OneMoreChild ==
  ASSUME DInv, NEW d \in Delegation, NEW x \in Agent, NEW t \in Offer, Insert(d, x, t)
  PROVE  /\ d \notin Issued /\ Issued' = Issued \cup {d}
         /\ CallsGiven'[d] = t.calls /\ t.calls \in Nat \ {0}
         /\ \A e \in Delegation : e # d => CallsGiven'[e] = CallsGiven[e]
         /\ Children(d) = {}
         /\ \A e \in Delegation :
              Children(e)' = IF Depth(d) > 1 /\ Parent(d) = e THEN Children(e) \cup {d} ELSE Children(e)
<1>1. /\ row[d] = Null /\ row'[d] # Null /\ row'[d].terms = t
      /\ \A e \in Delegation : e # d => row'[e] = row[e]
  BY InsertedRow DEF DInv
<1>2. t \in Terms /\ ValidTerms(t)
  BY InsertedRow DEF DInv
<1>3. t.calls \in Nat \ {0}
  BY <1>2 DEF Terms, ValidTerms
<1>4. d \notin Issued /\ Issued' = Issued \cup {d}
  BY <1>1 DEF Issued
<1>5. CallsGiven'[d] = t.calls /\ \A e \in Delegation : e # d => CallsGiven'[e] = CallsGiven[e]
  BY <1>1, <1>4 DEF CallsGiven, Issued
<1>6. \A e \in Delegation :
        Children(e)' = IF Depth(d) > 1 /\ Parent(d) = e THEN Children(e) \cup {d} ELSE Children(e)
  BY <1>4 DEF Children
<1>7. Children(d) = {}
  <2> SUFFICES ASSUME NEW c \in Children(d) PROVE FALSE
    OBVIOUS
  <2>1. c \in Issued /\ c \in Delegation /\ Depth(c) > 1 /\ Parent(c) = d
    BY DEF Children, Issued
  <2>2. d \in Chain(c)
    BY <2>1, ChainOfChild, ChainMembers
  <2> QED BY <1>4, <2>1, <2>2 DEF DInv, AuthorityOnlyShrinks, Narrower
<1> QED BY <1>3, <1>4, <1>5, <1>6, <1>7

Budget(d) ==
  /\ reserved[d] = Sum(CallsGiven, Children(d))
  /\ edition[d] = 1 + Cardinality(Children(d)) + used[d] + (IF revoked[d] THEN 1 ELSE 0)

BudgetInv == IsFiniteSet(Issued) /\ \A d \in Issued : Budget(d)

LEMMA FewChildren ==
  ASSUME BudgetInv, NEW d
  PROVE  IsFiniteSet(Children(d)) /\ Cardinality(Children(d)) \in Nat
BY FS_Subset, FS_CardinalityType DEF BudgetInv, Children

LEMMA BudgetInsert ==
  ASSUME DInv, PaidInv, BudgetInv, NEW d \in Delegation, NEW x \in Agent, NEW t \in Offer,
         IssueRoot(d, x, t) \/ Delegate(d, x, t)
  PROVE  BudgetInv'
<1>1. Insert(d, x, t) /\ UNCHANGED <<used, revoked>>
  BY DEF IssueRoot, Delegate
<1>2. /\ d \notin Issued /\ Issued' = Issued \cup {d}
      /\ CallsGiven'[d] = t.calls /\ t.calls \in Nat \ {0}
      /\ \A e \in Delegation : e # d => CallsGiven'[e] = CallsGiven[e]
      /\ Children(d) = {}
      /\ \A e \in Delegation :
           Children(e)' = IF Depth(d) > 1 /\ Parent(d) = e THEN Children(e) \cup {d} ELSE Children(e)
  BY <1>1, OneMoreChild
<1>3. IsFiniteSet(Issued')
  BY <1>2, FS_AddElement DEF BudgetInv
<1>4. \A c \in Issued : c \in Delegation /\ CallsGiven[c] \in Nat
  BY DEF Issued, CallsGiven, DInv, TypeOK, Row, Terms
<1>5. Budget(d)'
  <2>1. Children(d)' = {}
    BY <1>2, ChainOfChild
  <2>2. /\ row[d] = Null /\ used[d] = 0 /\ reserved[d] = 0 /\ ~revoked[d]
    BY <1>2 DEF PaidInv, Paid, Issued
  <2>3. reserved'[d] = 0 /\ edition'[d] = 1
    <3>1. CASE IssueRoot(d, x, t)
      BY <2>2, <3>1 DEF IssueRoot, DInv, TypeOK
    <3>2. CASE Delegate(d, x, t)
      <4>1. Parent(d) # d
        BY <3>2, ChainOfChild DEF Delegate
      <4> QED BY <2>2, <3>2, <4>1 DEF Delegate, Reserve, DInv, TypeOK
    <3> QED BY <3>1, <3>2
  <2>4. Sum(CallsGiven', {}) = 0 /\ Cardinality({}) = 0
    BY SumOfNone, FS_EmptySet
  <2> QED BY <1>1, <2>1, <2>2, <2>3, <2>4 DEF Budget
<1>6. ASSUME NEW e \in Issued PROVE Budget(e)'
  <2>1. Budget(e) /\ e \in Delegation /\ e # d /\ IsFiniteSet(Children(e)) /\ Cardinality(Children(e)) \in Nat
    BY <1>2, <1>4, <1>6, FewChildren DEF BudgetInv
  <2>2. \A c \in Children(e) : c # d /\ CallsGiven'[c] = CallsGiven[c] /\ CallsGiven[c] \in Nat
    BY <1>2, <1>4 DEF Children
  <2>3. Sum(CallsGiven', Children(e)) = Sum(CallsGiven, Children(e))
    BY <2>1, <2>2, SumSame
  <2>4. edition[e] \in Nat /\ used[e] \in Nat /\ reserved[e] \in Nat
    BY <2>1 DEF DInv, TypeOK
  <2>5. CASE Depth(d) > 1 /\ Parent(d) = e
    <3>1. Delegate(d, x, t)
      BY <2>5 DEF IssueRoot
    <3>2. reserved'[e] = reserved[e] + t.calls /\ edition'[e] = edition[e] + 1
      BY <2>1, <2>5, <3>1 DEF Delegate, Reserve, DInv, TypeOK
    <3>3. Children(e)' = Children(e) \cup {d} /\ d \notin Children(e)
      BY <1>2, <2>1, <2>2, <2>5
    <3>a. \A c \in Children(e) \cup {d} : CallsGiven'[c] \in Nat
      BY <1>2, <2>2
    <3>4. Sum(CallsGiven', Children(e) \cup {d}) = t.calls + Sum(CallsGiven', Children(e))
      <4>1. PICK f : f = CallsGiven'
        OBVIOUS
      <4>2. Sum(f, Children(e) \cup {d}) = f[d] + Sum(f, Children(e))
        BY <2>1, <3>3, <3>a, <4>1, SumAdds
      <4> QED BY <1>2, <4>1, <4>2
    <3>5. Cardinality(Children(e) \cup {d}) = Cardinality(Children(e)) + 1
      BY <2>1, <3>3, FS_AddElement
    <3>6. reserved'[e] = Sum(CallsGiven', Children(e)')
      BY <1>2, <2>1, <2>3, <2>4, <3>2, <3>3, <3>4 DEF Budget
    <3> QED BY <1>1, <2>1, <2>4, <3>2, <3>3, <3>5, <3>6 DEF Budget
  <2>6. CASE ~(Depth(d) > 1 /\ Parent(d) = e)
    <3>1. Children(e)' = Children(e)
      BY <1>2, <2>1, <2>6
    <3>2. reserved'[e] = reserved[e] /\ edition'[e] = edition[e]
      BY <2>1, <2>6 DEF IssueRoot, Delegate, Reserve, DInv, TypeOK
    <3> QED BY <1>1, <2>1, <2>3, <3>1, <3>2 DEF Budget
  <2> QED BY <2>5, <2>6
<1> QED BY <1>2, <1>3, <1>5, <1>6 DEF BudgetInv

LEMMA BudgetStep == DInv /\ PaidInv /\ BudgetInv /\ [Next]_vars => BudgetInv'
<1> SUFFICES ASSUME DInv, PaidInv, BudgetInv, [Next]_vars PROVE BudgetInv'
  OBVIOUS
<1>typed. /\ used \in [Delegation -> Nat] /\ edition \in [Delegation -> Nat]
          /\ revoked \in [Delegation -> BOOLEAN]
          /\ \A d \in Issued : d \in Delegation /\ Cardinality(Children(d)) \in Nat
  BY FewChildren DEF DInv, TypeOK, Issued
<1>same. ASSUME UNCHANGED <<row, reserved>>,
                \A d \in Issued : edition'[d] + used[d] + (IF revoked[d] THEN 1 ELSE 0)
                                  = edition[d] + used'[d] + (IF revoked'[d] THEN 1 ELSE 0),
                used' \in [Delegation -> Nat], edition' \in [Delegation -> Nat]
         PROVE  BudgetInv'
  <2>1. Issued' = Issued /\ CallsGiven' = CallsGiven
    BY <1>same DEF Issued, CallsGiven
  <2>2. ASSUME NEW d \in Issued PROVE Budget(d)'
    <3>1. Children(d)' = Children(d)
      BY <2>1 DEF Children
    <3>2. Budget(d)
      BY DEF BudgetInv
    <3>3. PICK n \in Nat : n = Cardinality(Children(d))
      BY <1>typed
    <3>4. /\ edition[d] \in Nat /\ edition'[d] \in Nat /\ used[d] \in Nat /\ used'[d] \in Nat
          /\ edition'[d] + used[d] + (IF revoked[d] THEN 1 ELSE 0)
               = edition[d] + used'[d] + (IF revoked'[d] THEN 1 ELSE 0)
          /\ edition[d] = 1 + n + used[d] + (IF revoked[d] THEN 1 ELSE 0)
      BY <1>same, <1>typed, <3>2, <3>3 DEF Budget
    <3>5. edition'[d] = 1 + n + used'[d] + (IF revoked'[d] THEN 1 ELSE 0)
      BY <3>4
    <3> QED BY <1>same, <2>1, <3>1, <3>2, <3>3, <3>5 DEF Budget
  <2> QED BY <2>1, <2>2 DEF BudgetInv
<1>idle. ASSUME UNCHANGED <<row, reserved, used, edition, revoked>> PROVE BudgetInv'
  BY <1>idle, <1>same, <1>typed
<1>1. ASSUME NEW h \in Human, NEW x \in Agent, NEW v, Register(h, x) \/ Disable(h, x, v)
      PROVE  BudgetInv'
  BY <1>1, <1>idle DEF Register, Disable
<1>2. ASSUME NEW d \in Delegation, NEW x \in Agent, NEW t \in Offer,
             IssueRoot(d, x, t) \/ Delegate(d, x, t)
      PROVE  BudgetInv'
  BY <1>2, BudgetInsert
<1>3. ASSUME NEW d \in Delegation, NEW h \in Human, NEW v, RevokeDelegation(h, d, v)
      PROVE  BudgetInv'
  <2>1. /\ UNCHANGED <<row, reserved, used>> /\ ~revoked[d]
        /\ revoked' = [revoked EXCEPT ![d] = TRUE] /\ edition' = [edition EXCEPT ![d] = @ + 1]
    BY <1>3 DEF RevokeDelegation
  <2>2. edition' \in [Delegation -> Nat]
    BY <1>typed, <2>1
  <2> QED BY <1>same, <1>typed, <2>1, <2>2
<1>4. ASSUME NEW d \in Delegation, NEW r \in CallId, NEW x \in Resource,
             NEW action \in Action, NEW n \in Name, NEW v, NEW revision,
             Invoke(d, r, x, action, n, v, revision)
      PROVE  BudgetInv'
  <2>1. /\ UNCHANGED <<row, reserved, revoked>>
        /\ used' = [used EXCEPT ![d] = @ + 1] /\ edition' = [edition EXCEPT ![d] = @ + 1]
    BY <1>4 DEF Invoke
  <2>2. edition' \in [Delegation -> Nat] /\ used' \in [Delegation -> Nat]
    BY <1>typed, <2>1
  <2> QED BY <1>same, <1>typed, <2>1, <2>2
<1>5. CASE OwnersStep
  BY <1>5, <1>idle DEF OwnersStep, delegationVars
<1>6. CASE UNCHANGED vars
  BY <1>6, <1>idle DEF vars, delegationVars
<1> QED BY <1>1, <1>2, <1>3, <1>4, <1>5, <1>6 DEF Next, DelegationStep

BudgetsKept == DInv /\ PaidInv /\ BudgetInv

LEMMA BudgetsAlways == Spec => []BudgetsKept
<1>1. Init => BudgetInv
  <2>1. Init => Issued = {}
    BY DEF Init, Issued
  <2> QED BY <2>1, FS_EmptySet DEF BudgetInv
<1>2. Init => DInv
  BY TypeInit DEF Init, DInv, AuthorityOnlyShrinks, BoundInv, Issued
<1>3. DInv /\ PaidInv /\ BudgetInv /\ [Next]_vars => (DInv /\ PaidInv /\ BudgetInv)'
  BY TypeStep, ShrinksStep, BoundStep, PaidStep, BudgetStep DEF DInv
<1> QED BY <1>1, <1>2, <1>3, PaidInit, PTL DEF Spec, BudgetsKept

(* Whatever expires or is revoked, what a delegation has reserved is what   *)
(* its children were given, to the call, and its version counts all that    *)
(* happened to it.                                                          *)
THEOREM ReservesAlwaysMatch == Spec => []ReservesMatchChildren
<1>1. BudgetsKept => ReservesMatchChildren
  <2> SUFFICES ASSUME DInv, PaidInv, BudgetInv, NEW d \in Issued
               PROVE  /\ reserved[d] = MapThenSumSet(LAMBDA c : row[c].terms.calls, Children(d))
                      /\ edition[d] = 1 + Cardinality(Children(d)) + used[d]
                                       + (IF revoked[d] THEN 1 ELSE 0)
    BY DEF ReservesMatchChildren, BudgetsKept
  <2>1. IsFiniteSet(Children(d)) /\ Children(d) \in SUBSET Issued /\ Issued \subseteq Delegation
    BY FewChildren DEF Children, Issued
  <2>2. MapThenSumSet(LAMBDA c : row[c].terms.calls, Children(d)) = Sum(CallsGiven, Children(d))
    BY <2>1, GivenTogether
  <2> QED BY <2>2 DEF BudgetInv, Budget
<1> QED BY <1>1, BudgetsAlways, PTL

-----------------------------------------------------------------------------
(* Meters. *)

LEMMA ChainByDepth ==
  ASSUME NEW d \in Delegation, NEW e \in Chain(d)
  PROVE  /\ e \in Delegation /\ Depth(e) \in 1..Depth(d) /\ e = Ancestor(d, Depth(e))
         /\ \A f \in Chain(e) : f \in Chain(d)
<1>1. PICK n \in 1..Depth(d) : e = Ancestor(d, n)
  BY DEF Chain
<1>2. e \in Delegation /\ Depth(e) = n
  BY <1>1, AncestorShape
<1>3. ASSUME NEW f \in Chain(e) PROVE f \in Chain(d)
  <2>1. PICK m \in 1..n : f = Ancestor(e, m)
    BY <1>2 DEF Chain
  <2>2. f = Ancestor(d, m)
    BY <1>1, <2>1, AncestorOfAncestor
  <2>3. m \in 1..Depth(d)
    BY DelegationShape
  <2> QED BY <2>2, <2>3 DEF Chain
<1> QED BY <1>1, <1>2, <1>3

(* Exactly one child of each delegation above d lies on the way to d.       *)
LEMMA NextInChain ==
  ASSUME NEW d \in Delegation, NEW e \in Chain(d), e # d
  PROVE  \E c \in Chain(d) :
           /\ c \in Delegation /\ Depth(c) > 1 /\ Parent(c) = e
           /\ \A f \in Chain(d) : Depth(f) > 1 /\ Parent(f) = e => f = c
<1>1. PICK n \in 1..Depth(d) : n = Depth(e) /\ e = Ancestor(d, n) /\ e \in Delegation
  BY ChainByDepth
<1>2. n # Depth(d)
  BY <1>1, AncestorSelf
<1>3. n + 1 \in 1..Depth(d) /\ n \in 1..(n + 1) /\ n \in Nat /\ n + 1 > 1
  BY <1>2, DelegationShape
<1>4. PICK c : c = Ancestor(d, n + 1)
  OBVIOUS
<1>5. c \in Chain(d) /\ c \in Delegation /\ Depth(c) = n + 1
  BY <1>3, <1>4, AncestorShape DEF Chain
<1>6. Parent(c) = e
  <2>1. Parent(c) = Ancestor(c, n)
    BY <1>3, <1>5 DEF Parent
  <2>2. Ancestor(c, n) = Ancestor(d, n)
    BY <1>3, <1>4, AncestorOfAncestor
  <2> QED BY <1>1, <2>1, <2>2
<1>7. ASSUME NEW f \in Chain(d), Depth(f) > 1, Parent(f) = e PROVE f = c
  <2>1. f \in Delegation /\ f = Ancestor(d, Depth(f))
    BY ChainByDepth
  <2>2. Depth(f) \in Nat /\ Depth(e) = Depth(f) - 1
    BY <1>7, <2>1, ChainOfChild, DelegationShape
  <2>3. Depth(f) = n + 1
    BY <1>1, <1>3, <2>2
  <2> QED BY <1>4, <2>1, <2>3
<1> QED BY <1>3, <1>5, <1>6, <1>7

LEMMA ChainIssued ==
  ASSUME DInv, NEW d \in Issued
  PROVE  /\ d \in Delegation
         /\ \A e \in Chain(d) : e \in Issued
         /\ Depth(d) > 1 => Parent(d) \in Issued
<1>1. d \in Delegation
  BY DEF Issued
<1>2. \A e \in Chain(d) : e \in Issued
  BY DEF DInv, AuthorityOnlyShrinks, Narrower
<1>3. Depth(d) > 1 => Parent(d) \in Chain(d)
  BY <1>1, ChainOfChild, ChainMembers
<1> QED BY <1>1, <1>2, <1>3

(* What was spent below a delegation is what it spent and what was spent    *)
(* below its children.                                                      *)
SpentInv ==
  \A d \in Issued : CallsMade[d] = used[d] + Sum(CallsMade, Children(d))

MadeBelow == \A d \in Delegation : CallsMade[d] = Sum(used, Below(d))

LEMMA MadeIs == MadeBelow
BY DEF MadeBelow, CallsMade, Sum

LEMMA MadeIsNext == TRUE => MadeBelow'
BY MadeIs, PTL

LEMMA FewBelow ==
  ASSUME BudgetInv, NEW d
  PROVE  IsFiniteSet(Below(d))
BY FS_Subset DEF BudgetInv, Below

LEMMA MadeType ==
  ASSUME TypeOK, BudgetInv
  PROVE  \A d \in Delegation : CallsMade[d] \in Nat
<1> SUFFICES ASSUME NEW d \in Delegation PROVE CallsMade[d] \in Nat
  OBVIOUS
<1>1. \A e \in Below(d) : used[e] \in Nat
  BY DEF Below, Issued, TypeOK
<1>2. Sum(used, Below(d)) \in Nat
  BY <1>1, FewBelow, SumType
<1> QED BY <1>2, MadeIs DEF MadeBelow

(* However a budget is split among descendants, together they keep to it:   *)
(* the deepest that did not would have children that did.                   *)
WithinLimits == \A d \in Issued : CallsMade[d] <= CallsGiven[d]

LEMMA NoneOverspends == BudgetsKept /\ SpentInv => WithinLimits
<1> SUFFICES ASSUME DInv, PaidInv, BudgetInv, SpentInv PROVE WithinLimits
  BY DEF BudgetsKept
<1> DEFINE Over == {d \in Issued : ~(CallsMade[d] <= CallsGiven[d])}
           Height(d) == MaxChainDepth - Depth(d)
<1> SUFFICES ASSUME Over # {} PROVE FALSE
  BY DEF WithinLimits
<1>1. \A d \in Issued : d \in Delegation /\ Depth(d) \in Nat /\ Height(d) \in Nat
  <2>1. MaxChainDepth \in Nat
    BY DelegationsAssumption
  <2> QED BY <2>1, DelegationShape DEF Issued
<1>2. PICK d \in Over : \A e \in Over : Height(d) <= Height(e)
  <2>1. {Height(e) : e \in Over} \in SUBSET Nat /\ {Height(e) : e \in Over} # {}
    BY <1>1
  <2>2. PICK n \in {Height(e) : e \in Over} : \A m \in {Height(e) : e \in Over} : n <= m
    BY <2>1, LeastNumber
  <2> QED BY <2>2
<1>3. d \in Issued /\ d \in Delegation /\ ~(CallsMade[d] <= CallsGiven[d])
  BY <1>1, <1>2
<1>4. \A c \in Issued : CallsMade[c] \in Nat /\ CallsGiven[c] \in Nat /\ CallsGiven[c] = row[c].terms.calls
  BY <1>1, MadeType DEF CallsGiven, Issued, DInv, TypeOK, Row, Terms
<1>5. ASSUME NEW c \in Children(d)
      PROVE  CallsMade[c] \in Nat /\ CallsGiven[c] \in Nat /\ CallsMade[c] <= CallsGiven[c]
  <2>1. c \in Issued /\ Depth(c) > 1 /\ Parent(c) = d
    BY DEF Children
  <2>2. Depth(d) = Depth(c) - 1
    BY <1>1, <2>1, ChainOfChild
  <2>3. ~(Height(d) <= Height(c))
    BY <1>1, <1>3, <2>1, <2>2, DelegationsAssumption
  <2> QED BY <1>2, <1>4, <2>1, <2>3
<1>6. Sum(CallsMade, Children(d)) <= Sum(CallsGiven, Children(d))
  BY <1>5, FewChildren, SumGrows
<1>7. Sum(CallsMade, Children(d)) \in Nat /\ Sum(CallsGiven, Children(d)) \in Nat
  BY <1>5, FewChildren, SumType
<1>8. used[d] \in Nat /\ used[d] + reserved[d] <= row[d].terms.calls /\ reserved[d] = Sum(CallsGiven, Children(d))
  BY <1>3 DEF PaidInv, Paid, BudgetInv, Budget, Issued, DInv, TypeOK
<1>9. CallsMade[d] = used[d] + Sum(CallsMade, Children(d))
  BY <1>3 DEF SpentInv
<1> QED BY <1>3, <1>4, <1>6, <1>7, <1>8, <1>9

LEMMA NoneOverspendsNext == (BudgetsKept /\ SpentInv)' => WithinLimits'
BY NoneOverspends, PTL

(* An issue leaves what was spent as it is.                                 *)
LEMMA InsertSpends ==
  ASSUME BudgetsKept, NEW d \in Delegation, NEW x \in Agent, NEW t \in Offer,
         Insert(d, x, t), UNCHANGED used
  PROVE  /\ \A m \in Delegation : CallsMade'[m] = CallsMade[m]
         /\ used[d] = 0 /\ CallsMade[d] = 0
<1> USE DEF BudgetsKept
<1>1. d \notin Issued /\ Issued' = Issued \cup {d}
  BY OneMoreChild
<1>2. used[d] = 0
  BY <1>1 DEF PaidInv, Paid, Issued
<1>4. \A e \in Issued \cup {d} : used[e] \in Nat
  BY DEF DInv, TypeOK, Issued
<1>5. ASSUME NEW m \in Delegation PROVE CallsMade'[m] = CallsMade[m]
  <2>1. PICK S : S = Below(m)
    OBVIOUS
  <2>2. IsFiniteSet(S) /\ d \notin S /\ \A e \in S \cup {d} : used[e] \in Nat
    BY <1>1, <1>4, <2>1, FewBelow DEF Below
  <2>3. Sum(used, S \cup {d}) = used[d] + Sum(used, S) /\ Sum(used, S) \in Nat
    BY <2>2, SumAdds, SumType
  <2>4. CallsMade'[m] = Sum(used, Below(m)')
    BY MadeIsNext DEF MadeBelow
  <2>5. CallsMade[m] = Sum(used, S)
    BY <2>1, MadeIs DEF MadeBelow
  <2>6. Below(m)' = S \/ Below(m)' = S \cup {d}
    BY <1>1, <2>1 DEF Below
  <2>7. PICK T : T = Below(m)'
    OBVIOUS
  <2>8. CallsMade'[m] = Sum(used, T) /\ (T = S \/ T = S \cup {d})
    BY <2>4, <2>6, <2>7
  <2>9. Sum(used, T) = Sum(used, S)
    <3>1. PICK k, n \in Nat : n = Sum(used, S) /\ k = Sum(used, S \cup {d})
      BY <1>2, <2>3
    <3>2. k = n
      BY <1>2, <2>3, <3>1
    <3> QED BY <2>8, <3>1, <3>2
  <2> QED BY <2>5, <2>8, <2>9
<1>6. Below(d) = {}
  BY <1>1, ChainIssued DEF Below
<1>7. CallsMade[d] = 0
  BY <1>6, MadeIs, SumOfNone DEF MadeBelow
<1> QED BY <1>2, <1>5, <1>7

(* A call is counted once by the delegation it is charged to and by each    *)
(* above it.                                                                *)
LEMMA InvokeSpends ==
  ASSUME BudgetsKept, NEW d \in Issued, UNCHANGED row, used' = [used EXCEPT ![d] = @ + 1]
  PROVE  \A m \in Delegation :
           CallsMade'[m] = IF m \in Chain(d) THEN CallsMade[m] + 1 ELSE CallsMade[m]
<1> USE DEF BudgetsKept
<1> SUFFICES ASSUME NEW m \in Delegation
             PROVE  CallsMade'[m] = IF m \in Chain(d) THEN CallsMade[m] + 1 ELSE CallsMade[m]
  OBVIOUS
<1>1. PICK S : S = Below(m)
  OBVIOUS
<1>2. Below(m)' = S /\ (m \in Chain(d) <=> d \in S) /\ IsFiniteSet(S)
  BY <1>1, FewBelow DEF Below, Issued
<1>3. PICK f : f = used'
  OBVIOUS
<1>4. /\ \A e \in S : used[e] \in Nat /\ (e # d => f[e] = used[e])
      /\ f[d] = used[d] + 1
  BY <1>1, <1>3 DEF Below, DInv, TypeOK, Issued
<1>5. CallsMade'[m] = Sum(f, S) /\ CallsMade[m] = Sum(used, S)
  <2>1. CallsMade'[m] = Sum(used', Below(m)')
    BY MadeIsNext DEF MadeBelow
  <2> QED BY <1>1, <1>2, <1>3, <2>1, MadeIs DEF MadeBelow
<1>6. CASE d \in S
  <2>1. Sum(f, S) = Sum(used, S) + 1
    BY <1>2, <1>4, <1>6, SumCounts
  <2> QED BY <1>2, <1>5, <1>6, <2>1
<1>7. CASE d \notin S
  <2>1. Sum(f, S) = Sum(used, S)
    BY <1>2, <1>4, <1>7, SumSame
  <2> QED BY <1>2, <1>5, <1>7, <2>1
<1> QED BY <1>6, <1>7

LEMMA SpentInsert ==
  ASSUME BudgetsKept, SpentInv, NEW d \in Delegation, NEW x \in Agent, NEW t \in Offer,
         Insert(d, x, t), UNCHANGED used
  PROVE  SpentInv'
<1> USE DEF BudgetsKept
<1>1. /\ d \notin Issued /\ Issued' = Issued \cup {d} /\ Children(d) = {}
      /\ \A e \in Delegation :
           Children(e)' = IF Depth(d) > 1 /\ Parent(d) = e THEN Children(e) \cup {d} ELSE Children(e)
  BY OneMoreChild
<1>2. PICK f : f = CallsMade'
  OBVIOUS
<1>3. (\A m \in Delegation : f[m] = CallsMade[m]) /\ used[d] = 0 /\ CallsMade[d] = 0
  BY <1>2, InsertSpends
<1>4. \A e \in Delegation : CallsMade[e] \in Nat
  BY MadeType DEF DInv
<1>5. f[d] = used'[d] + Sum(f, Children(d)')
  <2>1. Children(d)' = {}
    BY <1>1, ChainOfChild
  <2> QED BY <1>3, <2>1, SumOfNone
<1>6. ASSUME NEW e \in Issued PROVE f[e] = used'[e] + Sum(f, Children(e)')
  <2>1. e \in Delegation /\ CallsMade[e] = used[e] + Sum(CallsMade, Children(e))
    BY DEF SpentInv, Issued
  <2>2. PICK S : S = Children(e)
    OBVIOUS
  <2>3. IsFiniteSet(S) /\ d \notin S /\ \A c \in S \cup {d} : c \in Delegation
    BY <1>1, <2>2, FewChildren DEF Children, Issued
  <2>4. \A c \in S \cup {d} : f[c] = CallsMade[c] /\ f[c] \in Nat
    BY <1>3, <1>4, <2>3
  <2>5. Sum(f, S) = Sum(CallsMade, S) /\ Sum(f, S) \in Nat
    BY <2>3, <2>4, SumSame, SumType
  <2>6. Sum(f, S \cup {d}) = f[d] + Sum(f, S)
    BY <2>3, <2>4, SumAdds
  <2>7. Sum(f, S \cup {d}) = Sum(f, S)
    BY <1>3, <2>5, <2>6
  <2>8. Children(e)' = S \/ Children(e)' = S \cup {d}
    BY <1>1, <2>1, <2>2
  <2> QED BY <1>3, <2>1, <2>2, <2>5, <2>7, <2>8
<1>7. \A e \in Issued' : f[e] = used'[e] + Sum(f, Children(e)')
  BY <1>1, <1>5, <1>6
<1> QED BY <1>2, <1>7 DEF SpentInv

LEMMA SpentInvoke ==
  ASSUME BudgetsKept, SpentInv, NEW d \in Issued, UNCHANGED row, used' = [used EXCEPT ![d] = @ + 1]
  PROVE  SpentInv'
<1> USE DEF BudgetsKept
<1>1. Issued' = Issued /\ d \in Delegation
  BY DEF Issued
<1>2. PICK f : f = CallsMade'
  OBVIOUS
<1>3. \A m \in Delegation : f[m] = IF m \in Chain(d) THEN CallsMade[m] + 1 ELSE CallsMade[m]
  BY <1>2, InvokeSpends
<1>4. \A e \in Delegation : CallsMade[e] \in Nat /\ used[e] \in Nat
  BY MadeType DEF DInv, TypeOK
<1>5. \A e \in Issued : \A c \in Children(e) : c \in Delegation /\ Depth(c) > 1 /\ Parent(c) = e /\ e \in Chain(c)
  BY ChainOfChild, ChainMembers DEF Children, Issued
<1>6. ASSUME NEW e \in Issued PROVE f[e] = used'[e] + Sum(f, Children(e))
  <2>1. e \in Delegation /\ CallsMade[e] = used[e] + Sum(CallsMade, Children(e))
    BY DEF SpentInv, Issued
  <2>2. PICK S : S = Children(e)
    OBVIOUS
  <2>3. IsFiniteSet(S) /\ \A c \in S : c \in Delegation /\ CallsMade[c] \in Nat
    BY <1>4, <1>5, <2>2, FewChildren
  <2>4. Sum(CallsMade, S) \in Nat
    BY <2>3, SumType
  <2>5. used'[e] = IF e = d THEN used[e] + 1 ELSE used[e]
    BY <1>1, <2>1 DEF DInv, TypeOK
  <2>6. ASSUME e \notin Chain(d) \/ e = d, NEW c \in S PROVE f[c] = CallsMade[c]
    <3>1. c \notin Chain(d)
      <4> SUFFICES ASSUME c \in Chain(d) PROVE FALSE
        OBVIOUS
      <4>1. e \in Chain(d) /\ Depth(c) \in 1..Depth(d)
        BY <1>1, <1>5, <2>2, ChainByDepth
      <4>2. Depth(e) = Depth(c) - 1 /\ Depth(d) \in Nat
        BY <1>1, <1>5, <2>2, ChainOfChild, DelegationShape
      <4> QED BY <2>6, <4>1, <4>2
    <3> QED BY <1>3, <2>3, <3>1
  <2>7. CASE e \notin Chain(d)
    <3>1. Sum(f, S) = Sum(CallsMade, S)
      BY <2>3, <2>6, <2>7, SumSame
    <3>2. e # d
      BY <1>1, <2>7, ChainMembers
    <3> QED BY <1>3, <2>1, <2>2, <2>5, <2>7, <3>1, <3>2
  <2>8. CASE e = d
    <3>1. Sum(f, S) = Sum(CallsMade, S)
      BY <2>3, <2>6, <2>8, SumSame
    <3>2. e \in Chain(d)
      BY <1>1, <2>8, ChainMembers
    <3> QED BY <1>3, <1>4, <2>1, <2>2, <2>4, <2>5, <2>8, <3>1, <3>2
  <2>9. CASE e \in Chain(d) /\ e # d
    <3>1. PICK c \in Chain(d) :
            /\ c \in Delegation /\ Depth(c) > 1 /\ Parent(c) = e
            /\ \A y \in Chain(d) : Depth(y) > 1 /\ Parent(y) = e => y = c
      BY <1>1, <2>9, NextInChain
    <3>2. c \in S
      BY <2>2, <3>1, ChainIssued DEF Children
    <3>3. \A y \in S \ {c} : f[y] = CallsMade[y]
      BY <1>3, <1>5, <2>2, <2>3, <3>1
    <3>4. f[c] = CallsMade[c] + 1
      BY <1>3, <3>1
    <3>5. Sum(f, S) = Sum(CallsMade, S) + 1
      BY <2>3, <3>2, <3>3, <3>4, SumCounts
    <3> QED BY <1>3, <1>4, <2>1, <2>2, <2>4, <2>5, <2>9, <3>5
  <2> QED BY <2>7, <2>8, <2>9
<1>7. \A e \in Issued : Children(e)' = Children(e)
  BY <1>1 DEF Children
<1>8. \A e \in Issued' : f[e] = used'[e] + Sum(f, Children(e)')
  BY <1>1, <1>6, <1>7
<1> QED BY <1>2, <1>8 DEF SpentInv

(* Where nothing is issued or spent, nothing is spent below.                *)
LEMMA SpentSame ==
  ASSUME Issued' = Issued, UNCHANGED used
  PROVE  CallsMade' = CallsMade
<1>1. \A m \in Delegation : CallsMade'[m] = CallsMade[m]
  <2> SUFFICES ASSUME NEW m \in Delegation PROVE CallsMade'[m] = CallsMade[m]
    OBVIOUS
  <2>1. PICK S : S = Below(m)
    OBVIOUS
  <2>2. Below(m)' = S
    BY <2>1 DEF Below
  <2>3. CallsMade'[m] = Sum(used', Below(m)')
    BY MadeIsNext DEF MadeBelow
  <2>4. CallsMade'[m] = Sum(used, S)
    BY <2>2, <2>3
  <2> QED BY <2>1, <2>4, MadeIs DEF MadeBelow
<1> QED BY <1>1 DEF CallsMade

(* Other steps neither issue nor spend.                                     *)
LEMMA OtherSteps ==
  ASSUME [Next]_vars,
         ~ \E d \in Delegation, x \in Agent, t \in Offer : IssueRoot(d, x, t) \/ Delegate(d, x, t),
         ~ \E d \in Delegation, r \in CallId, x \in Resource, action \in Action, n \in Name :
             Invoke(d, r, x, action, n, resource[x].version, policy.revision)
  PROVE  UNCHANGED <<row, used>>
<1>1. ASSUME NEW h \in Human, NEW x \in Agent, NEW v, Register(h, x) \/ Disable(h, x, v)
      PROVE  UNCHANGED <<row, used>>
  BY <1>1 DEF Register, Disable
<1>2. ASSUME NEW d \in Delegation, NEW h \in Human, RevokeDelegation(h, d, edition[d])
      PROVE  UNCHANGED <<row, used>>
  BY <1>2 DEF RevokeDelegation
<1>3. CASE OwnersStep
  BY <1>3 DEF OwnersStep, delegationVars
<1>4. CASE UNCHANGED vars
  BY <1>4 DEF vars, delegationVars
<1> QED BY <1>1, <1>2, <1>3, <1>4 DEF Next, DelegationStep

LEMMA SpentStep == BudgetsKept /\ SpentInv /\ [Next]_vars => SpentInv'
<1> SUFFICES ASSUME BudgetsKept, SpentInv, [Next]_vars PROVE SpentInv'
  OBVIOUS
<1>1. ASSUME NEW d \in Delegation, NEW x \in Agent, NEW t \in Offer,
             IssueRoot(d, x, t) \/ Delegate(d, x, t)
      PROVE  SpentInv'
  BY <1>1, SpentInsert DEF IssueRoot, Delegate
<1>2. ASSUME NEW d \in Delegation, NEW r \in CallId, NEW x \in Resource,
             NEW action \in Action, NEW n \in Name,
             Invoke(d, r, x, action, n, resource[x].version, policy.revision)
      PROVE  SpentInv'
  <2>1. d \in Issued /\ UNCHANGED row /\ used' = [used EXCEPT ![d] = @ + 1]
    BY <1>2 DEF Invoke, Issued
  <2> QED BY <2>1, SpentInvoke
<1>3. ASSUME UNCHANGED <<row, used>> PROVE SpentInv'
  <2>1. Issued' = Issued
    BY <1>3 DEF Issued
  <2>2. \A d \in Issued : Children(d)' = Children(d)
    BY <2>1 DEF Children
  <2>3. CallsMade' = CallsMade
    BY <1>3, <2>1, SpentSame
  <2> QED BY <1>3, <2>1, <2>2, <2>3 DEF SpentInv
<1> QED BY <1>1, <1>2, <1>3, OtherSteps

LEMMA SpentAlways == Spec => [](BudgetsKept /\ SpentInv)
<1>1. Init => SpentInv
  BY DEF Init, SpentInv, Issued
<1> QED BY <1>1, SpentStep, BudgetsAlways, PTL DEF Spec

-----------------------------------------------------------------------------
(* Every step is a meter's: it opens one, counts one call, or closes some. *)

EndedIs ==
  /\ EndedMeters = [m \in Delegation |-> EndedMeters[m]]
  /\ \A m \in Delegation : EndedMeters[m] \in BOOLEAN /\ (EndedMeters[m] <=> m \in Issued /\ Cut(m))

LEMMA EndedNow == EndedIs
<1>1. EndedMeters = [m \in Delegation |-> m \in Ended]
  BY DEF EndedMeters
<1>2. \A m \in Delegation : m \in Ended <=> m \in Issued /\ Cut(m)
  BY DEF Ended
<1>3. \A m \in Delegation : EndedMeters[m] = (m \in Ended)
  BY <1>1
<1>4. ASSUME NEW m \in Delegation PROVE EndedMeters[m] \in BOOLEAN
  <2>1. CASE m \in Ended
    <3>1. EndedMeters[m] = TRUE
      BY <1>1, <2>1
    <3> QED BY <3>1
  <2>2. CASE m \notin Ended
    <3>1. EndedMeters[m] = (m \in Ended)
      BY <1>1
    <3>2. (m \in Ended) = FALSE
      BY <2>2
    <3>3. EndedMeters[m] = FALSE
      BY <3>1, <3>2
    <3> QED BY <3>3
  <2> QED BY <2>1, <2>2
<1>5. EndedMeters = [m \in Delegation |-> EndedMeters[m]]
  BY <1>1
<1> QED BY <1>2, <1>3, <1>4, <1>5 DEF EndedIs

LEMMA EndedNext == TRUE => EndedIs'
BY EndedNow, PTL

(* Which meters ended is known from each of them.                           *)
LEMMA EndedSame ==
  ASSUME \A m \in Delegation : (m \in Issued' /\ Cut(m)') <=> (m \in Issued /\ Cut(m))
  PROVE  EndedMeters' = EndedMeters
<1>1. PICK f, g : f = EndedMeters /\ g = EndedMeters'
  OBVIOUS
<1>2. f = [m \in Delegation |-> f[m]] /\ \A m \in Delegation : f[m] \in BOOLEAN /\ (f[m] <=> m \in Issued /\ Cut(m))
  BY <1>1, EndedNow DEF EndedIs
<1>3. g = [m \in Delegation |-> g[m]] /\ \A m \in Delegation : g[m] \in BOOLEAN /\ (g[m] <=> m \in Issued' /\ Cut(m)')
  BY <1>1, EndedNext DEF EndedIs
<1>4. \A m \in Delegation : g[m] = f[m]
  BY <1>2, <1>3
<1>5. g = f
  BY <1>2, <1>3, <1>4
<1> QED BY <1>1, <1>5

LEMMA CutSame ==
  ASSUME DInv, UNCHANGED <<authorityVars, clock, agents, revoked>>,
         \A e \in Issued : row'[e] = row[e], NEW d \in Issued
  PROVE  Cut(d)' <=> Cut(d)
<1>1. \A e \in Chain(d) : row'[e] = row[e]
  BY ChainIssued
<1>2. \A e \in Chain(d) : StillBound(e)' <=> StillBound(e)
  BY <1>1 DEF StillBound, Stamp, authorityVars
<1> QED BY <1>1, <1>2 DEF Cut

(* A new delegation is not cut, its parent being valid.                     *)
LEMMA NewIsNotCut ==
  ASSUME DInv, PaidInv, NEW d \in Delegation, NEW x \in Agent, NEW t \in Offer,
         IssueRoot(d, x, t) \/ Delegate(d, x, t)
  PROVE  ~Cut(d)'
<1> USE DEF DInv
<1>1. Insert(d, x, t) /\ UNCHANGED <<authorityVars, clock, agents, revoked>>
  BY DEF IssueRoot, Delegate
<1>2. /\ row[d] = Null /\ row'[d].agent = x /\ row'[d].terms = t
      /\ row'[d].stamp = Stamp(d.owner) /\ row'[d].agentVersion = agents[x].version
      /\ \A e \in Delegation : e # d => row'[e] = row[e]
      /\ t \in Terms /\ agents[x].active /\ clock < t.until
  <2>1. agents[x].active /\ clock < t.until
    BY <1>1 DEF Insert, OwnedActive, Affordable
  <2> QED BY <1>1, <2>1, InsertedRow
<1>3. ~revoked'[d] /\ StillBound(d)' /\ ~(row'[d].terms.until <= clock')
  <2>1. ~revoked'[d]
    BY <1>1, <1>2 DEF PaidInv, Paid
  <2>2. StillBound(d)'
    BY <1>1, <1>2 DEF StillBound, Stamp, authorityVars
  <2>3. ~(row'[d].terms.until <= clock')
    BY <1>1, <1>2 DEF TypeOK, AuthorizationTypeOK, Terms
  <2> QED BY <2>1, <2>2, <2>3
<1>4. ASSUME NEW e \in Chain(d), e # d
      PROVE  ~revoked'[e] /\ StillBound(e)' /\ ~(row'[e].terms.until <= clock')
  <2>1. Depth(d) > 1
    <3>1. Depth(d) # 1
      BY <1>4, ChainOfRoot
    <3> QED BY <3>1, DelegationShape
  <2>2. Delegate(d, x, t)
    BY <2>1 DEF IssueRoot
  <2>3. e \in Delegation /\ e \in Chain(Parent(d)) /\ Live(Parent(d)) /\ Parent(d) \in Delegation
    BY <1>4, <2>1, <2>2, ChainOfChild, ChainMembers DEF Delegate
  <2>4. ~revoked[e] /\ StillBound(e) /\ ~(row[e].terms.until <= clock)
    BY <2>3, LiveIsNotCut DEF Cut
  <2>5. row'[e] = row[e]
    BY <1>2, <1>4, <2>3
  <2>6. StillBound(e)'
    BY <1>1, <2>4, <2>5 DEF StillBound, Stamp, authorityVars
  <2> QED BY <1>1, <2>4, <2>5, <2>6
<1> QED BY <1>3, <1>4 DEF Cut

LEMMA IssueOpens ==
  ASSUME BudgetsKept, NEW d \in Delegation, NEW x \in Agent, NEW t \in Offer,
         IssueRoot(d, x, t) \/ Delegate(d, x, t)
  PROVE  Meters!Next
<1> USE DEF BudgetsKept
<1>1. Insert(d, x, t) /\ UNCHANGED <<authorityVars, clock, agents, revoked, used>>
  BY DEF IssueRoot, Delegate
<1>2. /\ d \notin Issued /\ Issued' = Issued \cup {d}
      /\ CallsGiven'[d] = t.calls /\ t.calls \in Nat \ {0}
      /\ \A e \in Delegation : e # d => CallsGiven'[e] = CallsGiven[e]
  BY <1>1, OneMoreChild
<1>3. CallsGiven[d] = 0
  BY <1>2 DEF CallsGiven
<1>4. CallsGiven' = [CallsGiven EXCEPT ![d] = CallsGiven'[d]]
  <2>1. PICK f, g : f = CallsGiven /\ g = CallsGiven'
    OBVIOUS
  <2>2. f = [e \in Delegation |-> f[e]] /\ g = [e \in Delegation |-> g[e]]
    BY <2>1 DEF CallsGiven
  <2>3. \A e \in Delegation : e # d => g[e] = f[e]
    BY <1>2, <2>1
  <2>4. g = [f EXCEPT ![d] = g[d]]
    BY <2>2, <2>3
  <2> QED BY <2>1, <2>4
<1>5. CallsMade' = CallsMade
  <2>1. PICK f, g : f = CallsMade /\ g = CallsMade'
    OBVIOUS
  <2>2. f = [e \in Delegation |-> f[e]] /\ g = [e \in Delegation |-> g[e]]
    BY <2>1 DEF CallsMade
  <2>3. \A e \in Delegation : g[e] = f[e]
    BY <1>1, <2>1, InsertSpends
  <2>4. g = f
    BY <2>2, <2>3
  <2> QED BY <2>1, <2>4
<1>6. EndedMeters' = EndedMeters
  <2>1. \A e \in Issued : row'[e] = row[e]
    BY <1>1, <1>2, InsertedRow DEF DInv, Issued
  <2>2. \A e \in Issued : Cut(e)' <=> Cut(e)
    BY <1>1, <2>1, CutSame
  <2>3. ~Cut(d)'
    BY NewIsNotCut
  <2>4. \A e \in Delegation : (e \in Issued' /\ Cut(e)') <=> (e \in Issued /\ Cut(e))
    BY <1>2, <2>2, <2>3
  <2> QED BY <2>4, EndedSame
<1>7. Meters!Open(d, CallsGiven'[d])
  BY <1>3, <1>4, <1>5, <1>6 DEF Meters!Open
<1> QED BY <1>2, <1>7 DEF Meters!Next

(* A call is counted by the delegation it is charged to and all above it,   *)
(* none of which is closed or used up.                                      *)
LEMMA InvokeCounts ==
  ASSUME BudgetsKept, SpentInv, SpentInv', BudgetsKept', NEW d \in Delegation, NEW r \in CallId,
         NEW x \in Resource, NEW action \in Action, NEW n \in Name, NEW v, NEW revision,
         Invoke(d, r, x, action, n, v, revision)
  PROVE  Meters!Next
<1> USE DEF BudgetsKept
<1>1. /\ d \in Issued /\ Live(d)
      /\ UNCHANGED <<authorityVars, clock, agents, row, revoked>>
      /\ used' = [used EXCEPT ![d] = @ + 1]
  BY DEF Invoke, Issued
<1>2. PICK f : f = CallsMade'
  OBVIOUS
<1>3. f = [m \in Delegation |-> f[m]]
  BY <1>2 DEF CallsMade
<1>4. \A m \in Delegation : f[m] = IF m \in Chain(d) THEN CallsMade[m] + 1 ELSE CallsMade[m]
  BY <1>1, <1>2, InvokeSpends
<1>5. \A m \in Delegation : CallsMade[m] \in Nat
  BY MadeType DEF DInv
<1>6. Issued' = Issued /\ CallsGiven' = CallsGiven
  BY <1>1 DEF Issued, CallsGiven
<1>7. EndedMeters' = EndedMeters
  <2>1. \A e \in Issued : Cut(e)' <=> Cut(e)
    BY <1>1, CutSame
  <2> QED BY <1>6, <2>1, EndedSame
<1>8. \A m \in Issued : f[m] <= CallsGiven[m]
  <2>1. WithinLimits'
    BY NoneOverspendsNext
  <2> QED BY <1>2, <1>6, <2>1 DEF WithinLimits
<1>9. {m \in Delegation : f[m] # CallsMade[m]} = Chain(d)
  <2>1. \A m \in Delegation : f[m] # CallsMade[m] <=> m \in Chain(d)
    BY <1>4, <1>5
  <2> QED BY <2>1, ChainMembers
<1>10. ASSUME NEW m \in Chain(d) PROVE ~EndedMeters[m] /\ CallsMade[m] < CallsGiven[m]
  <2>1. m \in Delegation /\ m \in Issued
    BY <1>1, ChainIssued, ChainMembers
  <2>2. ~Cut(m)
    <3>1. ~Cut(d)
      BY <1>1, LiveIsNotCut DEF DInv
    <3> QED BY <3>1, ChainByDepth DEF Cut
  <2>3. CallsGiven[m] \in Nat
    BY <2>1 DEF CallsGiven, Issued, DInv, TypeOK, Row, Terms
  <2> QED BY <1>4, <1>5, <1>8, <2>1, <2>2, <2>3, EndedNow DEF EndedIs
<1>11. f = [m \in Delegation |-> IF m \in Chain(d) THEN CallsMade[m] + 1 ELSE CallsMade[m]]
  BY <1>3, <1>4
<1>12. Meters!Count(Chain(d))
  BY <1>2, <1>6, <1>7, <1>10, <1>11 DEF Meters!Count
<1>13. {m \in Delegation : CallsMade'[m] # CallsMade[m]} = Chain(d)
  BY <1>2, <1>9
<1> QED BY <1>12, <1>13 DEF Meters!Next

(* Any other step can only close meters.                                    *)
LEMMA OthersClose ==
  ASSUME DInv, [Next]_vars, UNCHANGED <<row, used>>
  PROVE  Meters!Next
<1>1. Issued' = Issued /\ CallsGiven' = CallsGiven
  BY DEF Issued, CallsGiven
<1>2. CallsMade' = CallsMade
  BY <1>1, SpentSame
<1>3. PICK f, g : f = EndedMeters /\ g = EndedMeters'
  OBVIOUS
<1>4. g = [m \in Delegation |-> g[m]] /\ \A m \in Delegation : f[m] \in BOOLEAN /\ g[m] \in BOOLEAN
  BY <1>3, EndedNow, EndedNext DEF EndedIs
<1>5. ASSUME NEW m \in Delegation, f[m] PROVE g[m]
  <2>1. m \in Issued /\ Cut(m)
    BY <1>3, <1>5, EndedNow DEF EndedIs
  <2>2. m \in Issued' /\ Cut(m)'
    BY <1>1, <2>1, CutStays
  <2> QED BY <1>3, <2>2, EndedNext DEF EndedIs
<1>6. g = [m \in Delegation |-> f[m] \/ m \in {e \in Delegation : g[e]}]
  BY <1>4, <1>5
<1>7. Meters!Close({m \in Delegation : EndedMeters'[m]})
  BY <1>1, <1>2, <1>3, <1>6 DEF Meters!Close
<1> QED BY <1>7 DEF Meters!Next

(* However a budget is split among descendants, what they spend together    *)
(* never exceeds it, and nothing is spent below a delegation that ended:    *)
(* each delegation with all below it is a meter.                            *)
THEOREM DelegationsAreMeters == Spec => ImplementsCallMeter
<1>1. Init => Meters!Init
  <2> SUFFICES ASSUME Init PROVE Meters!Init
    OBVIOUS
  <2>1. Issued = {}
    BY DEF Init, Issued
  <2>2. \A m \in Delegation : CallsMade[m] = 0
    BY <2>1, MadeIs, SumOfNone DEF MadeBelow, Below
  <2>3. CallsMade = [m \in Delegation |-> 0]
    BY <2>2 DEF CallsMade
  <2>4. \A m \in Delegation : EndedMeters[m] = FALSE
    BY <2>1, EndedNow DEF EndedIs
  <2>5. EndedMeters = [m \in Delegation |-> FALSE]
    BY <2>4, EndedNow DEF EndedIs
  <2>6. CallsGiven = [m \in Delegation |-> 0]
    BY <2>1 DEF CallsGiven
  <2> QED BY <2>3, <2>5, <2>6 DEF Meters!Init
<1>2. BudgetsKept /\ SpentInv /\ (BudgetsKept /\ SpentInv)' /\ [Next]_vars => Meters!Next
  <2> SUFFICES ASSUME BudgetsKept, SpentInv, BudgetsKept', SpentInv', [Next]_vars PROVE Meters!Next
    OBVIOUS
  <2>1. ASSUME NEW d \in Delegation, NEW x \in Agent, NEW t \in Offer,
               IssueRoot(d, x, t) \/ Delegate(d, x, t)
        PROVE  Meters!Next
    BY <2>1, IssueOpens
  <2>2. ASSUME NEW d \in Delegation, NEW r \in CallId, NEW x \in Resource,
               NEW action \in Action, NEW n \in Name,
               Invoke(d, r, x, action, n, resource[x].version, policy.revision)
        PROVE  Meters!Next
    BY <2>2, InvokeCounts
  <2>3. ASSUME UNCHANGED <<row, used>> PROVE Meters!Next
    BY <2>3, OthersClose DEF BudgetsKept
  <2> QED BY <2>1, <2>2, <2>3, OtherSteps
<1> QED BY <1>1, <1>2, SpentAlways, PTL DEF Spec, ImplementsCallMeter, Meters!Spec
=============================================================================
