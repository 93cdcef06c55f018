---------------------------- MODULE Authorization ----------------------------
(***************************************************************************)
(* Who may do what in one organization: the humans, memberships, sessions, *)
(* policy revision and catalog resources that packages/db/src/identity.ts  *)
(* and policy.ts keep and every other repository reads.  An operator below *)
(* that changes a row is the part of a transaction that touches these      *)
(* tables; modules Approvals and Delegations add what the transaction does *)
(* to theirs.                                                              *)
(***************************************************************************)
EXTENDS Naturals

LOCAL INSTANCE FiniteSetsExt

CONSTANTS
  Human, Resource, Name,
  Environment,       \* [Resource -> environment], never updated
  InitialRole,       \* [Human -> Role]
  RuleEffect,        \* sets of actions the explicit rules of a human may deny
  MaxClock, MaxChanges, MaxResourceVersion   \* bounds of a model

Action == {"resource.read", "resource.update"}
Role == {"owner", "member", "viewer"}

(* The versions an approval or a delegation is bound to when it is made. *)
Stamps == [auth: Nat, membership: Nat, organization: Nat, policy: Nat]

ASSUME ConstantsAssumption ==
  /\ Environment \in [Resource -> {"development", "staging", "production"}]
  /\ InitialRole \in [Human -> Role]
  /\ RuleEffect \subseteq SUBSET Action

VARIABLES
  human,     \* [Human -> [version, active]]: auth_version, status
  member,    \* [Human -> [version, role, active]]: one membership each
  org,       \* [version, active]
  policy,    \* [revision, mode]
  denied,    \* [Human -> SUBSET Action], what explicit rules deny now
  session,   \* [Human -> Nat], auth_version the session was opened at, or 0
  resource,  \* [Resource -> [version, name]]
  clock

authorityVars == <<human, member, org, policy, denied>>

AuthorizationInit ==
  /\ human = [h \in Human |-> [version |-> 1, active |-> TRUE]]
  /\ member = [h \in Human |->
                 [version |-> 1, role |-> InitialRole[h], active |-> TRUE]]
  /\ org = [version |-> 1, active |-> TRUE]
  /\ policy = [revision |-> 1, mode |-> "active"]
  /\ denied = [h \in Human |-> {}]
  /\ session = [h \in Human |-> 0]
  /\ resource \in [Resource -> [version: {1}, name: Name]]
  /\ clock = 0

-----------------------------------------------------------------------------

(* How often authority has changed; a model stops at MaxChanges.           *)
Changes ==
  MapThenSumSet(LAMBDA h : human[h].version + member[h].version - 2, Human)
    + org.version + policy.revision - 2

(* authority(): an active human, an active full membership and an active   *)
(* organization.                                                           *)
Authority(h) == human[h].active /\ member[h].active /\ org.active

Stamp(h) == [auth |-> human[h].version, membership |-> member[h].version,
             organization |-> org.version, policy |-> policy.revision]

(* session() and authority() of the caller. *)
Actor(h) == session[h] = human[h].version /\ Authority(h)

(* evaluatePolicy for reading and renaming a resource the whole            *)
(* organization may see.                                                   *)
Reads(h) == "resource.read" \notin denied[h]

Writes(h, x) ==
  IF \/ "resource.update" \in denied[h]
     \/ member[h].role = "viewer"
     \/ policy.mode = "read_only"
  THEN "deny"
  ELSE IF \/ Environment[x] = "production"
          \/ Environment[x] = "staging" /\ member[h].role # "owner"
       THEN "needs_approval"
       ELSE "allow"

-----------------------------------------------------------------------------
(* Changes of rows. *)

HumanRow(h, active) ==
  /\ Changes < MaxChanges
  /\ human' = [human EXCEPT ![h] = [version |-> @.version + 1,
                                    active |-> active]]
  /\ UNCHANGED <<member, org, policy, denied, session, resource, clock>>

MembershipRow(h, role, active) ==
  /\ Changes < MaxChanges
  /\ member' = [member EXCEPT ![h] = [version |-> @.version + 1,
                                      role |-> role, active |-> active]]
  /\ UNCHANGED <<human, org, policy, denied, session, resource, clock>>

OrganizationRow(active) ==
  /\ Changes < MaxChanges
  /\ org' = [version |-> org.version + 1, active |-> active]
  /\ UNCHANGED <<human, member, policy, denied, session, resource, clock>>

(* change() and registerResource() of policy.ts: a rule is added or        *)
(* revoked, or the write mode set, with the next revision.                 *)
PolicyRow(mode, h, effect) ==
  /\ Changes < MaxChanges
  /\ policy' = [revision |-> policy.revision + 1, mode |-> mode]
  /\ denied' = [denied EXCEPT ![h] = effect]
  /\ UNCHANGED <<human, member, org, session, resource, clock>>

(* A rule reaches its valid_from or expires_at: what it denies changes, no *)
(* revision does and nobody is told.                                       *)
RuleTurns(h, effect) ==
  /\ effect # denied[h]
  /\ denied' = [denied EXCEPT ![h] = effect]
  /\ UNCHANGED <<human, member, org, policy, session, resource, clock>>

(* The next version of a resource, under a new name. *)
ResourceRow(x, n) ==
  resource' = [resource EXCEPT ![x] = [version |-> @.version + 1, name |-> n]]

(* renameResource() of policy.ts: a writer policy allows outright. *)
CanRename(h, x) ==
  /\ Actor(h) /\ Reads(h) /\ Writes(h, x) = "allow"
  /\ resource[x].version < MaxResourceVersion

DirectRename(h, x, n) ==
  /\ CanRename(h, x)
  /\ ResourceRow(x, n)
  /\ UNCHANGED <<authorityVars, session, clock>>

(* A session opens at the human's auth_version, and ends. *)
SessionOpens(h) ==
  /\ human[h].active
  /\ session[h] # human[h].version
  /\ session' = [session EXCEPT ![h] = human[h].version]
  /\ UNCHANGED <<authorityVars, resource, clock>>

SessionEnds(h) ==
  /\ session[h] # 0
  /\ session' = [session EXCEPT ![h] = 0]
  /\ UNCHANGED <<authorityVars, resource, clock>>

TimePasses ==
  /\ clock < MaxClock
  /\ clock' = clock + 1
  /\ UNCHANGED <<authorityVars, session, resource>>

(* What identity and policy do on their own, every mutator included. *)
AuthorizationStep ==
  \/ \E h \in Human :
       \/ \E active \in BOOLEAN : HumanRow(h, active)
       \/ \E role \in Role, active \in BOOLEAN : MembershipRow(h, role, active)
       \/ \E mode \in {"active", "read_only"}, effect \in RuleEffect :
            PolicyRow(mode, h, effect)
       \/ \E effect \in RuleEffect : RuleTurns(h, effect)
       \/ \E x \in Resource, n \in Name : DirectRename(h, x, n)
       \/ SessionOpens(h)
       \/ SessionEnds(h)
  \/ \E active \in BOOLEAN : OrganizationRow(active)
  \/ TimePasses

AuthorizationTypeOK ==
  /\ human \in [Human -> [version: Nat, active: BOOLEAN]]
  /\ member \in [Human -> [version: Nat, role: Role, active: BOOLEAN]]
  /\ org \in [version: Nat, active: BOOLEAN]
  /\ policy \in [revision: Nat, mode: {"active", "read_only"}]
  /\ denied \in [Human -> SUBSET Action]
  /\ session \in [Human -> Nat]
  /\ resource \in [Resource -> [version: Nat, name: Name]]
  /\ clock \in Nat
=============================================================================
