----------------------------- MODULE Approvals ------------------------------
(***************************************************************************)
(* The approval control plane of one organization:                         *)
(* packages/db/src/approvals.ts (PostgresApprovalRepository), the trusted  *)
(* mutators of identity.ts and policy.ts that change somebody's authority, *)
(* and the invalidation they run in their own transaction                  *)
(* (approval-events.ts).                                                   *)
(*                                                                         *)
(* Every method of the code is one READ COMMITTED transaction that takes   *)
(* its advisory locks before it reads, so an action here is a whole        *)
(* transaction; module ApprovalLocks opens the transactions up and shows   *)
(* that the locks make this view right.  A refused call rolls back and is  *)
(* a stuttering step.  Rows of other organizations share no state with     *)
(* these (every statement is qualified by org_id).                         *)
(***************************************************************************)
EXTENDS Authorization, Sequences

CONSTANTS
  RequestId, Digest,
  ApprovalLifetime,  \* APPROVAL_LIFETIME_MS in ticks
  PermitLifetime,    \* ACTION_PERMIT_LIFETIME_MS in ticks
  Null

(* A request row is identified by its requester and the requester's        *)
(* request_id: UNIQUE(org_id, requester_id, request_id).                   *)
Approval == Human \X RequestId
Requester(a) == a[1]

Terms == [resource: Resource, name: Name, version: Nat, stamp: Stamps,
          review: {"required", "policy"}, expires: Nat]
Decision == [actor: Human, source: {"human", "preauthorized_policy"},
             outcome: {"approve", "reject"}, stamp: Stamps]
Permit == [digest: Digest, end: Nat, consumed: BOOLEAN]
Receipt == [resource: Resource, name: Name, version: Nat]
State == {"none", "pending", "approved", "issued",
          "rejected", "revoked", "consumed"}
Live == {"pending", "approved", "issued"}
Reason == {"requested", "human", "preauthorized_policy", "permit_issued",
           "executed", "revoked", "authority_changed"}
Event == [state: State, version: Nat, reason: Reason]

\* requested, approved, issued and one settled state
LongestHistory == 4

ASSUME LifetimesAssumption ==
  /\ ApprovalLifetime \in Nat \ {0}
  /\ PermitLifetime \in Nat \ {0}
  /\ Null \notin Terms \cup Decision \cup Permit \cup Receipt

VARIABLES
  state, version,    \* mutable columns of a request
  terms,             \* its immutable columns, Null for no row
  decision, permit, receipt,
  log                \* the events of each request, in sequence order

approvalVars == <<state, version, terms, decision, permit, receipt, log>>
vars == <<human, member, org, policy, denied, session, resource,
          state, version, terms, decision, permit, receipt, log, clock>>

Init ==
  /\ AuthorizationInit
  /\ state = [a \in Approval |-> "none"]
  /\ version = [a \in Approval |-> 0]
  /\ terms = [a \in Approval |-> Null]
  /\ decision = [a \in Approval |-> Null]
  /\ permit = [a \in Approval |-> Null]
  /\ receipt = [a \in Approval |-> Null]
  /\ log = [a \in Approval |-> <<>>]

-----------------------------------------------------------------------------
Visible(h, a) ==
  /\ state[a] # "none"
  /\ Reads(h)
  /\ Requester(a) = h \/ member[h].role = "owner"

(* requireIndependentReviewer. *)
IndependentReviewer(h, a) ==
  /\ h # Requester(a)
  /\ member[h].role = "owner"
  /\ Reads(h)
  /\ Writes(h, terms[a].resource) # "deny"

EndorsedByVersionsOnly(a) ==
  LET d == decision[a] IN
  d.outcome = "approve" /\ Authority(d.actor) /\ d.stamp = Stamp(d.actor)

(* The recorded decision still carries somebody's present authority. *)
Endorsed(a) ==
  LET d == decision[a] IN
  /\ d.outcome = "approve"
  /\ Authority(d.actor)
  /\ d.stamp = Stamp(d.actor)
  /\ \/ d.source = "human" /\ IndependentReviewer(d.actor, a)
     \/ /\ d.source = "preauthorized_policy"
        /\ d.actor = Requester(a)
        /\ Writes(d.actor, terms[a].resource) = "allow"

CurrentForgetsResource(a) ==
  LET t == terms[a]  h == Requester(a) IN
  /\ state[a] \in Live
  /\ clock < t.expires
  /\ Authority(h) /\ t.stamp = Stamp(h)
  /\ Reads(h) /\ Writes(h, t.resource) # "deny"
  /\ decision[a] # Null => Endorsed(a)

(* current(): the request may still go ahead. *)
Current(a) ==
  LET t == terms[a]  h == Requester(a) IN
  /\ state[a] \in Live
  /\ clock < t.expires
  /\ Authority(h)
  /\ t.version = resource[t.resource].version
  /\ t.stamp = Stamp(h)
  /\ Reads(h)
  /\ Writes(h, t.resource) # "deny"
  /\ decision[a] # Null => Endorsed(a)

-----------------------------------------------------------------------------
(* Transitions of request rows; each appends its event in the same step. *)

Entry(s, v, why) == [state |-> s, version |-> v, reason |-> why]

TransitionEventLags(a, s, why) ==
  /\ state' = [state EXCEPT ![a] = s]
  /\ version' = [version EXCEPT ![a] = @ + 1]
  /\ log' = [log EXCEPT ![a] = Append(@, Entry(s, version[a], why))]

(* transition(): the next object_version and its event. *)
Transition(a, s, why) ==
  /\ state' = [state EXCEPT ![a] = s]
  /\ version' = [version EXCEPT ![a] = @ + 1]
  /\ log' = [log EXCEPT ![a] = Append(@, Entry(s, version[a] + 1, why))]

InvalidateUnlistedReason(S) ==
  LET Hit(a) == a \in S /\ state[a] \in Live IN
  /\ state' = [a \in Approval |-> IF Hit(a) THEN "revoked" ELSE state[a]]
  /\ version' = [a \in Approval |->
                   IF Hit(a) THEN version[a] + 1 ELSE version[a]]
  /\ log' = [a \in Approval |->
               IF Hit(a)
               THEN Append(log[a], Entry("revoked", version[a] + 1, "invalid"))
               ELSE log[a]]
  /\ UNCHANGED <<terms, decision, permit, receipt>>

(* invalidateApprovals(): revoke every live request of S. *)
InvalidateApprovals(S) ==
  LET Hit(a) == a \in S /\ state[a] \in Live IN
  /\ state' = [a \in Approval |-> IF Hit(a) THEN "revoked" ELSE state[a]]
  /\ version' = [a \in Approval |->
                   IF Hit(a) THEN version[a] + 1 ELSE version[a]]
  /\ log' = [a \in Approval |->
               IF Hit(a)
               THEN Append(log[a], Entry("revoked", version[a] + 1,
                                         "authority_changed"))
               ELSE log[a]]
  /\ UNCHANGED <<terms, decision, permit, receipt>>

InvolvingRequesterOnly(h) == {a \in Approval : Requester(a) = h}

(* Requests a human asked for or decided. *)
Involving(h) ==
  {a \in Approval : \/ Requester(a) = h
                    \/ decision[a] # Null /\ decision[a].actor = h}

-----------------------------------------------------------------------------
(* The approval operations.  h is the human of the caller's session and v  *)
(* the expected_version of its ApprovalGuard.  What a call checks before   *)
(* it writes has a name of its own, Can...: module ApprovalLocks makes the *)
(* checks in one statement and the writes in a later one.                  *)

CanRequest(h, q, x) ==
  /\ Actor(h) /\ Reads(h) /\ Writes(h, x) # "deny"
  /\ state[<<h, q>>] = "none"

(* request(): policy must let the requester read and not deny the write; a *)
(* plain allow may be recorded as preauthorized instead of waiting for a   *)
(* reviewer.  Repeating a request_id returns the row as it is.             *)
Request(h, q, x, n, review) ==
  LET a == <<h, q>>
      t == [resource |-> x, name |-> n, version |-> resource[x].version,
            stamp |-> Stamp(h), review |-> review,
            expires |-> clock + ApprovalLifetime]
      preauthorized == Writes(h, x) = "allow" /\ review = "policy"
      asked == Entry("pending", 1, "requested")
  IN
  /\ CanRequest(h, q, x)
  /\ terms' = [terms EXCEPT ![a] = t]
  /\ \/ /\ ~preauthorized
        /\ state' = [state EXCEPT ![a] = "pending"]
        /\ version' = [version EXCEPT ![a] = 1]
        /\ log' = [log EXCEPT ![a] = <<asked>>]
        /\ UNCHANGED decision
     \/ /\ preauthorized
        /\ state' = [state EXCEPT ![a] = "approved"]
        /\ version' = [version EXCEPT ![a] = 2]
        /\ log' = [log EXCEPT ![a] =
                     <<asked, Entry("approved", 2, "preauthorized_policy")>>]
        /\ decision' = [decision EXCEPT ![a] =
                          [actor |-> h, source |-> "preauthorized_policy",
                           outcome |-> "approve", stamp |-> Stamp(h)]]
  /\ UNCHANGED <<authorityVars, session, resource, permit, receipt, clock>>

DecidedIsApproved(outcome) == "approved"
DecidedState(outcome) == IF outcome = "approve" THEN "approved" ELSE "rejected"

CanDecide(h, a, v) ==
  /\ v = version[a]
  /\ Actor(h) /\ Visible(h, a)
  /\ state[a] = "pending"
  /\ Current(a)
  /\ IndependentReviewer(h, a)

Decide(h, a, v, outcome) ==
  /\ CanDecide(h, a, v)
  /\ decision' = [decision EXCEPT ![a] =
                    [actor |-> h, source |-> "human",
                     outcome |-> outcome, stamp |-> Stamp(h)]]
  /\ Transition(a, DecidedState(outcome), "human")
  /\ UNCHANGED <<authorityVars, session, resource, terms, permit, receipt,
                 clock>>

(* A permit ends with its approval at the latest. *)
PermitEnd(a) ==
  IF clock + PermitLifetime < terms[a].expires
  THEN clock + PermitLifetime ELSE terms[a].expires

(* issuePermit(): one permit per approval, and no digest twice.            *)
CanIssue(h, a, v, d) ==
  /\ v = version[a]
  /\ Actor(h) /\ Visible(h, a)
  /\ Requester(a) = h
  /\ state[a] = "approved"
  /\ Current(a)
  /\ \A b \in Approval : permit[b] # Null => permit[b].digest # d

IssuePermit(h, a, v, d) ==
  /\ CanIssue(h, a, v, d)
  /\ permit' = [permit EXCEPT ![a] =
                  [digest |-> d, end |-> PermitEnd(a), consumed |-> FALSE]]
  /\ Transition(a, "issued", "permit_issued")
  /\ UNCHANGED <<authorityVars, session, resource, terms, decision, receipt,
                 clock>>

MatchesResourceOnly(a, x, n) == terms[a].resource = x

(* matchesApprovedOperation. *)
MatchesApproved(a, x, n) == terms[a].resource = x /\ terms[a].name = n

(* execute(): the command the caller names must be the approved one; the   *)
(* permit, the resource, the receipt and the request change together.      *)
CanExecute(h, a, v, x, n, d) ==
  /\ v = version[a]
  /\ Actor(h) /\ Visible(h, a)
  /\ Requester(a) = h
  /\ state[a] = "issued"
  /\ MatchesApproved(a, x, n)
  /\ Current(a)
  /\ permit[a].digest = d /\ ~permit[a].consumed
  /\ clock < permit[a].end

Execute(h, a, v, x, n, d) ==
  /\ CanExecute(h, a, v, x, n, d)
  /\ permit' = [permit EXCEPT ![a].consumed = TRUE]
  /\ ResourceRow(x, n)
  /\ receipt' = [receipt EXCEPT ![a] =
                   [resource |-> x, name |-> n,
                    version |-> resource[x].version + 1]]
  /\ Transition(a, "consumed", "executed")
  /\ UNCHANGED <<authorityVars, session, terms, decision, clock>>

CanRevoke(h, a, v) ==
  /\ v = version[a]
  /\ Actor(h) /\ Visible(h, a)
  /\ state[a] \in Live

Revoke(h, a, v) ==
  /\ CanRevoke(h, a, v)
  /\ Transition(a, "revoked", "revoked")
  /\ UNCHANGED <<authorityVars, session, resource, terms, decision, permit,
                 receipt, clock>>

-----------------------------------------------------------------------------
(* The rest of the system, as far as it bears on approvals. *)

Rename(h, x, n) == DirectRename(h, x, n) /\ UNCHANGED approvalVars

(* A mutator revokes the requests its change takes authority from. *)
SetHumanStatus(h, active) ==
  HumanRow(h, active) /\ InvalidateApprovals(Involving(h))

SetMembership(h, role, active) ==
  MembershipRow(h, role, active) /\ InvalidateApprovals(Involving(h))

SetOrganizationStatus(active) ==
  OrganizationRow(active) /\ InvalidateApprovals(Approval)

ChangePolicy(mode, h, effect) ==
  PolicyRow(mode, h, effect) /\ InvalidateApprovals(Approval)

RuleBoundary(h, effect) == RuleTurns(h, effect) /\ UNCHANGED approvalVars

SignIn(h) == SessionOpens(h) /\ UNCHANGED approvalVars
SignOut(h) == SessionEnds(h) /\ UNCHANGED approvalVars

Tick == TimePasses /\ UNCHANGED approvalVars

ApprovalStep ==
  \E h \in Human :
    \/ \E q \in RequestId, x \in Resource, n \in Name,
          review \in {"required", "policy"} : Request(h, q, x, n, review)
    \/ \E a \in Approval, v \in 1..LongestHistory :
         \/ \E outcome \in {"approve", "reject"} : Decide(h, a, v, outcome)
         \/ \E d \in Digest : IssuePermit(h, a, v, d)
         \/ \E x \in Resource, n \in Name, d \in Digest :
              Execute(h, a, v, x, n, d)
         \/ Revoke(h, a, v)

AuthorityStep ==
  \/ \E h \in Human, active \in BOOLEAN : SetHumanStatus(h, active)
  \/ \E h \in Human, role \in Role, active \in BOOLEAN :
       SetMembership(h, role, active)
  \/ \E active \in BOOLEAN : SetOrganizationStatus(active)
  \/ \E mode \in {"active", "read_only"}, h \in Human, effect \in RuleEffect :
       ChangePolicy(mode, h, effect)
  \/ \E h \in Human, effect \in RuleEffect : RuleBoundary(h, effect)

Next ==
  \/ ApprovalStep
  \/ AuthorityStep
  \/ \E h \in Human, x \in Resource, n \in Name : Rename(h, x, n)
  \/ \E h \in Human : SignIn(h) \/ SignOut(h)
  \/ Tick

Spec == Init /\ [][Next]_vars

-----------------------------------------------------------------------------
(* Correctness. *)

Settled == {"rejected", "revoked", "consumed"}

(* The columns of every table hold values of their types.                  *)
TypeOK ==
  /\ AuthorizationTypeOK
  /\ state \in [Approval -> State]
  /\ version \in [Approval -> Nat]
  /\ terms \in [Approval -> Terms \cup {Null}]
  /\ decision \in [Approval -> Decision \cup {Null}]
  /\ permit \in [Approval -> Permit \cup {Null}]
  /\ receipt \in [Approval -> Receipt \cup {Null}]
  /\ log \in [Approval -> Seq(Event)]

(* No live request outlives the authority it was given under: the versions *)
(* bound into it are the requester's present ones, and those stamped on    *)
(* its decision the approver's.  Every change of a human, a membership,    *)
(* the organization or the policy must have revoked what it touched, in    *)
(* the transaction that made it.                                           *)
LiveAuthorityIsPresent ==
  \A a \in Approval : state[a] \in Live =>
    /\ Authority(Requester(a)) /\ terms[a].stamp = Stamp(Requester(a))
    /\ decision[a] # Null =>
         /\ Authority(decision[a].actor)
         /\ decision[a].stamp = Stamp(decision[a].actor)

(* The five tables tell one story: which of the decision, permit and       *)
(* receipt rows exist, and what they say, agrees with the request's state. *)
RowAgrees(a) ==
  /\ state[a] = "none" <=> terms[a] = Null
  /\ state[a] \in {"none", "pending"} => decision[a] = Null
  /\ state[a] \in {"approved", "issued", "consumed"} =>
       decision[a] # Null /\ decision[a].outcome = "approve"
  /\ state[a] = "rejected" =>
       decision[a] # Null /\ decision[a].outcome = "reject"
  /\ state[a] \in {"none", "pending", "approved", "rejected"} =>
       permit[a] = Null
  /\ state[a] \in {"issued", "consumed"} => permit[a] # Null
  /\ permit[a] # Null =>
       /\ permit[a].end <= terms[a].expires
       /\ permit[a].consumed <=> state[a] = "consumed"
  /\ receipt[a] # Null <=> state[a] = "consumed"

TablesAgree == \A a \in Approval : RowAgrees(a)

(* Nobody approves their own request, unless policy itself allowed it.     *)
NoSelfApproval ==
  \A a \in Approval : decision[a] # Null =>
    (decision[a].actor = Requester(a)
       <=> decision[a].source = "preauthorized_policy")

(* Of all requests bound to one version of a resource at most one is ever  *)
(* executed, and what it did is what was approved.                         *)
OneEffectPerResourceVersion ==
  /\ \A a \in Approval : receipt[a] # Null =>
       /\ receipt[a].resource = terms[a].resource
       /\ receipt[a].name = terms[a].name
       /\ receipt[a].version = terms[a].version + 1
       /\ receipt[a].version <= resource[terms[a].resource].version
  /\ \A a, b \in Approval :
       /\ receipt[a] # Null /\ receipt[b] # Null
       /\ receipt[a].resource = receipt[b].resource
       /\ receipt[a].version = receipt[b].version
       => a = b

(* The events of a request, replayed, give its row: version i is event i   *)
(* and the last event is the present state.                                *)
EventsReplayToRows ==
  \A a \in Approval :
    /\ Len(log[a]) = version[a]
    /\ \A i \in 1..Len(log[a]) : log[a][i].version = i
    /\ log[a] # <<>> => log[a][Len(log[a])].state = state[a]
    /\ log[a] = <<>> => state[a] = "none"

(* A settled request never changes again, and its rows are kept.           *)
SettledForGood ==
  [][\A a \in Approval : state[a] \in Settled =>
       UNCHANGED <<state[a], version[a], terms[a], decision[a], permit[a],
                   receipt[a], log[a]>>]_vars

(* Requests whose receipt is written in this step. *)
Done == {a \in Approval : receipt'[a] # receipt[a]}

ByOneself(x) ==
  \E h \in Human : Actor(h) /\ Reads(h) /\ Writes(h, x) = "allow"

ByApproval(a, x) ==
  LET h == Requester(a)  d == decision[a] IN
  /\ Done = {a} /\ terms[a].resource = x
  /\ clock < terms[a].expires /\ clock < permit[a].end
  /\ Actor(h) /\ Reads(h) /\ Writes(h, x) # "deny"
  /\ Authority(d.actor) /\ Reads(d.actor)
  /\ IF d.actor = h THEN Writes(h, x) = "allow"
     ELSE member[d.actor].role = "owner" /\ Writes(d.actor, x) # "deny"

(* A resource changes either by somebody policy lets write it outright, or *)
(* by one approved command; in that case, at that very moment, the request *)
(* and the permit have not expired, the requester is signed in and may     *)
(* still write, and whoever endorsed the command still could: an owner     *)
(* other than the requester, or policy itself.                             *)
EffectsAreAuthorized ==
  [][\A x \in Resource : resource'[x] # resource[x] =>
       \/ Done = {} /\ ByOneself(x)
       \/ \E a \in Done : ByApproval(a, x)]_vars

(* The control plane implements the one-shot grant.                        *)
GrantPhase(a) ==
  CASE state[a] = "none" -> "none"
    [] state[a] = "pending" -> "open"
    [] state[a] \in {"approved", "issued"} -> "granted"
    [] state[a] = "consumed" -> "spent"
    [] state[a] \in {"rejected", "revoked"} -> "void"

Grants == INSTANCE OneShotGrant WITH
  Grant <- Approval, Target <- Resource,
  phase <- [a \in Approval |-> GrantPhase(a)],
  opened <- [a \in Approval |->
               IF terms[a] = Null THEN Null
               ELSE [target |-> terms[a].resource, version |-> terms[a].version]],
  current <- [x \in Resource |-> resource[x].version]

(* Every transaction is one step of the abstract grant, or none.           *)
ImplementsOneShotGrant == Grants!Spec
=============================================================================
