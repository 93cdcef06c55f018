----------------------------- MODULE PolicyRules -----------------------------
(***************************************************************************)
(* What a member of an organization may do with a catalog resource, and for *)
(* how long that answer is good: evaluatePolicy over the facts that         *)
(* PostgresPolicyRepository reads in one transaction, while operators add   *)
(* and revoke rules and rules begin and end by the clock. A rename checks   *)
(* first and writes later; it holds locks that keep the facts, but nothing  *)
(* holds the time.                                                         *)
(***************************************************************************)
EXTENDS Naturals, FiniteSetsExt

CONSTANTS Members,          \* [role, guest] a member may have
          Things,           \* [kind, visibility, environment, sensitivity, owned] a resource may have
          Terms,            \* [kind, what] of the rules an operator adds
          Periods,          \* [from, to] of those rules
          SessionLimits,      \* when the session may end (session_valid_until)
          DecisionLifetime, \* 15 seconds, in ticks
          RuleLimit,        \* rules of either kind one may have on one resource (100)
          LastTick, LastRevision, LastVersion  \* bounds of a model

VARIABLES actor,    \* membership_role, membership_kind
          thing,    \* the resource, and object_version in version
          version,
          rules,    \* role_bindings and resource_grants that are not revoked
          revision, \* of organization_policies
          mode,     \* write_mode
          ends,     \* session_valid_until
          time,     \* clock_timestamp()
          answer,   \* the last decision the member was given
          rename    \* the decision a rename under way was granted

policyVars == <<actor, thing, version, rules, revision, mode, ends, time, answer, rename>>

\* moments are numbers of ticks
ASSUME PolicyAssumption == Periods \subseteq [from : Nat, to : Nat] /\ SessionLimits \subseteq Nat /\ DecisionLifetime \in Nat

Actions == {"resource.read", "resource.update", "resource.export", "workspace.write", "repository.write", "release.deploy"}
Mutations == Actions \ {"resource.read", "resource.export"}
Editing == {"resource.update", "workspace.write", "repository.write"}
Never == LastTick + DecisionLifetime + 1  \* expires_at of a rule that has none

None == [action |-> "none"]

PolicyInit ==
  /\ actor \in Members /\ thing \in Things /\ ends \in SessionLimits
  /\ version = 1 /\ rules = {} /\ revision = 1 /\ mode = "active" /\ time = 0
  /\ answer = None /\ rename = None

(***************************************************************************)
(* evaluatePolicy at moment t.                                             *)
(***************************************************************************)
Active(r, t) == r.from <= t /\ t < r.to
Bindings(t) == {r \in rules : r.kind = "binding" /\ Active(r, t)}
Granted(effect, a, t) == \E r \in rules : r.kind = effect /\ r.what = a /\ Active(r, t)

(* The kind of resource an action is for. *)
Fits(a) ==
  /\ a = "workspace.write" => thing.kind = "workspace"
  /\ a = "repository.write" => thing.kind = "repository"
  /\ a = "release.deploy" => thing.kind = "release"

Hidden(a, t) ==
  thing.visibility = "restricted" /\ ~thing.owned /\ Bindings(t) = {} /\ ~Granted("allow", a, t)

ByRole(a) ==
  /\ thing.visibility = "organization" \/ thing.owned
  /\ \/ a = "resource.read"
     \/ a \in Editing /\ actor.role \in {"owner", "member"}
     \/ a \in {"resource.export", "release.deploy"} /\ actor.role = "owner"

ByBinding(a, t) == \E b \in Bindings(t) : a = "resource.read" \/ (b.what = "editor" /\ a \in Editing)

Sensitive(a) ==
  \/ a = "release.deploy"
  \/ a \in Mutations /\ thing.environment = "production"
  \/ a \in Mutations /\ thing.environment = "staging" /\ actor.role # "owner"
  \/ a = "resource.export" /\ thing.sensitivity = "confidential"

Permitted(a, t) ==
  IF actor.guest THEN a = "resource.read" /\ (Granted("allow", a, t) \/ Bindings(t) # {})
  ELSE ~Hidden(a, t) /\ (ByRole(a) \/ ByBinding(a, t) \/ Granted("allow", a, t))

(* Which refusal comes first decides its reason only.                      *)
Outcome(a, t) ==
  IF \/ t >= ends \/ ~Fits(a) \/ Granted("deny", a, t) \/ ~Permitted(a, t)
     \/ a \in Mutations /\ mode = "read_only"
    THEN "deny"
  ELSE IF Sensitive(a) THEN "needs_approval" ELSE "allow"

(* expires_at: no rule begins or ends between now and then. *)
Boundaries == UNION {{r.from, r.to} : r \in rules}

\* mutant: a decision is bounded by what ends, not by what begins
EndsOnly(a) == {time + DecisionLifetime, ends} \cup {b \in {r.to : r \in rules} : b > time /\ Fits(a)}

Limits(a) == {time + DecisionLifetime, ends} \cup {b \in Boundaries : b > time /\ Fits(a)}

Decision(a) ==
  [action |-> a, outcome |-> Outcome(a, time), revision |-> revision, until |-> Min(Limits(a))]

(***************************************************************************)
(* What the member asks for.                                               *)
(***************************************************************************)
(* facts(): refused if there are too many rules, and to whom may not read.  *)
Seen ==
  /\ Cardinality({r \in rules : r.kind = "binding"}) <= RuleLimit
  /\ Cardinality({r \in rules : r.kind # "binding"}) <= RuleLimit
  /\ Outcome("resource.read", time) = "allow"

FactsStay == UNCHANGED <<actor, thing, ends>>

(* evaluate() and readResource(). *)
Evaluate(a) ==
  /\ Seen /\ answer' = Decision(a)
  /\ FactsStay /\ UNCHANGED <<version, rules, revision, mode, time, rename>>

(* renameResource(): the caller sends the versions he was told; checks ... *)
Checks ==
  /\ rename = None /\ answer # None /\ answer.revision = revision
  /\ Seen /\ Outcome("resource.update", time) = "allow"
  /\ rename' = Decision("resource.update")
  /\ FactsStay /\ UNCHANGED <<version, rules, revision, mode, time, answer>>

(* ... and writes, while the decision lasts; or fails, or comes too late.   *)
Lasts == time < rename.until

Writes ==
  /\ rename # None /\ Lasts /\ version < LastVersion
  /\ version' = version + 1 /\ rename' = None
  /\ FactsStay /\ UNCHANGED <<rules, revision, mode, time, answer>>

Fails ==
  /\ rename # None /\ rename' = None
  /\ FactsStay /\ UNCHANGED <<version, rules, revision, mode, time, answer>>

(***************************************************************************)
(* What operators do. Their lock waits for a rename under way.             *)
(***************************************************************************)
Change ==
  /\ rename = None /\ revision < LastRevision /\ revision' = revision + 1
  /\ FactsStay /\ UNCHANGED <<version, time, answer, rename>>

AddRule(r) == Change /\ r \notin rules /\ rules' = rules \cup {r} /\ UNCHANGED mode
RevokeRule(r) == Change /\ rules' = rules \ {r} /\ UNCHANGED mode
SetWriteMode(m) == Change /\ mode' = m /\ UNCHANGED rules
RegisterResource == Change /\ UNCHANGED <<rules, mode>>  \* another resource

Tick ==
  /\ time < LastTick /\ time' = time + 1
  /\ FactsStay /\ UNCHANGED <<version, rules, revision, mode, answer, rename>>

Rules == {[kind |-> x.kind, what |-> x.what, from |-> p.from, to |-> p.to] : x \in Terms, p \in Periods}

PolicyNext ==
  \/ \E a \in Actions : Evaluate(a)
  \/ Checks \/ Writes \/ Fails
  \/ \E r \in Rules : AddRule(r)
  \/ \E r \in rules : RevokeRule(r)
  \/ \E m \in {"active", "read_only"} : SetWriteMode(m)
  \/ RegisterResource \/ Tick

(***************************************************************************)
(* Properties.                                                             *)
(***************************************************************************)
Stands(d) == d # None /\ time < d.until /\ d.revision = revision => Outcome(d.action, time) = d.outcome

(* A decision is good until its deadline: while no operator changes the     *)
(* policy, it would be made again at any moment before, whatever rules      *)
(* begin and end; and a rename that was checked changes the resource only   *)
(* if it is still allowed at the moment it writes, however long it waited   *)
(* (docs/development/authorization-policy.md: a decision expires no later   *)
(* than any fact it rests on).                                             *)
GoodUntilTheDeadline ==
  [][(version' # version => Outcome("resource.update", time) = "allow") /\ Stands(answer)']_policyVars
=============================================================================
