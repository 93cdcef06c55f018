---------------------------- MODULE ApprovalLocks ----------------------------
(***************************************************************************)
(* The transactions of module Approvals taken apart into their lock waits. *)
(* Every repository method takes cooperative advisory locks and row locks  *)
(* in one order, reads what it needs once they are granted, and commits    *)
(* (authorization-locks.ts; context() of approvals.ts; lockScope() of      *)
(* policy.ts; the mutators of identity.ts and policy.ts).  PostgreSQL runs *)
(* READ COMMITTED: a statement sees what was committed before it began.    *)
(*                                                                         *)
(* A process here is one pooled connection.  Its transaction reads in two  *)
(* places, Look (before most locks) and Check (after all of them), and its *)
(* writes appear at Commit, where it makes exactly one step of Approvals.  *)
(* What is at stake is whether the step it checked is still the right one  *)
(* when it commits.  Time stands still: what a deadline can change between *)
(* the checks and the commit is settled in Approvals and re-checked last.  *)
(***************************************************************************)
EXTENDS Approvals

LOCAL INSTANCE FiniteSets

CONSTANTS
  Proc,     \* pooled connections
  IdOrder,  \* [Human -> Nat], where a human's id sorts
  Job       \* [Proc -> SUBSET Call], the calls a connection may make

VARIABLES
  job,        \* [Proc -> Job \cup {Null}]
  expects,    \* [Proc -> Nat], the object_version the caller has read
  stage,      \* [Proc -> Stage]
  todo,       \* [Proc -> SUBSET Lock], locks still to acquire
  held,       \* [Proc -> SUBSET Lock]
  people,     \* [Proc -> SUBSET Human], whose locks an approval call takes
  hits,       \* [Proc -> SUBSET Approval], requests a mutator invalidates
  allocated   \* processes with uncommitted events, in order of sequence

lockVars == <<job, expects, stage, todo, held, people, hits, allocated>>
allVars == <<vars, lockVars>>

Stage == {"idle", "opening", "locking", "ready"}
Shared(on) == [on |-> on, mode |-> "shared"]
Exclusive(on) == [on |-> on, mode |-> "exclusive"]

On == ({"session", "human", "membership"} \X Human)
        \cup {<<"organization">>, <<"policy">>, <<"events">>}
        \cup ({"request", "permit"} \X Approval) \cup ({"resource"} \X Resource)
Lock == [on: On, mode: {"shared", "exclusive"}]

(* The calls a connection may be given.                                    *)
Call ==
  [op: {"request"}, h: Human, q: RequestId, x: Resource, n: Name,
   review: {"required", "policy"}]
  \cup [op: {"decide"}, h: Human, a: Approval, outcome: {"approve", "reject"}]
  \cup [op: {"issuePermit"}, h: Human, a: Approval, d: Digest]
  \cup [op: {"execute"}, h: Human, a: Approval, x: Resource, n: Name, d: Digest]
  \cup [op: {"revoke"}, h: Human, a: Approval]
  \cup [op: {"rename"}, h: Human, x: Resource, n: Name]
  \cup [op: {"revokeSession"}, h: Human]
  \cup [op: {"setHumanStatus"}, h: Human, active: BOOLEAN]
  \cup [op: {"setMembership"}, h: Human, role: Role, active: BOOLEAN]
  \cup [op: {"setOrganizationStatus"}, active: BOOLEAN]
  \cup [op: {"changePolicy"}, mode: {"active", "read_only"}, h: Human,
        effect: RuleEffect]

ASSUME LocksAssumption ==
  /\ IdOrder \in [Human -> Nat]
  /\ \A g, h \in Human : IdOrder[g] = IdOrder[h] => g = h
  /\ \A p \in Proc : Job[p] \subseteq Call
  /\ Null \notin Call

LockInit ==
  /\ Init
  /\ job = [p \in Proc |-> Null]
  /\ expects = [p \in Proc |-> 0]
  /\ stage = [p \in Proc |-> "idle"]
  /\ todo = [p \in Proc |-> {}]
  /\ held = [p \in Proc |-> {}]
  /\ people = [p \in Proc |-> {}]
  /\ hits = [p \in Proc |-> {}]
  /\ allocated = <<>>

-----------------------------------------------------------------------------
(* Which locks a call takes. *)

OnApproval == {"decide", "issuePermit", "execute", "revoke"}
Mutator == {"setHumanStatus", "setMembership", "setOrganizationStatus",
            "changePolicy"}

(* The order in which a transaction takes its locks: by kind, and people   *)
(* by their ids.                                                           *)
Rank == [session |-> 1, human |-> 2, organization |-> 3, membership |-> 4,
         policy |-> 5, events |-> 6, request |-> 7, resource |-> 8,
         permit |-> 9]

Precedes(l, m) ==
  \/ Rank[l.on[1]] < Rank[m.on[1]]
  \/ l.on[1] = m.on[1] /\ IdOrder[l.on[2]] < IdOrder[m.on[2]]

(* The first statement of each call. *)
FirstLock(j) ==
  CASE j.op = "setHumanStatus" -> Exclusive(<<"human", j.h>>)
    [] j.op = "setMembership" -> Exclusive(<<"membership", j.h>>)
    [] j.op = "setOrganizationStatus" -> Exclusive(<<"organization">>)
    [] j.op = "changePolicy" -> Exclusive(<<"policy">>)
    [] j.op = "revokeSession" -> Exclusive(<<"session", j.h>>)
    [] OTHER -> Shared(<<"session", j.h>>)

(* Humans whose authority an approval call may depend on, as far as an     *)
(* unlocked read can tell.                                                 *)
Preliminary(j) ==
  {j.h} \cup
  (IF j.op \notin OnApproval THEN {}
   ELSE {Requester(j.a)} \cup
        (IF decision[j.a] = Null THEN {} ELSE {decision[j.a].actor}))

RowLocks(j) ==
  CASE j.op \in {"request", "rename"} -> {Exclusive(<<"resource", j.x>>)}
    [] j.op = "execute" ->
         {Exclusive(<<"request", j.a>>), Exclusive(<<"permit", j.a>>),
          Exclusive(<<"resource", terms[j.a].resource>>)}
    [] OTHER ->
         {Exclusive(<<"request", j.a>>),
          Exclusive(<<"resource", terms[j.a].resource>>)}

ScopeLocksWithoutHumans(j, S) ==
  {Shared(<<"membership", h>>) : h \in S}
    \cup {Shared(<<"organization">>), Shared(<<"policy">>)}
    \cup IF j.op = "rename" THEN {} ELSE {Exclusive(<<"events">>)}

ScopeLocksWithoutEvents(j, S) ==
  {Shared(<<"human", h>>) : h \in S} \cup {Shared(<<"membership", h>>) : h \in S}
    \cup {Shared(<<"organization">>), Shared(<<"policy">>)}

(* Everybody involved, the organization, its policy and its event stream;  *)
(* a direct rename writes no event and skips the last.                     *)
ScopeLocks(j, S) ==
  {Shared(<<"human", h>>) : h \in S} \cup {Shared(<<"membership", h>>) : h \in S}
    \cup {Shared(<<"organization">>), Shared(<<"policy">>)}
    \cup IF j.op = "rename" THEN {} ELSE {Exclusive(<<"events">>)}

(* Live requests a mutator has to revoke. *)
Affected(j) ==
  {a \in Approval :
     /\ state[a] \in Live
     /\ j.op \in {"setHumanStatus", "setMembership"} => a \in Involving(j.h)}

-----------------------------------------------------------------------------
(* What a call checks before it writes, and the step of Approvals it       *)
(* makes; v is the caller's guard version.  A mutator is trusted and finds *)
(* its row whatever the state.                                             *)

Can(j, v) ==
  CASE j.op = "request" -> CanRequest(j.h, j.q, j.x)
    [] j.op = "decide" -> CanDecide(j.h, j.a, v)
    [] j.op = "issuePermit" -> CanIssue(j.h, j.a, v, j.d)
    [] j.op = "execute" -> CanExecute(j.h, j.a, v, j.x, j.n, j.d)
    [] j.op = "revoke" -> CanRevoke(j.h, j.a, v)
    [] j.op = "rename" -> CanRename(j.h, j.x)
    [] j.op = "revokeSession" -> session[j.h] # 0
    [] OTHER -> TRUE

Effect(j, v) ==
  \/ j.op = "request" /\ Request(j.h, j.q, j.x, j.n, j.review)
  \/ j.op = "decide" /\ Decide(j.h, j.a, v, j.outcome)
  \/ j.op = "issuePermit" /\ IssuePermit(j.h, j.a, v, j.d)
  \/ j.op = "execute" /\ Execute(j.h, j.a, v, j.x, j.n, j.d)
  \/ j.op = "revoke" /\ Revoke(j.h, j.a, v)
  \/ j.op = "rename" /\ Rename(j.h, j.x, j.n)
  \/ j.op = "setHumanStatus" /\ SetHumanStatus(j.h, j.active)
  \/ j.op = "setMembership" /\ SetMembership(j.h, j.role, j.active)
  \/ j.op = "setOrganizationStatus" /\ SetOrganizationStatus(j.active)
  \/ j.op = "changePolicy" /\ ChangePolicy(j.mode, j.h, j.effect)
  \/ j.op = "revokeSession" /\ SignOut(j.h)

WritesEvents(j) ==
  \/ j.op \in OnApproval \cup {"request"}
  \/ j.op \in Mutator /\ Affected(j) # {}

-----------------------------------------------------------------------------

Blocks(p, l) ==
  \E m \in held[p] :
    m.on = l.on /\ (m.mode = "exclusive" \/ l.mode = "exclusive")

(* The uncommitted events without those of p.                              *)
Without(p) ==
  IF \E i \in DOMAIN allocated : allocated[i] = p
  THEN LET i == CHOOSE k \in DOMAIN allocated : allocated[k] = p
       IN  SubSeq(allocated, 1, i - 1)
             \o SubSeq(allocated, i + 1, Len(allocated))
  ELSE allocated

ReleaseKeepsLocks(p) ==
  /\ stage' = [stage EXCEPT ![p] = "idle"]
  /\ job' = [job EXCEPT ![p] = Null]
  /\ expects' = [expects EXCEPT ![p] = 0]
  /\ todo' = [todo EXCEPT ![p] = {}]
  /\ held' = [held EXCEPT ![p] = {l \in @ : l.on[1] = "events"}]
  /\ people' = [people EXCEPT ![p] = {}]
  /\ hits' = [hits EXCEPT ![p] = {}]
  /\ allocated' = Without(p)

(* The end of a transaction frees its locks, whichever way it ends. *)
Release(p) ==
  /\ stage' = [stage EXCEPT ![p] = "idle"]
  /\ job' = [job EXCEPT ![p] = Null]
  /\ expects' = [expects EXCEPT ![p] = 0]
  /\ todo' = [todo EXCEPT ![p] = {}]
  /\ held' = [held EXCEPT ![p] = {}]
  /\ people' = [people EXCEPT ![p] = {}]
  /\ hits' = [hits EXCEPT ![p] = {}]
  /\ allocated' = Without(p)

(* A model stops changing authority at MaxChanges, calls under way counted.*)
Changing == Cardinality({p \in Proc : job[p] # Null /\ job[p].op \in Mutator})

(* A call begins with the guard version its caller has just read.  Without *)
(* a session row an interactive call ends with its first statement.        *)
Start(p, j) ==
  /\ stage[p] = "idle"
  /\ IF j.op \in Mutator THEN Changes + Changing < MaxChanges
     ELSE session[j.h] # 0
  /\ j.op \in OnApproval => terms[j.a] # Null
  /\ job' = [job EXCEPT ![p] = j]
  /\ expects' = [expects EXCEPT ![p] = IF j.op \in OnApproval THEN version[j.a]
                                       ELSE 0]
  /\ stage' = [stage EXCEPT ![p] = "opening"]
  /\ todo' = [todo EXCEPT ![p] = {FirstLock(j)}]
  /\ UNCHANGED <<vars, held, people, hits, allocated>>

Acquire(p) ==
  \E l \in todo[p] :
    /\ \A m \in todo[p] \ {l} : Precedes(l, m)
    /\ \A q \in Proc \ {p} : ~Blocks(q, l)
    /\ held' = [held EXCEPT ![p] = @ \cup {l}]
    /\ todo' = [todo EXCEPT ![p] = @ \ {l}]
    /\ UNCHANGED <<vars, job, expects, stage, people, hits, allocated>>

(* The reads that decide which further locks to take: the preliminary row  *)
(* of context(), and the organizations invalidateApprovals() finds.        *)
Look(p) ==
  LET j == job[p] IN
  /\ stage[p] = "opening" /\ todo[p] = {}
  /\ stage' = [stage EXCEPT ![p] = "locking"]
  /\ IF j.op \in Mutator
     THEN /\ todo' = [todo EXCEPT ![p] = IF Affected(j) = {} THEN {}
                                         ELSE {Exclusive(<<"events">>)}]
          /\ UNCHANGED people
     ELSE IF j.op = "revokeSession"
     THEN UNCHANGED <<todo, people>>
     ELSE /\ people' = [people EXCEPT ![p] = Preliminary(j)]
          /\ todo' = [todo EXCEPT ![p] = ScopeLocks(j, Preliminary(j))
                                           \cup RowLocks(j)]
  /\ UNCHANGED <<vars, job, expects, held, hits, allocated>>

(* An approver whose locks were not acquired is not relied on. *)
LocksCoverDecision(p) ==
  LET j == job[p] IN
  j.op \in OnApproval /\ decision[j.a] # Null
    => decision[j.a].actor \in people[p]

Passes(p) == LocksCoverDecision(p) /\ Can(job[p], expects[p])

(* All locks are held: read, check, write.  The events written get their   *)
(* sequence numbers now, before anybody else can see them.                 *)
Check(p) ==
  LET j == job[p] IN
  /\ stage[p] = "locking" /\ todo[p] = {}
  /\ Passes(p)
  /\ stage' = [stage EXCEPT ![p] = "ready"]
  /\ hits' = [hits EXCEPT ![p] =
                IF j.op \in Mutator /\ Exclusive(<<"events">>) \in held[p]
                THEN Affected(j) ELSE {}]
  /\ allocated' = IF WritesEvents(j) THEN Append(allocated, p) ELSE allocated
  /\ UNCHANGED <<vars, job, expects, todo, held, people>>

Refuse(p) ==
  /\ stage[p] = "locking" /\ todo[p] = {}
  /\ ~Passes(p)
  /\ Release(p)
  /\ UNCHANGED vars

Commit(p) ==
  /\ stage[p] = "ready"
  /\ Effect(job[p], expects[p])
  /\ Release(p)

(* A statement fails, the connection is lost, or the last checks before    *)
(* the commit find the session or a deadline expired.                      *)
Rollback(p) ==
  /\ stage[p] # "idle"
  /\ Release(p)
  /\ UNCHANGED vars

(* A new session replaces one no transaction is using. *)
OpenSession(h) ==
  /\ \A p \in Proc : ~Blocks(p, Exclusive(<<"session", h>>))
  /\ SignIn(h)
  /\ UNCHANGED lockVars

LockNext ==
  \/ \E p \in Proc : \E j \in Job[p] : Start(p, j)
  \/ \E p \in Proc : \/ Acquire(p) \/ Look(p) \/ Check(p) \/ Refuse(p)
                     \/ Commit(p) \/ Rollback(p)
  \/ \E h \in Human : OpenSession(h)

(* A connection runs its statements; the lock manager queues waiters, so   *)
(* one whose lock is free again and again gets it.                         *)
Fairness ==
  \A p \in Proc :
    /\ WF_allVars(Look(p) \/ Check(p) \/ Refuse(p) \/ Commit(p))
    /\ SF_allVars(Acquire(p))

LockSpec == LockInit /\ [][LockNext]_allVars /\ Fairness

-----------------------------------------------------------------------------
(* What the lock order is for. *)

(* Nothing a transaction checked can change before it commits: the step it *)
(* is about to make is still one Approvals allows, and a mutator revokes   *)
(* every live request its change affects, none of them missed because it   *)
(* appeared after the mutator looked.                                      *)
ChecksHoldAtCommit ==
  \A p \in Proc : stage[p] = "ready" =>
    /\ Can(job[p], expects[p])
    /\ job[p].op \in Mutator => hits[p] = Affected(job[p])

(* Events become visible in the order of their sequence numbers, so a      *)
(* reader that polls from its last cursor skips none (events()).           *)
CursorNeverSkips ==
  [][\A p \in Proc, i \in DOMAIN allocated :
       Commit(p) /\ allocated[i] = p => i = 1]_allVars

(* Every transaction ends. *)
TransactionsEnd == \A p \in Proc : stage[p] # "idle" ~> stage[p] = "idle"
=============================================================================
