# Zentwine in TLA+

Zentwine is a TypeScript monorepo for organizations whose members and software
agents change shared resources under policy.  Its core is a control plane in
PostgreSQL: who is signed in and may do what, which changes a second person has
to approve, and what an agent may do on somebody's behalf.  Around it stand an
HTTP/WebSocket service, browser-side controllers, observers of untrusted agent
runtimes, and tools for local development.

This directory holds the formal model of that system: TLA+ modules translated
from the source, TLC configurations that check them on small instances, and
theorems that TLAPS proves for instances of any size.

1. [The system](#1-the-system): inventory of components
2. [What is modelled](#2-what-is-modelled): modules, state, actions
3. [What is checked](#3-what-is-checked): runs, bounds, fairness
4. [What is proved](#4-what-is-proved): theorems and the argument
5. [Limits](#5-limits): what is only model-checked, what is left out
6. [Plan](#6-plan): modules to come

## 1. The system

Paths are relative to the repository. `db` stands for `packages/db/src`,
`client` for `packages/client/src`.

### Identity (`db/identity.ts`)

State: humans with a status and an `auth_version`, memberships with a role,
status and `object_version`, organizations, one-time login tickets, sessions
with idle and absolute expiry, a `context_version` and an active organization,
append-only events.  Operations: issue and consume a ticket, read, rotate and
revoke a session, select an organization, and the trusted mutators
`setHumanStatus`, `setMembership`, `setOrganizationStatus`.  A session is valid
while the human's `auth_version` is the one it was opened at.  Hard: a ticket
is used once, also under concurrency; a cutoff that ends an organization's
sessions races with a login; rotation must leave one usable session.

### Authorization policy (`db/policy.ts`, `packages/policy/src/rules.ts`)

State: one policy per organization (revision, write mode), catalog resources
with versions, explicit rules with validity intervals.  `evaluatePolicy` is a
pure decision over facts read in one transaction; its answer is `deny`,
`needs_approval` or `allow` and expires after 15 seconds at most.  Operations:
decide, rename a resource, and the administrator's changes.  Hard: facts must
belong to one moment; rules turn on and off by the clock, without a revision.

### Approval control plane (`db/approvals.ts`, `db/approval-events.ts`, `packages/policy/src/approvals.ts`)

State: five tables (requests, decisions, permits, receipts, events).  A request
goes pending, approved, issued (a permit exists), consumed; or rejected, or
revoked.  Operations: request, decide, issue a permit, execute, revoke, and the
reads list, get, events.  Identity and policy mutators call
`invalidateApprovals` in their own transaction.  Hard: three calls by two
people, minutes apart, have to add up to one effect that was authorized when it
happened; every mutator of authority anywhere must reach every live request.

### Agent delegations (`db/agents.ts`, `packages/policy/src/delegation.ts`)

State: agents with an accountable owner, delegations with immutable terms
(scope, dates, calls, depth), counters of reserved and used calls, recorded
operations.  Operations: register and disable an agent, issue a root
delegation, delegate further, revoke, invoke a tool.  Hard: budgets shared by a
tree, up to eight levels; revocation anywhere above must stop everything below
though nobody tells the descendants; retries must not be charged twice.

### Locks (`db/authorization-locks.ts`)

All four repositories take PostgreSQL advisory locks by name, shared by readers
and exclusive by mutators, in one order by convention: session row, humans,
organization, memberships, policy, then either the approval event stream or the
agent tree, then rows.  Hard: nothing enforces the order or the coverage.

### Organization lifecycle (`db/organizations.ts`, `db/organization-guards.ts`)

State: settings, invitations, session cutoffs, emergency containment, external
identities of a federation.  Operations: update settings and members, invite,
revoke, accept, contain and release, provision and deprovision from an identity
provider.  Hard: the last owner must stay; an accepted invitation must not
outlive a cutoff; provisioning changes the same rows by another path.

### Tenant data access (`db/tenant.ts`)

State: a unit of work (open, pending operations, failed) inside one
transaction.  Hard: a callback may return while operations of it are running;
none may reach a connection that went back to the pool.

### Service (`services/api/src`)

Routes parse, call one repository method and format the answer.  State: open
policy sockets per session and address, login attempts per address.  Hard:
counters raised before an await and lowered on close, by sockets that may be
destroyed at any point in between.

### Browser controllers and pages (`client`, `apps/workbench`)

State: what a page shows, the generation of work it is at, a request whose
outcome it does not know.  `catalog-approval.ts` runs one approval through the
API and repeats writes whose answer is lost; `workbench.ts` reads the context
of a page; `approval-inbox.ts` pages through a list that changes meanwhile;
`organization.tsx` shows and changes one organization.  Operations: load,
suspend, resume, the buttons.  Hard: answers out of order, lost
acknowledgements, digests that cannot be aborted, and switches of organization
or of person in another tab.

### Runtime observation and hand-over (`client/runtime-*.ts`, `scripts/runtime-inspect.mjs`)

State: the events an observer vouches for and how far it has been shown; the
bytes of an artifact; readers and handoffs a bundle owns.  Operations: accept
an event, read a stream, read an artifact, gather all inputs, close; and a
command that inspects a directory.  Hard: sources that repeat, reorder, omit,
alter and cut; all inputs or none while everything is read concurrently; files
that other programs replace between two looks.

### Durable workflow experiment (`spikes/ZT01-01-durable-workflow`)

State: operations, their outbox and effects in PostgreSQL; workflows at an
external service.  Operations: request, dispatch, decide, run an attempt.  Hard:
crashes between any commit and its acknowledgement; attempts that were given up
and still commit.

### Local development stack (`scripts/local/environment.mjs`)

State: containers of projects with random names, a credential, and one file that
says which project is its own.  Operations: up, down, with or without
`--confirm-stopped`.  Hard: being killed anywhere, while the daemon goes on; a
lock that another process holds and that may be lost before the command ends.

### The rest

Repository comparison and review notes (validation and a pure merge), versioned
content primitives, the organization audit view, read-only Git inspection, test
kit, views, configuration, telemetry.

`PROJECT.json` lists every component with its status, and under `hazards` each
place where the code can go wrong in a way a test would hardly reach, with the
property that covers it, or the reason why none does.

### How components interact

Identity and policy hold the authority everybody reads.  Approvals are told of
changes (eager invalidation in the mutator's transaction, plus a check at each
use); delegations are not, and compare the versions they were issued under at
each use.  Approved commands, agents' calls and direct renames change the same
resource rows.  The service is a thin layer over the repositories; the
controllers see it through requests that may fail with an unknown outcome.

## 2. What is modelled

| Module | Models | Kind |
| --- | --- | --- |
| `Authorization` | rows of `identity.ts` and `policy.ts` that authority depends on, and what each of their transactions does to them | shared state and row operations |
| `Approvals` | `PostgresApprovalRepository`, `approval-events.ts`, and the mutators with their invalidation | component, extends `Authorization` |
| `OneShotGrant` | what an approval promises | abstract specification |
| `ApprovalLocks` | the transactions of `Approvals` taken apart into lock waits | component, extends `Approvals` |
| `Delegations` | `PostgresAgentRepository` and `delegation.ts`, under every change of the owner's authority | component, extends `Authorization` |
| `CallMeter` | what a delegation promises | abstract specification |
| `Organizations` | `PostgresOrganizationRepository`, `PostgresFederationAdmin`, `organization-guards.ts`, and the logins and mutators of `identity.ts` that write the same rows | component |
| `IdentitySessions` | `PostgresIdentityRepository` for one human, statement by statement | component |
| `PolicyRules` | `evaluatePolicy` in full, the repository that asks it and the administrator's changes | component |
| `TenantScope` | `transaction()` of `tenant.ts`, its unit of work and the database's fences | component |
| `PolicySocket` | the WebSocket of `services/api/src/policy/socket.ts` | component |
| `ConsoleSession` | the browser session as the server holds it | shared state |
| `CatalogApproval` | `CatalogApprovalController`, its page, the network and the server's answers | component, extends `ConsoleSession` |
| `Workbench` | `WorkbenchController` and its page | component, extends `ConsoleSession` |
| `ApprovalInbox` | `ApprovalInboxController` on its `WorkbenchController`, and the listing behind it | component, extends `Workbench` |
| `OrganizationPage` | `apps/workbench/src/organization.tsx` and the browser's other tabs | component |
| `RuntimeStream` | `RuntimeEventObserver`, `RuntimeEventStreamReader` | component |
| `RuntimeInputs` | `RuntimeInputArtifactReader`, `RuntimeArtifactHandoff`, `RuntimeInputBundle` | component |
| `RuntimeInspection` | `scripts/runtime-inspect.mjs` | component |
| `DurableWorkflow` | the store, dispatcher, workflow and worker of the experiment | component |
| `LocalStack` | `up` and `down` of the local stack | component |
| `MCApprovals`, `MCApprovalLocks`, `MCDelegations`, `MCOrganizations`, `MCIdentitySessions`, `MCConsole`, `MCRuntime`, `MCService`, `MCOperations` | instances for TLC | |
| `Approvals_proofs` (of `Approvals` and `ApprovalLocks`), `Delegations_proofs`, `Organizations_proofs`, `IdentitySessions_proofs`, `Console_proofs` (of `ApprovalInbox`, `CatalogApproval`), `Runtime_proofs` (of `RuntimeStream`, `RuntimeInputs`, `RuntimeInspection`), `Service_proofs` (of `TenantScope`, `PolicySocket`, `PolicyRules`), `Operations_proofs` (of `OrganizationPage`, `DurableWorkflow`, `LocalStack`) | theorems | |

`MCConsole`, `MCRuntime`, `MCService` and `MCOperations` put several small
components side by side: which of them moves is chosen at the start and the
others keep still, so that one run answers for each on its own.

**State.** A table is a function from its key to a row, `Null` where there is
none, or several such functions where columns change at different times
(`terms` are the immutable columns of a request, `state` and `version` its
mutable ones; `row` the immutable columns of a delegation and its snapshot,
`reserved`, `used`, `edition`, `revoked` the others).  Keys are those of the
UNIQUE constraints: a request is its requester and `request_id`; a delegation
its owner and the `request_id`s from the root down.  One organization is
modelled; every statement of the code is qualified by `org_id`.

**Authority.** The versions an approval or delegation is bound to are `Stamp`:
`auth_version`, membership, organization and policy versions.  Policy is
reduced to its answer on reading and updating a catalog resource that the whole
organization may see (`Reads`, `Writes`): by role, environment, write mode and
the actions that explicit rules deny.  A rule that reaches `valid_from` or
`expires_at` is `RuleTurns`: the answer changes and no version does.
`PolicyRules` has the whole decision: guests, restricted resources, role
bindings, allowing and denying grants with their periods, every action.  A
rename is two steps there, the check and the write, because the locks between
them hold the facts and not the time.

**Actions.** In `Approvals` and `Delegations` an action is a whole transaction
of one repository method, all its statements together; a refused call rolls
back and is a stuttering step, as is a repeated call that returns what is
stored.  What makes this view right is the locking, and `ApprovalLocks` is
where that is not assumed but checked.  There, a pooled connection starts a
call, acquires its locks one by one, looks (the unlocked reads that decide
which locks to take), checks, and commits, and may fail at any point.  The locks
a transaction has still to take are a set: `Precedes` says which comes next, by
kind and, among people, by id, as the statements of the code do.  `Can` is what a
call checks and `Effect` the step of `Approvals` it then makes.  In
`Delegations` every method holds the organization's `agent-tree` lock
exclusively, and the owner's authority locks shared, from before its reads.

In `Organizations` an action is a whole transaction as well: every method that
writes takes the organization's lock exclusively before the reads it decides
on.  A session and its rotations are one row there, and rows that are revoked,
expired or consumed are dropped, for nothing reads them again.  In the code a
session is out when it is not younger than `session_cutoffs.invalid_before`; the
model counts a person's cutoffs and remembers how many had happened when a
session or ticket was created, which is the same as long as the database clock
does not step back.  Receipts of repeated requests are left out: a repetition
answers what is stored, and a new request needs the present versions.  Whether
an inviter can read what a guest is to see, the limits on numbers of
invitations and mappings, and what `organizations.ts` does to approvals and
delegations do not occur (`Approvals` and `Delegations` have every change of
authority).

`identity.ts` takes no authority locks for logins and sessions, so
`IdentitySessions` goes down to statements: a call waits for its row (`SELECT
... FOR UPDATE`), reads it once more, writes and commits; between these steps
another connection, the clock and operators go on.  Active organization and
context version live here; membership, cutoffs and federated tickets live in
`Organizations`, and here a selection may be refused at any time.

**Browser and network.** `n` of `ConsoleSession` stands for session, human and
context version together, which is what the pages compare.  A controller runs
one generation of work; a newer one aborts the fetches of the older, but not a
digest being computed and not what a server has already been told.  In
`CatalogApproval` a write may be lost, arrive late or twice, or lose its answer;
in `Workbench` and `ApprovalInbox` a call that was given up may still be carried
out; in `OrganizationPage` a piece of work is the list of the answers it awaits,
each of which may be a refusal or never come, and aborting it may come too late.
What a page shows is modelled by where it came from.

**Runtime.** An event is its kind, the id it names and its sequence number; what
does not parse, in any way, is one refusal.  The source is no component: every
valid event with any number, every repetition, and nonsense may come at any
time.  In `RuntimeInputs` each await of the reader, the handoff and the bundle is
a step; in `RuntimeInspection` each call to the system is, and between two of
them another program may rewrite or replace a file or the directory.  Versions
of a file stand for what `stat` tells (device, inode, size, times).

**Service.** `TenantScope` has the callers' operations, which may be started and
not awaited, and each connection's transaction and bound context; operators
change a session's rights meanwhile.  In `PolicySocket` a socket's life, the two
counters and the awaits between them are state; a `close` event comes some time
after its cause.

**Operations.** `DurableWorkflow` keeps the workflow service external: it starts
a workflow once per id, hands out attempts until one is answered, and forgets
nothing; dispatcher and worker may die anywhere, and an attempt that was given
up may still commit.  `LocalStack` has several commands, each at its step with the
row it has in memory.  Any may be killed at any step; a start that was cut off may
still create what it was told to (`coming`, `Daemon`).  The lock is not the
command's: `withLock` has a helper process hold it, which a Ctrl-C kills with
its process group while the command catches the signal and goes on, so `holder`
may lose a command that has not ended (`Interrupted`) and others begin beside it.
`beside` is a history variable: it remembers that an up began while an earlier
command had not ended, and no action reads it.

**Time.** `clock` counts ticks; lifetimes are constants in ticks and the
equality of clock and deadline occurs.  An action happens at the clock of its
last check: the code looks at deadlines again after the last lock wait.

**Data.** Names, digests, ids are members of small sets; hashing and JSON are
left out, except that a digest is never issued twice.

## 3. What is checked

Every passing run is listed with its properties in `PROJECT.json`, and every
property with a mutant: a plausible mistake in a definition the code maps to,
under which TLC finds the property violated.

| Run | Question | Bounds |
| --- | --- | --- |
| `approvals` | does eager invalidation reach every live request, do events replay to rows and the tables agree; is each effect authorized at that very moment and one per version; does it implement `OneShotGrant` | a member and an owner, one request each. While authority changes: two changes of any kind, one name, one permit, one effect. While it does not: two names and digests, two permits, three clock values with approvals of two ticks and permits of one, rules turning on and off, direct renames, versions 1 to 3 |
| `locks` | does what was checked hold at commit, can a polling reader skip an event, does every transaction end | two connections, eleven kinds of call, one change of authority |
| `budget` | is each call paid once, are reserves what the children were given; does it implement `CallMeter` | three delegations under one owner, siblings and a child, shares of 1 to 3 calls, two call ids |
| `chain` | does authority only shrink along a chain, does what is cut stay without effect, is each effect what the owner may do outright now and all above it grant | chains of three, two scopes, one change of authority, one tick, rules turning, direct renames |
| `members` | does anybody or anything that was shut out come back by itself; do tickets and sessions of the identity provider's people stay void; does an owner remain | two owners, two sessions, one invitation, one ticket, two changes of members' rows, and with them either a connection switched on and changed once (or on only, with a third change of a member's row), or one change of an account, the settings or the organization, or one `revokeOrganizationSessions` |
| `disabled_connection` | *(violation)* does disabling a connection revoke the invitations of its people | as `members` |
| `sessions` | what do row locks and second looks guarantee without authority locks | two connections, one ticket, three session rows, two organizations, context versions 1 to 3, clock 0 to 2, an account disabled or renewed once |
| `console` | is a request in doubt ever followed by another; does anything stale show; do pages of the inbox join up; does work end | two context numbers, two membership versions, two requests, one late message, pages of one of up to three approvals |
| `runtime` | is what an observer vouches for complete and one run's story; are inputs handed over all or none; is what passed a snapshot | two ids, sequence numbers 1 to 6, five events, one artifact remembered; two producers, three inputs of two pieces; three files and three changes by other programs |
| `service` | does anything run on a connection that was given back; do the counters agree with the sockets; is a decision good until its deadline | two calls of two and one operations, two connections; four sockets of two sessions, three raw, two per session; an owner, a viewer and a guest, two rules in four periods, clock 0 to 2 |
| `operations` | is all a page shows of one organization and context; is an outcome reported only if it is committed; is everything that runs accounted for unless an up runs beside an earlier command | two organizations, two logins and two context versions; two specifications, three attempts, two signals; two commands at a time, two projects |
| `lost_lock` | *(violation)* does the lock make the changes of the local stack's state serial, so that everything that runs is accounted for | as `operations` |

**Why the bounds are enough.** An approval involves at most two people, and a
violation of its rules at most two requests (for one resource version), so two
humans and two requests show every pattern; two changes of authority include
taking something away and giving it back, which is where a stale binding would
come alive again.  Lifetimes of two and one ticks with clock values 0 to 2 reach
before, at and after each deadline, and a permit capped by its approval.  Lock
conflicts are between pairs; a cycle of waits among more than two transactions
is excluded by the order of the locks, which each pair of calls obeys.  A chain of three has a delegation with both an ancestor
and a descendant; three delegations under one root include two siblings and a
split budget.  Two owners are enough for `members`, since whoever
is removed can be invited back by the other; three changes of members' rows are
taking out, letting back in, and one in between or before (a mapping).  A second
enabling of a connection is beyond the bounds; a person comes
back there through `provision`.  Three session rows are a login and two
rotations, or a session, its successor and a rival.  Two context numbers and two generations are what a late answer
needs to be late; a third approval is what an inbox with pages of one needs to
have one appear or vanish before, on and after the page being fetched; only one
superseded task at a time goes on, since each is judged against the present
generation alone.  Six sequence numbers leave room for two gaps inside each
other.  Two calls, one of two operations, are an operation that outlives its
unit and a connection's next user; four sockets fill the limit of three and the
limit of two per session with one to refuse.  Two rules in four periods have one
begin, one end and both overlap within a decision's life.  Three attempts are
one that was given up, one that answers and one more.  Two commands that lose their
lock are an up or a down and what runs beside it, and two projects the one on
record and the one an up beside it starts.  The theorems below remove
the bounds for the safety properties they state.

Every constant whose name begins with `Max` or `Last`, other than `MaxEvents`,
`MaxArtifacts`, `MaxRaw`, `MaxPerSession`, `MaxMessages`, `MaxLifetime` and `MaxChainDepth`
(limits of the code, chosen small), exists only to make the state space finite.
Constraints (`Region`, `OneOther`) leave out behaviours in which everything
happens at once: they are named where they are defined.  Where bounds stop every
behaviour a configuration says `CHECK_DEADLOCK FALSE`; elsewhere deadlock is
checked, which in `locks` is the question whether transactions can wait for each
other for ever.

**Symmetry** is used for digests, connections, agents, request and call ids, the
founding owners, the local stack's commands, and the ids of sessions, tickets, invitations and organizations,
which are only compared for equality.  It is not used where a liveness property
is checked.

**Fairness.** Two modules assume any.  In `ApprovalLocks` a connection goes on to
its next statement (weak fairness of its own steps; the code awaits nothing but
the database inside a transaction), and acquiring a lock has strong fairness:
PostgreSQL's lock manager queues waiters, so a lock that is free again and again
is granted in the end, although others arrive between.  Nothing is assumed to
start, and a rollback is never forced.  In `CatalogApproval` reading and writing
go on (weak fairness): each fetch has a timeout of eight seconds, so it ends
whatever the server does, and a digest ends by itself.  The server, the network,
the user and the other tabs are assumed to do nothing.

**What the runs found.** `disabled_connection`: `configureConnection` with
`enabled=false` (`organizations.ts:1098-1109`) takes the connection's people out
and cuts off their sessions, but leaves invitations by and for them pending,
whereas `provision` revokes them; `docs/development/organization-lifecycle.md:75`
says both do.  The invitations cannot be accepted (`InvitationsStayVoid` and the
guard against inviting managed people), so the tables are untidy and nobody gets
in.  Two exceptions are written into properties because the code has them:
`InvitationsStayVoid` does not hold across an inviter's account being disabled
and enabled, since an invitation is bound to the inviter's membership version
and not to the `auth_version`; and `SessionsStayOut` does not hold across an
operator's `setMembership` or `setOrganizationStatus`, which move no cutoff.

`lost_lock`: the flock of the local stack is held by a helper process
(`scripts/local/environment.mjs:150-166`) whose death nobody hears of once it has
said `LOCKED` (186-191).  A Ctrl-C kills it, while the command catches the signal
(`scripts/environment.mjs:36-39`) and goes on: to `save` (382, 402, 409, 431, 436) or
to remove the credential and the state (444-445).  If another command takes the freed
lock meanwhile and its `up` starts a new project, the first one's write
replaces or removes the record of it, and it runs with no file that names it.
`docs/adr/ADR-010-local-development-lifecycle.md:9` has the flock serialize
the changes of the state.  `NothingUnaccounted` says how far that
goes: killed commands, and downs that run beside each other or beside the up that was
there first, lose nothing; only an up that begins before an earlier command
has ended can.

Reading the code for the models showed more that no documentation contradicts
and no property claims:

- A definite refusal (`rate_limited`, `version_conflict`) of a *repeated* write
  clears what the page remembered of it, although the first attempt may have been
  recorded; a new request id can follow.  A read that finds the approval clears
  the doubt though a delayed write may still arrive.  The server's versions keep
  this harmless; `NewIdOnlyAfterAnswer` counts any answer.
- `approvals.ts:534` compares the resource version and policy revision before it
  looks up an earlier request of the same id, so a repetition after a change is
  refused and not answered from the record.
- The organization page compares organization and context version of what it
  reads, not the person: after another login in another tab with the same
  organization and version it may show the new person's data under the old
  name, until a write is refused for its CSRF secret.  `OneOrganizationShown`
  says what does hold.  Clearing the page forgets an unconfirmed emergency
  command and an invitation's request id.
- After `down --confirm-stopped`, a kill between the removal of the credential
  and of the state file leaves a project no `down` can remove if the cut-off
  start still creates it (compose needs the credential).
- A workflow whose decision was committed and never signalled, or whose attempts
  ran out, cannot be restarted under its id and its request stays queued; an
  attempt that was given up may still commit after the workflow failed.

**Refinement.** `ImplementsOneShotGrant` maps the state of a request to a phase
(approved and issued are both "granted") and the resource version to the
target's; every transaction must be one step of the abstract grant or none.
`ImplementsCallMeter` maps each delegation to a meter that counts the calls made
anywhere below it: however a budget is split, what the descendants spend never
exceeds it, and a meter that closed counts no more.

## 4. What is proved

TLAPS checks the theorems for every value of the constants: any number of
people, agents, resources and requests, any lifetimes and depth, without the
bounds of the runs (they only disable actions, and no proof uses them).  Each is
about its component's own specification; in the instances that put components
side by side (`InboxSpec`, `CatalogSpec`, `StreamSpec`, `InputsSpec`,
`InspectionSpec`, `TenantSpec`, `SocketSpec`, `PolicySpec`, `DurableSpec`,
`StackSpec`, `PageSpec`) it is that of one part.  Every property of a passing run is
a theorem, but for the two on liveness.

The assumptions are those the modules state, and TLC evaluates each:

| Assumption | Says |
| --- | --- |
| `ConstantsAssumption`, `LifetimesAssumption`, `DelegationsAssumption`, `OrganizationsAssumption`, `IdentitySessionsAssumption` | constants have their types, and `Null`, `Nobody` or `None` is no row |
| `LocksAssumption` | people's ids are in an order, and a connection makes calls |
| `ListingAssumption`, `CatalogAssumption` | pages have a size, a window may send a request; bounds are natural |
| `SequenceAssumption` | event numbers are natural |
| `InputsAssumption` | each input has a producer, and a size |
| `EvidenceAssumption` | the plan's files are a finite sequence, and the plan is none of them |
| `TenantAssumption`, `SocketAssumption`, `SpecsAssumption` | the marks for "no call", "no session" and "no specification" are none of those; limits are natural |
| `PolicyAssumption` | moments and periods are counted in ticks |

### Approvals (`Approvals_proofs`)

| Theorem | States |
| --- | --- |
| `TypeCorrect` | every column has its type |
| `TablesAlwaysAgree` | request, decision, permit and receipt rows tell one story |
| `LiveAuthorityAlwaysPresent` | eager revocation misses nobody |
| `SettledStaysSettled` | a settled request never changes |
| `NobodyApprovesOwnRequest` | a decision is the requester's own exactly when policy made it |
| `EventsAlwaysReplay` | the events of a request replay to its row |
| `OneEffectAlways` | one executed request at most per resource version, doing what was approved |
| `EffectsAlwaysAuthorized` | whenever a resource changes, whoever asked, approved or acted directly has the authority at that moment |
| `ApprovalsAreOneShotGrants` | the component implements `OneShotGrant`: each step is one step of a request's grant or none |
| `TransactionsAreSteps` | taken apart into lock waits (`ApprovalLocks`), the transactions implement `Approvals` |
| `ChecksAlwaysHold` | what a transaction checked still holds when it commits, and a mutator revokes all it affects then |
| `CursorSkipsNothing` | events are committed in the order of their numbers |
| `InterleavedAreOneShotGrants` | so the transactions, taken apart, implement `OneShotGrant` too |

`TypeOK` is not inductive: that `permit.end` is a number depends on the terms
of the request existing, which `TablesAgree` says.  So `IInv == TypeOK /\
TablesAgree` carries the others.  `LiveAuthorityIsPresent` and
`EventsReplayToRows` are inductive relative to it; `OneEffectAlways` needs that
a receipt's version is never above the resource's, which is part of what it
states; the two action properties follow from the guards under `IInv`.

The refinement goes by the transactions: `IInv` makes the initial states initial
grants, and each transaction moves the phase of one request (`Execute` consumes it
and moves the target), or voids those a change of authority concerns, which the
abstract grant may do at any time, or moves no phase; the target's version moves
by itself only when no grant is consumed.

The other refinement is what the locks are for.  But for a new session's, `Commit` is
the only step that is not a stutter; that it is a step of `Approvals` needs that
every guard the transaction checked still holds.  `LockInv` says what a
connection may rely on while it waits: no two hold conflicting locks (`Exclusion`);
of the locks its call needs each is held or still to be taken (`Begun`, `Covered`:
all those for the people it looked up, among them the requester); a mutator that
did not ask for the event lock had nothing to revoke, and nothing it affects has
appeared since, for that would have needed the lock it holds (`Alone`); once
checked, the checks pass (`Settles`); and at most one transaction has uncommitted
events, the one with the event lock (`OneWriter`).  The weight is in three lemmas on
what a commit leaves alone: `CommitSparesScoped` for an approval or rename that has
checked (its rows, and the authority of everybody involved), `CommitSparesMutator`
and `CommitSparesSession`.  Each goes by the lock two calls would have to share:
what a call writes it holds exclusively (`MutatorWrites`, `ApprovalWrites`), what
another has read it holds at least shared (`ScopedHolds`), and `CanKept` shows that
the checks read nothing else.  An approver found only after the locks were chosen is
not relied on (`LocksCoverDecision`), without which `Covered` would not suffice.  The
proof needs no fairness and holds for any number of connections; that no
transaction waits for ever is left to the run `locks`.

### Delegations (`Delegations_proofs`)

| Theorem | States |
| --- | --- |
| `TypeCorrect` | every column has its type |
| `CallsAlwaysPaid` | each recorded call was paid once, no delegation spends and reserves beyond its terms |
| `AuthorityAlwaysShrinks` | along every chain authority only shrinks |
| `CutStaysCut` | what is revoked, expired or has lost its authority, or hangs below such, stays so and has no effect |
| `EffectsAlwaysDelegated` | an agent's effect is its owner's to make and granted all the way up |
| `ReservesAlwaysMatch` | a delegation has reserved what its children were given, to the call, and its version counts what happened to it |
| `DelegationsAreMeters` | the component implements `CallMeter`: whatever the tree, descendants together keep to the budget, and spend nothing once it ended |

The proofs begin with facts about chains (`AncestorShape`,
`AncestorOfAncestor`, `ChainOfChild`): the chain of a child is itself and its
parent's chain, so a property of all pairs in a chain follows from one of
neighbours, by the invariant of the parent.  `CallsArePaid` is strengthened by
the finiteness of the recorded calls.  `CutForGood` needs `DInv == TypeOK /\
AuthorityOnlyShrinks /\ BoundInv`: a delegation is bound to versions no higher
than the present ones, and versions only grow, so a binding once broken is never
met again; and all of its chain exists, so that a cut above it is one of an
existing row.

The last two are about sums over children and descendants.  The community modules
define such a sum by a recursive function that picks elements in an order nobody
knows; what is needed of it (that it exists and is a number, depends on its terms
only, grows by a term with an element: `SumSame`, `SumAdds`, `SumCounts`,
`SumGrows`) is shown without induction, by a smallest set for which it fails.
`ReservesMatchChildren` then is `BudgetInv`: an issue adds one child to one
delegation and reserves its calls there, and rows never leave.

For the meters `SpentInv` says that what was spent below a delegation is what it
spent and what was spent below its children; a call adds one to every sum on the way
up, because of the children of each delegation there exactly one is on that way
(`NextInChain`).  `NoneOverspends` is the argument: if some delegations overspent,
take a deepest.  Its children do not, so they spent at most what they were given,
which is what it has reserved; with what it spent itself that is within its terms, by
`CallsArePaid`.  Every step is then one of a meter: an issue opens one that is not
cut (`NewIsNotCut`), a call is counted by its chain, no member of which is cut, and
other steps can only close meters (`CutStays`).

### Console (`Console_proofs`)

| Theorem | States |
| --- | --- |
| `PagesAlwaysJoinUp` | whatever is created, decided or hidden between two pages of the inbox, nothing shows twice and nothing is missing that could be listed all along |
| `OneAuthorityAlways` | the pages of a listing are read under one authority |
| `NewIdAlwaysAfterAnswer` | a window that has not heard what became of a request sends no other |
| `StaleNeverAppears` | an approval shows at least as new as when its page last began to load, and after a suspension only once loaded |

`InboxInv` says of the cursor of the inbox, and of the one it is asking with, that
what could be listed all along and does not lie beyond the cursor has been shown, and
nothing beyond it has (`Joined`), and to which authority it is bound (`BoundTo`).  A
page takes the newest ones beyond the cursor (`NewestOnes`), and the oldest of them is
the next cursor; what is created is newer than the head of the listing, and what
is hidden or decided in between is no longer among what could be listed all along.

`CatalogInv` is about what the controller's pieces of work know of each other: at
most one reader is live, and none besides a live write except the one a finished
command makes (`Loading`, `Writing`); what may be in doubt is one request, the one
that would be repeated (`Doubt`); a page that is ready says so (`ViewTrue`); and the
version the page may not fall behind is no higher than that of the row (`Floor`),
which only grows (`MoveGrows`, `FloorHolds`).  One lemma per action shows `Kept`: the
invariant again, that a page which becomes ready is no staler than it may be, and
that no second request comes into doubt.

### Runtime observation (`Runtime_proofs`)

| Theorem | States |
| --- | --- |
| `ContiguousIsComplete` | "contiguous" means that nothing shown is missing, and a stream ends only with the run it told of |
| `JournalTellsOneRun` | a journal of any length is the story of one run |

Here an observer is a value, so the argument goes by values: `Good(o, j, h)` says
of an observer, its journal and the highest number it was shown that they count
alike (`Counted`), that the observer remembers of the journal what its next
decision needs (`Told`: the last open question, the ids asked for, whether a stop
was asked or an end told) and that every event was justified by those before it
(`OneRun`).  `NewGood` shows that each branch of `accept()` makes good of good,
`AcceptedContiguous` that a reader that goes on has missed nothing, and
`StreamInv` adds what its status implies (`Fed`).  The journal is not limited to
`MaxEvents` in the proof, and any number of ids may occur; `SequenceAssumption`
is the only assumption.

### Organizations (`Organizations_proofs`)

| Theorem | States |
| --- | --- |
| `TypeCorrect` | every column has its type |
| `HeldNeverHaveInvitations` | no invitation by or for somebody held is open |
| `SessionsAlwaysStayOut` | a session that was shut out stays out, unless an operator restores |
| `TicketsAlwaysStayVoid` | so does a ticket of the identity provider |
| `InvitationsAlwaysStayVoid` | and an invitation |
| `ProviderAlwaysDecides` | whom the provider put out only the provider or an operator lets in |
| `OwnersAlwaysRemain` | owners and administrators always leave one who can act |

`IInv` says that types hold (for which a guest must only ever be invited as a
viewer), that nothing is from the future, and that who is held has no
invitation.  *Nothing from the future* is what makes "stays out" true: what a
session, a ticket or an invitation remembers of other rows (versions, the moment
it was made) is at most what they are now.  Versions and cutoffs only grow
(`AccountsAge`, `ProviderAges`, `MemberAges`), and whatever takes access away
makes one of them grow, so a comparison that failed once never succeeds again.
The action properties then split by who acts: one lemma per kind of change says
what it may do to a session, a ticket or an invitation (`SessionFollows`,
`TicketFollows`, `InvitationFollows`).  `OwnersRemain` needs no invariant but
types: the guard counts the owners who remain, and the lemma on it is about
finite sets.

The proof of `ProviderDecides` failed at first, for a reason the run's bounds hid:
an operator may restore a held member whom the provider had put out, and an
owner's release then lets that member in.  The property now speaks of members
who are put out *and* revoked (`PutOut`), which is what the code guarantees; the
operator's part is in its comment.

### Sessions (`IdentitySessions_proofs`)

| Theorem | States |
| --- | --- |
| `TypeCorrect` | rows, calls and locks have their types |
| `OneSessionAlways` | one login never has two sessions alive, and its sessions end together |
| `SessionsAlwaysDieWithTickets` | who authenticates has a consumed ticket of the account's present version |
| `VersionsAlwaysMeanOneOrganization` | within a login a context version stands for one organization |

Calls are interleaved statement by statement, so the invariant must say what a
call may rely on between two: `LocksInv`, that a call past its first statement
holds its row's lock and the row still is what it found.  `RowsInv` ties each
session to its ticket, and `ContextsInv` says that what was ever answered about a
login is of a version no later than its live session's, and of its organization
if of the same version.  Each action falls into one of six shapes (`Quiet`,
`Issues`, `Keeps`, `Moves`, `CommitLogin`, `Rotates`), and the properties are
proved of the shapes.

### Inputs (`Runtime_proofs`)

`AlwaysAllOrNothing`: for any producers, inputs and sizes, whatever overlaps or is
aborted, the caller is given every declared input or none, and what was stopped
keeps nothing.  `InputsInv` adds to the property that a producer past its stream
was told of a match and a reader that matched is sound (`Matches`), and what a
status implies: alone, a handoff listens to one producer and is "ready" only with
a matched reader (`AloneInv`); a bundle that is stopped has every reader closed and
every stream given up, so that nobody answers it late (`BundledInv`).

`PassedAlwaysASnapshot`: for a plan that names any number of files, whatever
other programs do to them and whenever a signal comes, what passed was there when
the bundle began and when the last byte had been read.  `LaidOut` says which step
of the inspection is where: of every file an `lstat` before the bundle begins, a
read before the last byte, a look at its handle after it; and no file is acquired
again once it was read.  `SnapshotInv` orders what was seen of a file by what its
name bore then (`SeenInOrder`): acquired, begun, done, now, with every chunk read
no earlier than acquired unless the handle had lost its name.  As other programs
only make it later, a last look that finds what was acquired leaves room for no
other value in between (`SettledWhenSeenAgain`).

### Service (`Service_proofs`)

| Theorem | States |
| --- | --- |
| `NothingEverOutlivesItsTransaction` | when `transaction()` settles no operation goes on; rows and answers are the caller's organization's |
| `SocketsAlwaysCounted` | both counts are those of the sockets there are, within their limits; none is open after the service closed |
| `DecisionsGoodUntilTheDeadline` | a decision would be made again until its deadline; a rename writes only what is allowed when it writes |

`TenantInv`: a connection is held by at most one call, and the transaction open
on it is the holder's, or over when the answer to a COMMIT was lost
(`Exclusively`); what is written in a transaction is its call's (`WrittenInIt`);
operations are under way only while their call works or drains (`Underway`).
The steps of `transaction()` are one shape, `Moves`: the call, its connection and
perhaps the committed rows move together.

`SocketInv`: a socket that is there is charged to its session exactly if it has
one, `sessions` is the cardinality of the sockets charged, and none is up while
the service stops.  A step is let in, let go, or `Quiet`.

`PolicyInv`: a decision of the present revision gives, at every moment between now
and its deadline, the outcome it has (`Keeps`).  That a new one does is `SameUntil`:
no rule begins or ends before the least of the limits (`MinIsLeast`), so the
rules in force are the same.

### Operations (`Operations_proofs`)

| Theorem | States |
| --- | --- |
| `OutcomeAlwaysCommitted` | the workflow tells only of an outcome that was committed, once, as decided |
| `NothingEverUnaccounted` | for any number of commands, killed or without their lock at any step: until an up begins beside an earlier command, whatever the daemon has or may make is what the file names |
| `OneOrganizationAlwaysShown` | all a page shows and would retry is of one organization |

`DurableInv` adds that nothing is dispatched, started or decided before it is
asked for, and that an attempt about to answer has seen its outcome committed.
`StackInv` promises nothing but types once `beside` is set, which is for
good.  Before, `Alone` holds: every command that is under way, and the file
if there is one, speak of the project started last (`OneProject`); at most one of
them is an up (`OneUp`), and nobody is beside it until it has recorded the project
(`Unrecorded`).  With no lock to rely on, what several downs write must be harmless
in any order, and the reason is what they know: as soon as any command, or the
file, says that the start's outcome is known, nothing of it is pending any more
(`OverOnceKnown`), so an older copy saved over a newer one only says less; and
who is about to forget has seen nothing left, or was told to give up
(`Forgettable`).  `PageInv` adds that of
two pieces of work at most one still counts, that it was started for the session
the page goes by, and that nothing is shown while a switch is awaited.  The proof
of the first showed that a `CASE` of the model had overlapping guards
(`DurableWorkflow!Answered`), whose value TLA+ leaves open; it is now written in
the order of the code.

## 5. Limits

Only model-checked: liveness (`TransactionsEnd`, `WorkEnds`), which the provers
cannot reach; and `DisabledHaveNoInvitations` and `AllAccounted`, which the code
violates.

Assumed: PostgreSQL gives READ COMMITTED transactions and advisory locks as
documented; commits are atomic and durable; the workflow service and the
container daemon behave as section 2 says.  Outside the model: hashing and
randomness (digests and ids are fresh), bounds of 2^31 on versions (an
organization would need billions of changes), the 128-request limit of a page,
input validation, wire formats and wording; a database clock that steps back;
a cutoff of an organization's sessions that overlaps a login (a session made
between the cutoff's clock and its commit survives it, refused only while its
member is out: `identity.ts:209` in the hazards); bundles without inputs; the
login limiter's window.

Exercised in part, as the hazards say: the order of locks (`TransactionsEnd`) is
that of the calls of `approvals.ts`, `identity.ts` and `policy.ts`, while those of
`agents.ts` and `organizations.ts`, which take the same keys in the same order, are
not in `ApprovalLocks`; an issue of a delegation is one step, at its last check, so
nothing can run out while it waits for resource locks; the switch of a
connection and a login are one step each and come in any order, but do not overlap;
and the second look of `lockedSession()` is modelled, but as much may happen
after it as during the wait, so no property would miss it.

Abstractions without effect on a property: a rotated session keeps its times
exactly, where `identity.ts:383-384` sends them through a JavaScript date and cuts
them to the millisecond, which only makes a session older; an
`authentication_required` answer is one of the failures of `CatalogApproval`,
`Workbench` and `ApprovalInbox`; in `RuntimeInspection` a directory that was replaced
does not come back, though `checkRoot` would accept it.

Not modelled:

- the organization audit view, which reads one page of what others append;
- versioned content primitives, repository comparison, review notes and their
  merge: pure functions over JSON, without state or concurrency;
- views, wire formats, configuration and telemetry: no state that outlives a
  call, other than what the pages' modules have;
- read-only Git inspection and maintenance scripts: I/O and parsing;
- the test kit, which serves the repository's own tests.

## 6. Plan

The components whose order of steps matters are modelled, and what they promise is
proved but for liveness.  What remains are hazards without a property: a
cutoff of `Organizations` that commits inside `consumeTicket`, and a database clock
that steps back; and, to exercise more of two others, the lock waits of `agents.ts`
and `organizations.ts` in the manner of `ApprovalLocks`.
