----------------------------- MODULE Delegations -----------------------------
(***************************************************************************)
(* Agents and the delegations they act under: packages/db/src/agents.ts    *)
(* (PostgresDelegationRepository) with packages/policy/src/delegation.ts.  *)
(*                                                                         *)
(* A human issues a delegation to an agent of theirs, its holder may pass  *)
(* on a narrower one to another agent, and so on; each carries a number of *)
(* calls, part of which it spends and part of which it reserves for the    *)
(* delegations below.  A call reads or renames a catalog resource.         *)
(*                                                                         *)
(* Every method is one transaction that holds the lock agent-tree of its   *)
(* organization, exclusively, and those of its owner's authority, shared,  *)
(* before it reads; an action here is such a transaction.  Lifetimes and   *)
(* rules are looked at again after the last lock wait, so the clock of an  *)
(* action is that of its last check.  Refused calls, and repeated ones,    *)
(* which return what is stored, are stuttering steps.                      *)
(***************************************************************************)
EXTENDS Authorization, Sequences, FiniteSetsExt

CONSTANTS
  Agent,
  RequestId, CallId,   \* request_id of an issue and of a tool call
  Offer,           \* terms a request may ask for
  MaxChainDepth,   \* MAX_CHAIN_DEPTH
  MaxLifetime,     \* MAX_DELEGATION_MS in ticks
  Skew,            \* how far not_before may lie in the past, in ticks
  TreeLimit,       \* most delegations under one root
  MaxIssued,       \* bound of a model: most delegations of the organization
  Null

(* A delegation is identified by its owner and the request ids of its      *)
(* issues from the root down: UNIQUE(org_id, issuer_key, request_id) with  *)
(* issuer_key the human's or the parent's id.  Its credential is its own.  *)
Delegation ==
  [owner: Human, path: UNION {[1..n -> RequestId] : n \in 1..MaxChainDepth}]

Depth(d) == Len(d.path)
Ancestor(d, n) == [owner |-> d.owner, path |-> SubSeq(d.path, 1, n)]
Parent(d) == Ancestor(d, Depth(d) - 1)

(* The delegation and those it descends from. *)
Chain(d) == {Ancestor(d, n) : n \in 1..Depth(d)}

Terms == [scope: [Resource -> SUBSET Action],   \* one entry per resource
          from: Nat, until: Nat, calls: Nat, depth: Nat]
Row == [agent: Agent, agentVersion: Nat, stamp: Stamps, terms: Terms]
AgentRow == [owner: Human, version: Nat, active: BOOLEAN]
Call == [resource: Resource, action: Action, version: Nat]

ASSUME DelegationsAssumption ==
  /\ Offer \subseteq Terms
  /\ MaxChainDepth \in Nat \ {0}
  /\ MaxLifetime \in Nat \ {0}
  /\ Skew \in Nat
  /\ TreeLimit \in Nat \ {0}
  /\ Null \notin Row \cup AgentRow \cup Call

VARIABLES
  agents,     \* [Agent -> AgentRow], Null for no row
  row,        \* [Delegation -> Row], immutable columns and snapshot
  reserved, used, edition,   \* edition is the delegation's object_version
  revoked,
  operations  \* [Delegation -> [CallId -> Call]]

delegationVars ==
  <<agents, row, reserved, used, edition, revoked, operations>>
vars == <<authorityVars, session, resource, clock, delegationVars>>

Init ==
  /\ AuthorizationInit
  /\ agents = [x \in Agent |-> Null]
  /\ row = [d \in Delegation |-> Null]
  /\ reserved = [d \in Delegation |-> 0]
  /\ used = [d \in Delegation |-> 0]
  /\ edition = [d \in Delegation |-> 0]
  /\ revoked = [d \in Delegation |-> FALSE]
  /\ operations = [d \in Delegation |-> [r \in CallId |-> Null]]

Issued == {d \in Delegation : row[d] # Null}
Made(d) == {r \in CallId : operations[d][r] # Null}
Children(d) == {e \in Issued : Depth(e) > 1 /\ Parent(e) = d}

-----------------------------------------------------------------------------
(* Terms and chains. *)

ValidTerms(t) ==
  /\ \E x \in Resource : t.scope[x] # {}
  /\ \A x \in Resource : t.scope[x] # {} => "resource.read" \in t.scope[x]
  /\ t.from < t.until /\ t.until <= t.from + MaxLifetime
  /\ t.calls >= 1
  /\ t.depth \in 1..MaxChainDepth

AttenuatesToSameDepth(p, c) ==
  /\ ValidTerms(p) /\ ValidTerms(c)
  /\ c.from >= p.from /\ c.until <= p.until
  /\ c.calls <= p.calls
  /\ c.depth <= p.depth
  /\ \A x \in Resource : c.scope[x] \subseteq p.scope[x]

(* isAttenuation: nothing in c goes beyond p. *)
Attenuates(p, c) ==
  /\ ValidTerms(p) /\ ValidTerms(c)
  /\ c.from >= p.from /\ c.until <= p.until
  /\ c.calls <= p.calls
  /\ c.depth < p.depth
  /\ \A x \in Resource : c.scope[x] \subseteq p.scope[x]

RemainingForgetsReserved(d) == row[d].terms.calls - used[d]

(* remainingCalls. *)
Remaining(d) == row[d].terms.calls - reserved[d] - used[d]

(* Bound at issue to the agent's version and the owner's authority. *)
StillBound(d) ==
  LET x == agents[row[d].agent] IN
  /\ x.active /\ x.version = row[d].agentVersion
  /\ row[d].stamp = Stamp(d.owner)

WithinDates(t) == t.from <= clock /\ clock < t.until

LiveLeafOnly(d) ==
  /\ Authority(d.owner)
  /\ ~revoked[d] /\ StillBound(d) /\ WithinDates(row[d].terms)

(* chain(): every delegation from d up to its root is valid now, each      *)
(* narrower than its parent and no agent twice.                            *)
Live(d) ==
  /\ Authority(d.owner)
  /\ \A e \in Chain(d) :
       /\ row[e] # Null
       /\ ~revoked[e] /\ StillBound(e) /\ WithinDates(row[e].terms)
       /\ Depth(e) > 1 => Attenuates(row[Parent(e)].terms, row[e].terms)
  /\ \A e, f \in Chain(d) : row[e].agent = row[f].agent => e = f

OwnerMayRead(h, x, action) == Reads(h)

(* permit(): policy allows the owner the action outright. *)
OwnerMay(h, x, action) ==
  IF action = "resource.read" THEN Reads(h) ELSE Writes(h, x) = "allow"

(* checkTerms(): the dates are near and the owner may do all of it now.    *)
(* (A scope whose environment is not the resource's is refused.)           *)
Affordable(h, t) ==
  /\ ValidTerms(t)
  /\ clock < t.until /\ t.until <= clock + MaxLifetime
  /\ clock <= t.from + Skew
  /\ \A x \in Resource : \A action \in t.scope[x] : OwnerMay(h, x, action)

OwnedActive(h, x) ==
  agents[x] # Null /\ agents[x].owner = h /\ agents[x].active

-----------------------------------------------------------------------------
(* The operations.  h is the human of an interactive session; d the        *)
(* delegation whose credential is presented.                               *)

Register(h, x) ==
  /\ Actor(h)
  /\ agents[x] = Null
  /\ agents' = [agents EXCEPT
                  ![x] = [owner |-> h, version |-> 1, active |-> TRUE]]
  /\ UNCHANGED <<authorityVars, session, resource, clock, row, reserved, used,
                 edition, revoked, operations>>

Disable(h, x, v) ==
  /\ Actor(h)
  /\ OwnedActive(h, x)
  /\ v = agents[x].version
  /\ agents' = [agents EXCEPT ![x].active = FALSE, ![x].version = @ + 1]
  /\ UNCHANGED <<authorityVars, session, resource, clock, row, reserved, used,
                 edition, revoked, operations>>

(* The rows issue() inserts for d. *)
Insert(d, x, t) ==
  /\ row[d] = Null
  /\ Cardinality(Issued) < MaxIssued
  /\ OwnedActive(d.owner, x)
  /\ Affordable(d.owner, t)
  /\ row' = [row EXCEPT
               ![d] = [agent |-> x, agentVersion |-> agents[x].version,
                       stamp |-> Stamp(d.owner), terms |-> t]]

IssueRoot(d, x, t) ==
  /\ Depth(d) = 1
  /\ Actor(d.owner)
  /\ Insert(d, x, t)
  /\ edition' = [edition EXCEPT ![d] = 1]
  /\ UNCHANGED <<authorityVars, session, resource, clock, agents, reserved,
                 used, revoked, operations>>

Tree(d) == {e \in Issued : e.owner = d.owner /\ e.path[1] = d.path[1]}

ReserveNothing(p, n) == UNCHANGED reserved
Reserve(p, n) == reserved' = [reserved EXCEPT ![p] = @ + n]

(* delegate(): the holder of d's parent has d issued to agent x. *)
Delegate(d, x, t) ==
  LET p == Parent(d) IN
  /\ Depth(d) > 1
  /\ row[p] # Null /\ Live(p)
  /\ Insert(d, x, t)
  /\ Attenuates(row[p].terms, t)
  /\ \A e \in Chain(p) : row[e].agent # x
  /\ t.calls <= Remaining(p)
  /\ Cardinality(Tree(p)) < TreeLimit
  /\ Reserve(p, t.calls)
  /\ edition' = [edition EXCEPT ![p] = @ + 1, ![d] = 1]
  /\ UNCHANGED <<authorityVars, session, resource, clock, agents, used,
                 revoked, operations>>

RevokeDelegation(h, d, v) ==
  /\ Actor(h)
  /\ row[d] # Null /\ d.owner = h /\ ~revoked[d]
  /\ v = edition[d]
  /\ revoked' = [revoked EXCEPT ![d] = TRUE]
  /\ edition' = [edition EXCEPT ![d] = @ + 1]
  /\ UNCHANGED <<authorityVars, session, resource, clock, agents, row,
                 reserved, used, operations>>

(* invoke(): call r of d's holder, charged to d.  A rename names the    *)
(* resource version v and policy revision it was decided on.               *)
Invoke(d, r, x, action, n, v, revision) ==
  LET h == d.owner
      renames == action = "resource.update"
  IN
  /\ row[d] # Null /\ Live(d)
  /\ \A e \in Chain(d) : action \in row[e].terms.scope[x]
  /\ OwnerMay(h, x, "resource.read") /\ OwnerMay(h, x, action)
  /\ operations[d][r] = Null
  /\ Remaining(d) >= 1
  /\ renames => v = resource[x].version /\ revision = policy.revision
  /\ used' = [used EXCEPT ![d] = @ + 1]
  /\ edition' = [edition EXCEPT ![d] = @ + 1]
  /\ IF renames
     THEN resource[x].version < MaxResourceVersion /\ ResourceRow(x, n)
     ELSE UNCHANGED resource
  /\ operations' = [operations EXCEPT
                      ![d][r] = [resource |-> x, action |-> action,
                                 version |-> resource'[x].version]]
  /\ UNCHANGED <<authorityVars, session, clock, agents, row, reserved, revoked>>

DelegationStep ==
  \/ \E h \in Human, x \in Agent :
       \/ Register(h, x)
       \/ \E v \in 1..2 : Disable(h, x, v)
  \/ \E d \in Delegation :
       \/ \E x \in Agent, t \in Offer : IssueRoot(d, x, t) \/ Delegate(d, x, t)
       \/ \E h \in Human : RevokeDelegation(h, d, edition[d])
       \/ \E r \in CallId, x \in Resource, action \in Action, n \in Name :
            Invoke(d, r, x, action, n, resource[x].version, policy.revision)

(* Identity and policy tell delegations nothing. *)
OwnersStep == AuthorizationStep /\ UNCHANGED delegationVars

Next == DelegationStep \/ OwnersStep

Spec == Init /\ [][Next]_vars

-----------------------------------------------------------------------------
(* Correctness. *)

(* The columns of every table hold values of their types.                  *)
TypeOK ==
  /\ AuthorizationTypeOK
  /\ agents \in [Agent -> AgentRow \cup {Null}]
  /\ row \in [Delegation -> Row \cup {Null}]
  /\ reserved \in [Delegation -> Nat]
  /\ used \in [Delegation -> Nat]
  /\ edition \in [Delegation -> Nat]
  /\ revoked \in [Delegation -> BOOLEAN]
  /\ operations \in [Delegation -> [CallId -> Call \cup {Null}]]

(* Every call on record was paid for once, and no delegation spends and    *)
(* reserves more than it was given: the counters of agents.ts, which issue *)
(* and invoke move by guarded updates, agree with the operations table.    *)
CallsArePaid ==
  \A d \in Delegation :
    /\ used[d] = Cardinality(Made(d))
    /\ row[d] = Null => used[d] = 0 /\ reserved[d] = 0 /\ ~revoked[d]
    /\ row[d] # Null => used[d] + reserved[d] <= row[d].terms.calls

(* What a delegation has reserved is what its children were given, to the  *)
(* call, and its object_version counts what happened to it: no budget is   *)
(* lost or returned, whichever children expire or are revoked.             *)
ReservesMatchChildren ==
  \A d \in Issued :
    /\ reserved[d] = MapThenSumSet(LAMBDA c : row[c].terms.calls, Children(d))
    /\ edition[d] = 1 + Cardinality(Children(d)) + used[d]
                      + (IF revoked[d] THEN 1 ELSE 0)

(* What d may do, e above it may, in the same time and at least as deep;   *)
(* both act for one owner, through different agents.                       *)
Narrower(d, e) ==
  /\ e \in Issued
  /\ agents[row[e].agent] # Null /\ agents[row[e].agent].owner = d.owner
  /\ row[d].terms.from >= row[e].terms.from
  /\ row[d].terms.until <= row[e].terms.until
  /\ row[d].terms.depth + Depth(d) <= row[e].terms.depth + Depth(e)
  /\ \A x \in Resource :
       row[d].terms.scope[x] \subseteq row[e].terms.scope[x]
  /\ row[d].agent = row[e].agent => d = e

(* Along a chain authority only shrinks, from the root to every leaf, not  *)
(* only from a delegation to the next.  chain() re-checks neighbours at    *)
(* every use and would refuse every call of a tree that violates it.       *)
AuthorityOnlyShrinks ==
  \A d \in Issued : \A e \in Chain(d) : Narrower(d, e)

(* A delegation is cut when it or one above it is revoked or has expired,  *)
(* its agent was disabled, or the owner's authority has changed since.     *)
Cut(d) ==
  \E e \in Chain(d) :
    revoked[e] \/ ~StillBound(e) \/ row[e].terms.until <= clock

(* What is cut stays cut, and neither it nor anything below it makes a     *)
(* call or passes calls on again.                                          *)
CutForGood ==
  [][\A d \in Issued : Cut(d) =>
       /\ Cut(d)'
       /\ UNCHANGED <<used[d], reserved[d], operations[d]>>]_vars

(* An agent's call does what its accountable owner may do outright at that *)
(* moment and what every delegation above it grants; a resource changes    *)
(* by one such call or by a person's own.                                  *)
EffectsAreDelegated ==
  [][/\ \A d \in Delegation, r \in CallId :
          operations'[d][r] # operations[d][r] =>
            LET c == operations'[d][r] IN
            /\ operations[d][r] = Null
            /\ Authority(d.owner) /\ Reads(d.owner)
            /\ c.action = "resource.update"
                 => Writes(d.owner, c.resource) = "allow"
            /\ ~Cut(d)
            /\ \A e \in Chain(d) :
                 /\ row[e].terms.from <= clock
                 /\ c.action \in row[e].terms.scope[c.resource]
            /\ c.version = resource[c.resource].version
                             + (IF c.action = "resource.update" THEN 1 ELSE 0)
     /\ \A x \in Resource : resource'[x] # resource[x] =>
          \/ \E h \in Human : Actor(h) /\ Writes(h, x) = "allow"
          \/ \E d \in Delegation, r \in CallId :
               /\ operations'[d][r] # operations[d][r]
               /\ operations'[d][r] = [resource |-> x,
                                       action |-> "resource.update",
                                       version |-> resource'[x].version]]_vars

(* Each delegation, the calls made anywhere below it included, is a meter. *)
Below(d) == {e \in Issued : d \in Chain(e)}

CallsGiven ==
  [d \in Delegation |-> IF d \in Issued THEN row[d].terms.calls ELSE 0]
CallsMade ==
  [d \in Delegation |-> MapThenSumSet(LAMBDA e : used[e], Below(d))]
Ended == {d \in Issued : Cut(d)}
EndedMeters == [d \in Delegation |-> d \in Ended]

Meters == INSTANCE CallMeter WITH
  Meter <- Delegation,
  limit <- CallsGiven, spent <- CallsMade, closed <- EndedMeters

(* However a budget is split among descendants, what they spend together   *)
(* never exceeds it.                                                       *)
ImplementsCallMeter == Meters!Spec
=============================================================================
