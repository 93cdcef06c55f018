----------------------------- MODULE TenantScope -----------------------------
(***************************************************************************)
(* The data plane: a caller's work runs against a unit of work inside one   *)
(* transaction on a pooled connection. No statement names an organization:  *)
(* the database adds and fences it, by the context bound to the backend's   *)
(* current transaction. The caller's code may start operations and not wait *)
(* for them, swallow their errors, throw, or keep the unit after it ended.  *)
(***************************************************************************)
EXTENDS Naturals, FiniteSets

CONSTANTS Calls,       \* calls of transaction(), each with a session of its own
          OrgOf,       \* the organization of each
          Connections, \* the pool (at most 8 in the code)
          Ids,         \* object ids
          MayStart     \* how many operations each caller may start

VARIABLES call,    \* [pc, on, open, failed]: its connection, whether its unit is open, whether an operation failed
          op,      \* op[t][o]: [kind, id, at] of each operation
          backend, \* the server's side of each connection
          rows,    \* committed rows of object_keys and object_links, and the call that wrote each
          auth,    \* what each session may do: "writer", "reader", "none"
          shown    \* rows each caller was given

tenantVars == <<call, op, backend, rows, auth, shown>>

Operations(t) == 1..MayStart[t]
Nowhere == "nowhere"
NoCall == "nobody"
Closed == "closed"

\* a call is none of these; an organization has an id
ASSUME TenantAssumption == NoCall \notin Calls /\ Closed \notin Calls /\ \A t \in Calls : OrgOf[t] # "none"

Clear == [in |-> NoCall, bound |-> NoCall, aborted |-> FALSE, writes |-> {}]
NotStarted == [kind |-> "none", id |-> "none", at |-> "none"]

TenantInit ==
  /\ call = [t \in Calls |-> [pc |-> "idle", on |-> Nowhere, open |-> FALSE, failed |-> FALSE]]
  /\ op = [t \in Calls |-> [o \in Operations(t) |-> NotStarted]]
  /\ backend = [c \in Connections |-> Clear]
  /\ rows = {} /\ shown = [t \in Calls |-> {}]
  /\ auth \in [Calls -> {"writer", "reader"}]

Goes(t, pc) == call' = [call EXCEPT ![t].pc = pc]
At(t, pc) == call[t].pc = pc
DataStays == UNCHANGED <<op, rows, auth, shown>>

(***************************************************************************)
(* The database. verified_scope(): the context bound to this transaction,   *)
(* as long as its session is good for it now.                              *)
(***************************************************************************)
CurrentOrg(b) == IF b.in # NoCall /\ b.bound = b.in /\ auth[b.bound] # "none" THEN OrgOf[b.bound] ELSE "none"
Writable(b) == CurrentOrg(b) # "none" /\ auth[b.bound] = "writer"
Visible(b) == {k \in rows \cup b.writes : k.org = CurrentOrg(b)}

(* bind_context() locks what an authority depends on; only time passes.     *)
Locked(t) == \E c \in Connections : backend[c].in = t /\ backend[c].bound # NoCall
Demoted(t) == auth[t] = "writer" /\ ~Locked(t) /\ auth' = [auth EXCEPT ![t] = "reader"]
Removed(t) == ~Locked(t) /\ auth' = [auth EXCEPT ![t] = "none"]
Expired(t) == auth' = [auth EXCEPT ![t] = "none"]
Authority == (\E t \in Calls : Demoted(t) \/ Removed(t) \/ Expired(t)) /\ UNCHANGED <<call, op, backend, rows, shown>>

(***************************************************************************)
(* The unit of work.                                                       *)
(***************************************************************************)
Pending(t) == {o \in Operations(t) : op[t][o].at \in {"insert", "select"}}
Settle(t, o, at) ==
  /\ op' = [op EXCEPT ![t][o].at = at]
  /\ call' = [call EXCEPT ![t].failed = @ \/ at = "failed"]

(* register(), link(): an insert, then a select; getMany(), linked(): only  *)
(* the select. A unit that was closed refuses, and nothing happens.        *)
Start(t) ==
  /\ call[t].open
  /\ \E o \in Operations(t), kind \in {"key", "link", "read"}, id \in Ids :
       /\ o = 1 + Cardinality({p \in Operations(t) : op[t][p].at # "none"})
       /\ op' = [op EXCEPT ![t][o] = [kind |-> kind, id |-> id, at |-> IF kind = "read" THEN "select" ELSE "insert"]]
  /\ UNCHANGED <<call, backend, rows, auth, shown>>

(* A statement runs on the connection the unit holds, in whatever           *)
(* transaction that connection is in by then. A link is refused unless the  *)
(* organization has the key.                                               *)
Insert(t, o) ==
  LET c == call[t].on
      b == backend[c]
      row == [what |-> op[t][o].kind, org |-> CurrentOrg(b), id |-> op[t][o].id, by |-> t]
      has(what) == \E r \in Visible(b) : r.what = what /\ r.id = row.id
  IN /\ op[t][o].at = "insert" /\ UNCHANGED <<rows, auth, shown>>
     /\ IF Writable(b) /\ ~b.aborted /\ (row.what = "link" => has("key"))
          THEN /\ backend' = [backend EXCEPT ![c].writes = @ \cup (IF has(row.what) THEN {} ELSE {row})]
               /\ op' = [op EXCEPT ![t][o].at = "select"] /\ UNCHANGED call
          ELSE backend' = [backend EXCEPT ![c].aborted = b.in # NoCall] /\ Settle(t, o, "failed")

(* What was inserted must be found, as what it was to be; a batch is given  *)
(* whatever there is.                                                      *)
Select(t, o) ==
  LET b == backend[call[t].on]
      found == {r \in Visible(b) : r.id = op[t][o].id}
  IN /\ op[t][o].at = "select" /\ UNCHANGED <<backend, rows, auth>>
     /\ \/ /\ b.aborted \/ op[t][o].kind # "read"
           /\ Settle(t, o, "failed") /\ UNCHANGED shown
        \/ /\ ~b.aborted /\ (op[t][o].kind = "read" \/ \E r \in found : r.what = op[t][o].kind)
           /\ Settle(t, o, "ok") /\ shown' = [shown EXCEPT ![t] = @ \cup {r.org : r \in found}]

(* The connection breaks, or the statement runs too long.                  *)
StatementFails(t, o) ==
  /\ op[t][o].at \in {"insert", "select"} /\ Settle(t, o, "failed")
  /\ backend' = [backend EXCEPT ![call[t].on].aborted = backend[call[t].on].in # NoCall]
  /\ UNCHANGED <<rows, auth, shown>>

UnitStep == \E t \in Calls : Start(t) \/ \E o \in Operations(t) : Insert(t, o) \/ Select(t, o) \/ StatementFails(t, o)

(***************************************************************************)
(* transaction().                                                          *)
(***************************************************************************)
Over(t) == call[t].pc \in {"idle", "done", "failed"}

Connect(t) ==
  /\ At(t, "idle") /\ DataStays
  /\ \/ \E c \in Connections :
          /\ \A s \in Calls : call[s].on = c => Over(s)
          /\ call' = [call EXCEPT ![t].on = c, ![t].pc = "connected"]
          /\ backend' = [backend EXCEPT ![c].in = t]
     \/ Goes(t, "failed") /\ UNCHANGED backend

(* The role was checked; the context is bound, and verified again.         *)
Bind(t) ==
  LET b == [backend[call[t].on] EXCEPT !.bound = t] IN
  /\ At(t, "connected") /\ DataStays
  /\ backend' = [backend EXCEPT ![call[t].on] = b]
  /\ IF CurrentOrg(b) = OrgOf[t] THEN call' = [call EXCEPT ![t].pc = "working", ![t].open = TRUE]
                                 ELSE Goes(t, "failing")

(* work() resolves. What it left running makes the whole call fail, and so  *)
(* does what failed without its noticing.                                  *)
Returns(t) ==
  /\ At(t, "working") /\ DataStays /\ UNCHANGED backend
  /\ call' = [call EXCEPT ![t].open = FALSE,
                          ![t].pc = IF Pending(t) = {} /\ ~call[t].failed THEN "finishing" ELSE "failing"]

Throws(t) ==
  /\ call[t].pc \in {"connected", "working", "finishing", "committing"}
  /\ call' = [call EXCEPT ![t].open = FALSE, ![t].pc = "failing"] /\ DataStays /\ UNCHANGED backend

(* finish_context(): the authority must still hold, and is then let go.     *)
Finish(t) ==
  LET b == backend[call[t].on] IN
  /\ At(t, "finishing") /\ DataStays
  /\ IF CurrentOrg(b) = OrgOf[t] /\ ~b.aborted
       THEN backend' = [backend EXCEPT ![call[t].on].bound = Closed] /\ Goes(t, "committing")
       ELSE Goes(t, "failing") /\ UNCHANGED backend

(* COMMIT; its answer may be lost.                                         *)
Commit(t) ==
  LET c == call[t].on IN
  /\ At(t, "committing") /\ UNCHANGED <<op, auth, shown>>
  /\ rows' = rows \cup backend[c].writes
  /\ backend' = [backend EXCEPT ![c] = Clear]
  /\ Goes(t, "done") \/ Goes(t, "failing")

\* mutant: the transaction is rolled back while operations are still under way
DrainsNothing(t) == TRUE

Drained(t) == Pending(t) = {}

(* ROLLBACK, then the connection goes back, or away when that fails too.    *)
Rollback(t) ==
  /\ At(t, "failing") /\ Drained(t) /\ DataStays
  /\ backend' = [backend EXCEPT ![call[t].on] = Clear]
  /\ Goes(t, "failed")

TenantNext ==
  \/ Authority \/ UnitStep
  \/ \E t \in Calls : Connect(t) \/ Bind(t) \/ Returns(t) \/ Throws(t) \/ Finish(t) \/ Commit(t) \/ Rollback(t)

(* When transaction() settles nothing of the caller's work goes on: no      *)
(* statement of it reaches the connection another caller has got since, so  *)
(* every row is its writer's organization's, and nobody reads another's.    *)
(* And what it reports as done was done by every operation, and all of it   *)
(* under one authority (packages/db/src/tenant.ts:50).                      *)
NothingOutlivesItsTransaction ==
  /\ \A t \in Calls : Over(t) => Pending(t) = {}
  /\ \A k \in rows : k.org = OrgOf[k.by] /\ call[k.by].pc \in {"done", "failing", "failed"}
  /\ \A t \in Calls : shown[t] \subseteq {OrgOf[t]}
  /\ \A t \in Calls : At(t, "done") => \A o \in Operations(t) : op[t][o].at \in {"none", "ok"}
=============================================================================
