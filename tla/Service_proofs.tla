---------------------------- MODULE Service_proofs ----------------------------
(***************************************************************************)
(* What the service keeps between steps, for any number of calls, operations*)
(* and connections, of sockets and sessions, and of rules and decisions.    *)
(***************************************************************************)
EXTENDS TenantScope, PolicySocket, PolicyRules, FiniteSetTheorems, WellFoundedInduction, TLAPS

(***************************************************************************)
(* The data plane: a connection is one call's at a time, and what is written*)
(* in its transaction is that call's.                                      *)
(***************************************************************************)
TenantSpec == TenantInit /\ [][TenantNext]_tenantVars

Holding == {"connected", "working", "finishing", "committing", "failing"}

CallRecord == [pc : {"idle", "done", "failed"} \cup Holding, on : Connections \cup {Nowhere}, open : BOOLEAN, failed : BOOLEAN]
Kind == {"none", "key", "link", "read"}
OpRecord == [kind : Kind, id : Ids \cup {"none"}, at : {"none", "insert", "select", "ok", "failed"}]
Row == [what : Kind, org : {OrgOf[t] : t \in Calls}, id : Ids \cup {"none"}, by : Calls]
Backend == [in : Calls \cup {NoCall}, bound : Calls \cup {NoCall, Closed}, aborted : BOOLEAN, writes : SUBSET Row]

TenantTyped ==
  /\ call \in [Calls -> CallRecord]
  /\ op = [t \in Calls |-> op[t]] /\ \A t \in Calls : op[t] \in [Operations(t) -> OpRecord]
  /\ backend \in [Connections -> Backend]
  /\ rows \subseteq Row
  /\ shown \in [Calls -> SUBSET {OrgOf[t] : t \in Calls}]

(* Connections: who holds one is alone on it. Its transaction is the        *)
(* holder's, or over already when the answer to a COMMIT was lost.          *)
Exclusively ==
  /\ \A t \in Calls : call[t].pc \in Holding =>
       /\ call[t].on \in Connections
       /\ backend[call[t].on].in \in {t, NoCall}
       /\ call[t].pc # "failing" => backend[call[t].on].in = t
  /\ \A s, t \in Calls : call[s].pc \in Holding /\ call[t].pc \in Holding /\ call[s].on = call[t].on => s = t
  /\ \A c \in Connections : backend[c].in # NoCall => call[backend[c].in].pc \in Holding /\ call[backend[c].in].on = c

Owned(k) == k.org = OrgOf[k.by]

WrittenInIt == \A c \in Connections : \A k \in backend[c].writes : Owned(k) /\ k.by = backend[c].in

(* Operations: under way only while the call cannot have settled, and none  *)
(* failed that the call does not know of.                                  *)
Underway ==
  \A t \in Calls :
    /\ call[t].open => call[t].pc = "working"
    /\ Pending(t) # {} => call[t].pc \in {"working", "failing"}
    /\ ~call[t].failed => \A o \in Operations(t) : op[t][o].at # "failed"
    /\ call[t].pc \in {"finishing", "committing", "done"} => ~call[t].failed

Kept ==
  /\ \A k \in rows : Owned(k) /\ call[k.by].pc \in {"done", "failing", "failed"}
  /\ \A t \in Calls : shown[t] \subseteq {OrgOf[t]}

TenantInv == TenantTyped /\ Exclusively /\ WrittenInIt /\ Underway /\ Kept

LEMMA TenantStart == TenantInit => TenantInv
<1> SUFFICES ASSUME TenantInit PROVE TenantInv
  OBVIOUS
<1>1. NotStarted \in OpRecord /\ NotStarted.at = "none" /\ Clear \in Backend /\ Clear.writes = {}
  BY DEF NotStarted, OpRecord, Kind, Clear, Backend
<1>2. /\ \A t \in Calls : call[t].pc = "idle" /\ ~call[t].open /\ shown[t] = {} /\ op[t] = [o \in Operations(t) |-> NotStarted]
      /\ backend = [c \in Connections |-> Clear] /\ rows = {}
  BY DEF TenantInit
<1>3. TenantTyped
  BY <1>1, <1>2 DEF TenantInit, TenantTyped, CallRecord
<1>4. Exclusively /\ WrittenInIt /\ Kept
  <2>1. Clear.in = NoCall
    BY DEF Clear
  <2> QED BY <1>1, <1>2, <2>1 DEF Exclusively, WrittenInIt, Kept, Holding
<1>5. Underway
  BY <1>1, <1>2 DEF Underway, Pending
<1> QED BY <1>3, <1>4, <1>5 DEF TenantInv

(* The organization a holder's statements go by is its own, or none.        *)
LEMMA HoldersOrg ==
  ASSUME TenantInv, NEW t \in Calls, call[t].pc \in Holding
  PROVE  /\ call[t].on \in Connections /\ backend[call[t].on] \in Backend
         /\ CurrentOrg(backend[call[t].on]) \in {OrgOf[t], "none"}
         /\ CurrentOrg(backend[call[t].on]) # "none" => backend[call[t].on].in = t
  BY TenantAssumption DEF TenantInv, TenantTyped, Exclusively, CurrentOrg

LEMMA PendingHolds ==
  ASSUME TenantInv, NEW t \in Calls, NEW o \in Operations(t), op[t][o].at \in {"insert", "select"}
  PROVE  call[t].pc \in {"working", "failing"} /\ call[t].pc \in Holding
  BY DEF TenantInv, Underway, Pending, Holding

(* A step of one of a call's operations, whatever becomes of it.            *)
LEMMA OperationMoves ==
  ASSUME TenantInv, NEW t \in Calls, NEW o \in Operations(t), NEW at \in {"insert", "select", "ok", "failed"},
         op[t][o].at \in {"insert", "select"}, op' = [op EXCEPT ![t][o].at = at],
         call' = [call EXCEPT ![t].failed = call[t].failed \/ at = "failed"]
  PROVE  /\ call' \in [Calls -> CallRecord]
         /\ \A s \in Calls : call'[s].pc = call[s].pc /\ call'[s].on = call[s].on /\ call'[s].open = call[s].open
         /\ op' = [s \in Calls |-> op'[s]] /\ \A s \in Calls : op'[s] \in [Operations(s) -> OpRecord]
         /\ Underway'
<1>1. call[t].pc \in {"working", "failing"}
  BY PendingHolds
<1>2. call \in [Calls -> CallRecord] /\ (call[t].failed \/ at = "failed") \in BOOLEAN
  BY DEF TenantInv, TenantTyped, CallRecord
<1>3. /\ call' \in [Calls -> CallRecord]
      /\ \A s \in Calls : call'[s].pc = call[s].pc /\ call'[s].on = call[s].on /\ call'[s].open = call[s].open
      /\ \A s \in Calls : s # t => call'[s] = call[s]
      /\ call'[t].failed = (call[t].failed \/ at = "failed")
  BY <1>2 DEF CallRecord
<1>4. op = [s \in Calls |-> op[s]] /\ \A s \in Calls : op[s] \in [Operations(s) -> OpRecord]
  BY DEF TenantInv, TenantTyped
<1>5. /\ op' = [s \in Calls |-> op'[s]]
      /\ \A s \in Calls : s # t => op'[s] = op[s]
      /\ op'[t] = [op[t] EXCEPT ![o].at = at]
  BY <1>4
<1>6. op'[t] \in [Operations(t) -> OpRecord] /\ op'[t][o].at = at /\ \A q \in Operations(t) : q # o => op'[t][q] = op[t][q]
  BY <1>4, <1>5 DEF OpRecord
<1>7. \A s \in Calls : s # t => Pending(s)' = Pending(s)
  BY <1>5 DEF Pending
<1>8. \A s \in Calls : Pending(s)' # {} => call'[s].pc \in {"working", "failing"}
  BY <1>1, <1>3, <1>7 DEF TenantInv, Underway
<1>9. ASSUME NEW s \in Calls, ~call'[s].failed, NEW q \in Operations(s) PROVE op'[s][q].at # "failed"
  <2>1. ~call[s].failed => op[s][q].at # "failed"
    BY DEF TenantInv, Underway
  <2>2. CASE s = t
    <3>1. ~call[t].failed /\ at # "failed"
      BY <1>3, <1>9, <2>2
    <3> QED BY <1>6, <2>1, <2>2, <3>1
  <2>3. CASE s # t
    BY <1>3, <1>5, <1>9, <2>1, <2>3
  <2> QED BY <2>2, <2>3
<1>10. \A s \in Calls : call'[s].pc \in {"finishing", "committing", "done"} => ~call'[s].failed
  BY <1>1, <1>3 DEF TenantInv, Underway
<1>11. Underway'
  BY <1>3, <1>8, <1>9, <1>10 DEF TenantInv, Underway
<1> QED BY <1>3, <1>4, <1>5, <1>6, <1>11

(* The server's side of a connection moves on for its holder.               *)
LEMMA BackendMoves ==
  ASSUME TenantInv, NEW t \in Calls, call[t].pc \in Holding, NEW b \in Backend, backend' = [backend EXCEPT ![call[t].on] = b],
         b.in = backend[call[t].on].in, \A k \in b.writes : Owned(k) /\ k.by = b.in,
         \A s \in Calls : call'[s].pc = call[s].pc /\ call'[s].on = call[s].on
  PROVE  backend' \in [Connections -> Backend] /\ Exclusively' /\ WrittenInIt'
<1>1. call[t].on \in Connections /\ backend \in [Connections -> Backend]
  BY HoldersOrg DEF TenantInv, TenantTyped
<1>2. backend' \in [Connections -> Backend] /\ backend'[call[t].on] = b /\ \A c \in Connections : c # call[t].on => backend'[c] = backend[c]
  BY <1>1
<1>3. \A c \in Connections : backend'[c].in = backend[c].in
  BY <1>1, <1>2
<1>4. Exclusively'
  <2>1. \A d \in Connections : backend[d].in # NoCall => backend[d].in \in Calls
    BY <1>1 DEF Backend
  <2> QED BY <1>3, <2>1 DEF TenantInv, Exclusively
<1>5. WrittenInIt'
  BY <1>2 DEF TenantInv, WrittenInIt, Owned
<1> QED BY <1>2, <1>4, <1>5
LEMMA UnitSteps == TenantInv /\ UnitStep => TenantInv'
<1> SUFFICES ASSUME TenantInv, NEW t \in Calls, Start(t) \/ \E o \in Operations(t) : Insert(t, o) \/ Select(t, o) \/ StatementFails(t, o)
             PROVE  TenantInv'
  BY DEF UnitStep
<1>1. CASE Start(t)
  <2>1. PICK o \in Operations(t), kind \in {"key", "link", "read"}, id \in Ids :
          op' = [op EXCEPT ![t][o] = [kind |-> kind, id |-> id, at |-> IF kind = "read" THEN "select" ELSE "insert"]]
    BY <1>1 DEF Start
  <2>2. call[t].open /\ call[t].pc = "working" /\ UNCHANGED <<call, backend, rows, auth, shown>>
    BY <1>1 DEF Start, TenantInv, Underway
  <2> DEFINE r == [kind |-> kind, id |-> id, at |-> IF kind = "read" THEN "select" ELSE "insert"]
  <2>3. r \in OpRecord /\ r.at # "failed"
    BY DEF OpRecord, Kind
  <2>4. op = [s \in Calls |-> op[s]] /\ \A s \in Calls : op[s] \in [Operations(s) -> OpRecord]
    BY DEF TenantInv, TenantTyped
  <2>5. op' = [s \in Calls |-> op'[s]] /\ op'[t] = [op[t] EXCEPT ![o] = r] /\ \A s \in Calls : s # t => op'[s] = op[s]
    BY <2>1, <2>4
  <2>6. op'[t] \in [Operations(t) -> OpRecord] /\ op'[t][o] = r /\ \A q \in Operations(t) : q # o => op'[t][q] = op[t][q]
    BY <2>3, <2>4, <2>5
  <2>7. TenantTyped'
    BY <2>2, <2>4, <2>5, <2>6 DEF TenantInv, TenantTyped
  <2>8. Exclusively' /\ WrittenInIt' /\ Kept'
    BY <2>2 DEF TenantInv, Exclusively, WrittenInIt, Kept, Owned
  <2>9. \A s \in Calls : s # t => Pending(s)' = Pending(s)
    BY <2>5 DEF Pending
  <2>10. \A s \in Calls : ~call[s].failed => \A q \in Operations(s) : op'[s][q].at # "failed"
    BY <2>3, <2>5, <2>6 DEF TenantInv, Underway
  <2>11. Underway'
    BY <2>2, <2>9, <2>10 DEF TenantInv, Underway
  <2> QED BY <2>7, <2>8, <2>11 DEF TenantInv
<1>2. ASSUME NEW o \in Operations(t), Insert(t, o) PROVE TenantInv'
  <2> DEFINE c == call[t].on
             b == backend[c]
             row == [what |-> op[t][o].kind, org |-> CurrentOrg(b), id |-> op[t][o].id, by |-> t]
  <2>1. op[t][o].at = "insert" /\ UNCHANGED <<rows, auth, shown>>
    BY <1>2 DEF Insert
  <2>2. call[t].pc \in Holding /\ b \in Backend /\ c \in Connections
    BY <2>1, PendingHolds, HoldersOrg
  <2>3. op[t][o] \in OpRecord /\ call \in [Calls -> CallRecord] /\ call[t].failed \in BOOLEAN
    BY DEF TenantInv, TenantTyped, CallRecord
  <2>4. \A k \in b.writes : Owned(k) /\ k.by = b.in
    BY <2>2 DEF TenantInv, WrittenInIt
  <2>5. CASE Writable(b) /\ op' = [op EXCEPT ![t][o].at = "select"] /\ UNCHANGED call
             /\ backend' \in {[backend EXCEPT ![c].writes = b.writes], [backend EXCEPT ![c].writes = b.writes \cup {row}]}
    <3>1. row.org = OrgOf[t] /\ b.in = t
      BY <2>2, <2>5, HoldersOrg DEF Writable
    <3>2. row \in Row /\ Owned(row) /\ row.by = b.in
      BY <2>3, <3>1 DEF Row, OpRecord, Owned
    <3>3. PICK W \in {b.writes, b.writes \cup {row}} : backend' = [backend EXCEPT ![c].writes = W]
      BY <2>5
    <3>4. [b EXCEPT !.writes = W] \in Backend /\ [b EXCEPT !.writes = W].in = b.in /\ [b EXCEPT !.writes = W].writes = W
      BY <2>2, <3>2, <3>3 DEF Backend
    <3>5. backend' = [backend EXCEPT ![c] = [b EXCEPT !.writes = W]]
      BY <2>2, <3>3 DEF TenantInv, TenantTyped
    <3>6. \A k \in W : Owned(k) /\ k.by = b.in
      BY <2>4, <3>2, <3>3
    <3>7. backend' \in [Connections -> Backend] /\ Exclusively' /\ WrittenInIt'
      BY <2>2, <2>5, <3>4, <3>5, <3>6, BackendMoves
    <3>8. call' = [call EXCEPT ![t].failed = call[t].failed \/ "select" = "failed"]
      BY <2>3, <2>5 DEF CallRecord
    <3>9. op' = [s \in Calls |-> op'[s]] /\ (\A s \in Calls : op'[s] \in [Operations(s) -> OpRecord]) /\ Underway'
      BY <2>1, <2>5, <3>8, OperationMoves
    <3>10. TenantTyped' /\ Kept'
      BY <2>1, <2>5, <3>7, <3>9 DEF TenantInv, TenantTyped, Kept, Owned
    <3> QED BY <3>7, <3>9, <3>10 DEF TenantInv
  <2>6. CASE backend' = [backend EXCEPT ![c].aborted = b.in # NoCall] /\ Settle(t, o, "failed")
    <3>1. [b EXCEPT !.aborted = b.in # NoCall] \in Backend
          /\ [b EXCEPT !.aborted = b.in # NoCall].in = b.in /\ [b EXCEPT !.aborted = b.in # NoCall].writes = b.writes
      BY <2>2 DEF Backend
    <3>2. backend' = [backend EXCEPT ![c] = [b EXCEPT !.aborted = b.in # NoCall]]
      BY <2>2, <2>6 DEF TenantInv, TenantTyped
    <3>3. /\ call' \in [Calls -> CallRecord]
          /\ \A s \in Calls : call'[s].pc = call[s].pc /\ call'[s].on = call[s].on /\ call'[s].open = call[s].open
          /\ op' = [s \in Calls |-> op'[s]] /\ \A s \in Calls : op'[s] \in [Operations(s) -> OpRecord]
          /\ Underway'
      BY <2>1, <2>6, OperationMoves DEF Settle
    <3>4. backend' \in [Connections -> Backend] /\ Exclusively' /\ WrittenInIt'
      BY <2>2, <2>4, <3>1, <3>2, <3>3, BackendMoves
    <3>5. TenantTyped' /\ Kept'
      BY <2>1, <3>3, <3>4 DEF TenantInv, TenantTyped, Kept, Row, Owned
    <3> QED BY <3>3, <3>4, <3>5 DEF TenantInv
  <2> QED BY <1>2, <2>5, <2>6 DEF Insert
<1>3. ASSUME NEW o \in Operations(t), Select(t, o) PROVE TenantInv'
  <2> DEFINE b == backend[call[t].on]
             found == {r \in Visible(b) : r.id = op[t][o].id}
  <2>1. op[t][o].at = "select" /\ UNCHANGED <<backend, rows, auth>>
    BY <1>3 DEF Select
  <2>2. call[t].pc \in Holding /\ b \in Backend /\ call[t].on \in Connections /\ CurrentOrg(b) \in {OrgOf[t], "none"}
    BY <2>1, PendingHolds, HoldersOrg
  <2>3. PICK at \in {"ok", "failed"} : Settle(t, o, at)
    BY <1>3 DEF Select
  <2>4. /\ call' \in [Calls -> CallRecord]
        /\ \A s \in Calls : call'[s].pc = call[s].pc /\ call'[s].on = call[s].on /\ call'[s].open = call[s].open
        /\ op' = [s \in Calls |-> op'[s]] /\ \A s \in Calls : op'[s] \in [Operations(s) -> OpRecord]
        /\ Underway'
    BY <2>1, <2>3, OperationMoves DEF Settle
  <2>5. \A r \in found : r.org = OrgOf[t]
    <3>1. \A r \in rows \cup b.writes : r.org # "none"
      BY <2>2, TenantAssumption DEF Backend, Row, TenantInv, TenantTyped
    <3> QED BY <2>2, <3>1 DEF Visible
  <2>6. shown' \in [Calls -> SUBSET {OrgOf[s] : s \in Calls}] /\ \A s \in Calls : shown'[s] \subseteq {OrgOf[s]}
    <3>1. shown \in [Calls -> SUBSET {OrgOf[s] : s \in Calls}] /\ \A s \in Calls : shown[s] \subseteq {OrgOf[s]}
      BY DEF TenantInv, TenantTyped, Kept
    <3>2. UNCHANGED shown \/ shown' = [shown EXCEPT ![t] = shown[t] \cup {r.org : r \in found}]
      BY <1>3 DEF Select
    <3>3. {r.org : r \in found} \subseteq {OrgOf[t]}
      BY <2>5
    <3> QED BY <3>1, <3>2, <3>3
  <2>7. TenantTyped' /\ Kept'
    BY <2>1, <2>4, <2>6 DEF TenantInv, TenantTyped, Kept, Row, Owned
  <2>8. Exclusively' /\ WrittenInIt'
    <3>1. \A d \in Connections : backend[d].in # NoCall => backend[d].in \in Calls
      BY DEF TenantInv, TenantTyped, Backend
    <3> QED BY <2>1, <2>4, <3>1 DEF TenantInv, Exclusively, WrittenInIt, Owned
  <2> QED BY <2>4, <2>7, <2>8 DEF TenantInv
<1>4. ASSUME NEW o \in Operations(t), StatementFails(t, o) PROVE TenantInv'
  <2> DEFINE c == call[t].on
             b == backend[c]
  <2>1. /\ op[t][o].at \in {"insert", "select"} /\ Settle(t, o, "failed") /\ UNCHANGED <<rows, auth, shown>>
        /\ backend' = [backend EXCEPT ![c].aborted = b.in # NoCall]
    BY <1>4 DEF StatementFails
  <2>2. call[t].pc \in Holding /\ b \in Backend /\ c \in Connections
    BY <2>1, PendingHolds, HoldersOrg
  <2>3. \A k \in b.writes : Owned(k) /\ k.by = b.in
    BY <2>2 DEF TenantInv, WrittenInIt
  <2>4. [b EXCEPT !.aborted = b.in # NoCall] \in Backend
        /\ [b EXCEPT !.aborted = b.in # NoCall].in = b.in /\ [b EXCEPT !.aborted = b.in # NoCall].writes = b.writes
    BY <2>2 DEF Backend
  <2>5. backend' = [backend EXCEPT ![c] = [b EXCEPT !.aborted = b.in # NoCall]]
    BY <2>1, <2>2 DEF TenantInv, TenantTyped
  <2>6. /\ call' \in [Calls -> CallRecord]
        /\ \A s \in Calls : call'[s].pc = call[s].pc /\ call'[s].on = call[s].on /\ call'[s].open = call[s].open
        /\ op' = [s \in Calls |-> op'[s]] /\ \A s \in Calls : op'[s] \in [Operations(s) -> OpRecord]
        /\ Underway'
    BY <2>1, OperationMoves DEF Settle
  <2>7. backend' \in [Connections -> Backend] /\ Exclusively' /\ WrittenInIt'
    BY <2>2, <2>3, <2>4, <2>5, <2>6, BackendMoves
  <2>8. TenantTyped' /\ Kept'
    BY <2>1, <2>6, <2>7 DEF TenantInv, TenantTyped, Kept, Row, Owned
  <2> QED BY <2>6, <2>7, <2>8 DEF TenantInv
<1> QED BY <1>1, <1>2, <1>3, <1>4
(* A step of transaction(): the call goes on to r, its connection's side    *)
(* becomes b; nobody else holds the connection, and the call no other.      *)
Moves(t, r, c, b) ==
  /\ r \in CallRecord /\ call' = [call EXCEPT ![t] = r]
  /\ b \in Backend /\ backend' = [backend EXCEPT ![c] = b] /\ \A k \in b.writes : Owned(k) /\ k.by = b.in
  /\ \A s \in Calls : s # t /\ call[s].pc \in Holding => call[s].on # c
  /\ call[t].pc \in Holding => call[t].on = c
  /\ r.pc \in Holding => r.on = c /\ b.in \in {t, NoCall} /\ (r.pc # "failing" => b.in = t)
  /\ b.in # NoCall => b.in = t /\ r.pc \in Holding /\ r.on = c
  /\ r.open => r.pc = "working"
  /\ Pending(t) # {} => r.pc \in {"working", "failing"}
  /\ r.failed = call[t].failed /\ (r.pc \in {"finishing", "committing", "done"} => ~r.failed)
  /\ call[t].pc \notin {"done", "failed"} /\ (call[t].pc = "failing" => r.pc \in {"failing", "failed"})
  /\ \/ rows' = rows
     \/ rows' = rows \cup backend[c].writes /\ backend[c].in = t /\ r.pc \in {"done", "failing"}

LEMMA CallMoves ==
  ASSUME TenantInv, NEW t \in Calls, NEW c \in Connections, NEW r, NEW b, Moves(t, r, c, b), UNCHANGED <<op, shown>>
  PROVE  TenantInv'
<1> USE DEF Moves
<1>1. /\ call \in [Calls -> CallRecord] /\ backend \in [Connections -> Backend] /\ rows \subseteq Row
      /\ \A k \in rows : k.by \in Calls
  BY DEF TenantInv, TenantTyped, Row
<1>2. /\ call' \in [Calls -> CallRecord] /\ call'[t] = r /\ \A s \in Calls : s # t => call'[s] = call[s]
      /\ backend' \in [Connections -> Backend] /\ backend'[c] = b /\ \A d \in Connections : d # c => backend'[d] = backend[d]
  BY <1>1 DEF Moves
<1>3. rows' \subseteq Row /\ \A k \in rows' : Owned(k) /\ (k \in rows \/ (k.by = t /\ r.pc \in {"done", "failing"}))
  <2>1. \A k \in backend[c].writes : k \in Row /\ Owned(k) /\ k.by = backend[c].in
    BY <1>1 DEF TenantInv, WrittenInIt, Backend
  <2> QED BY <1>1, <2>1 DEF TenantInv, Kept
<1>4. TenantTyped'
  BY <1>2, <1>3 DEF TenantInv, TenantTyped
<1>5. Exclusively'
  <2>1. \A s \in Calls : call'[s].pc \in Holding =>
          /\ call'[s].on \in Connections
          /\ backend'[call'[s].on].in \in {s, NoCall}
          /\ call'[s].pc # "failing" => backend'[call'[s].on].in = s
    BY <1>2 DEF TenantInv, Exclusively
  <2>2. \A s, u \in Calls : call'[s].pc \in Holding /\ call'[u].pc \in Holding /\ call'[s].on = call'[u].on => s = u
    BY <1>2 DEF TenantInv, Exclusively
  <2>3. \A d \in Connections : backend'[d].in # NoCall => call'[backend'[d].in].pc \in Holding /\ call'[backend'[d].in].on = d
    BY <1>1, <1>2 DEF TenantInv, Exclusively
  <2> QED BY <2>1, <2>2, <2>3 DEF Exclusively
<1>6. WrittenInIt'
  BY <1>2 DEF TenantInv, WrittenInIt, Moves, Owned
<1>7. Underway'
  <2>1. \A s \in Calls : Pending(s)' = Pending(s)
    BY DEF Pending
  <2>2. ASSUME NEW s \in Calls PROVE
          /\ call'[s].open => call'[s].pc = "working"
          /\ Pending(s)' # {} => call'[s].pc \in {"working", "failing"}
          /\ ~call'[s].failed => \A o \in Operations(s) : op'[s][o].at # "failed"
          /\ call'[s].pc \in {"finishing", "committing", "done"} => ~call'[s].failed
    BY <1>2, <2>1 DEF TenantInv, Underway
  <2> QED BY <2>2 DEF Underway
<1>8. Kept'
  <2>1. ASSUME NEW k \in rows' PROVE Owned(k) /\ call'[k.by].pc \in {"done", "failing", "failed"}
    <3>1. CASE k.by = t /\ r.pc \in {"done", "failing"}
      BY <1>2, <1>3, <3>1
    <3>2. CASE k \in rows
      <4>1. call[k.by].pc \in {"done", "failing", "failed"} /\ k.by \in Calls
        BY <1>1, <3>2 DEF TenantInv, Kept
      <4> QED BY <1>2, <1>3, <4>1
    <3> QED BY <1>3, <3>1, <3>2
  <2> QED BY <2>1 DEF TenantInv, Kept, Owned
<1> QED BY <1>4, <1>5, <1>6, <1>7, <1>8 DEF TenantInv
With(t, pc, open) == [call[t] EXCEPT !.pc = pc, !.open = open]

LEMMA TransactionSteps ==
  ASSUME TenantInv, NEW t \in Calls, Connect(t) \/ Bind(t) \/ Returns(t) \/ Throws(t) \/ Finish(t) \/ Commit(t) \/ Rollback(t)
  PROVE  TenantInv'
<1> DEFINE c == call[t].on
           b == backend[c]
<1>1. call \in [Calls -> CallRecord] /\ call[t] \in CallRecord /\ backend \in [Connections -> Backend]
  BY DEF TenantInv, TenantTyped
<1>2. Clear \in Backend /\ Clear.writes = {} /\ Clear.in = NoCall
  BY DEF Clear, Backend
<1>3. ASSUME call[t].pc \in Holding
      PROVE  /\ c \in Connections /\ b \in Backend /\ b.in \in {t, NoCall} /\ backend = [backend EXCEPT ![c] = b]
             /\ (call[t].pc # "failing" => b.in = t)
             /\ \A k \in b.writes : Owned(k) /\ k.by = b.in
             /\ \A s \in Calls : s # t /\ call[s].pc \in Holding => call[s].on # c
  BY <1>1, <1>3 DEF TenantInv, Exclusively, WrittenInIt
<1>4. (call[t].pc \in {"working", "failing"} \/ Pending(t) = {}) /\ (call[t].open => call[t].pc = "working")
      /\ (call[t].pc \in {"finishing", "committing", "done"} => ~call[t].failed)
  BY DEF TenantInv, Underway
<1>5. ASSUME NEW pc \in {"done", "failed"} \cup Holding, NEW open \in BOOLEAN
      PROVE  LET r == With(t, pc, open)
             IN r \in CallRecord /\ r.pc = pc /\ r.open = open /\ r.on = c /\ r.failed = call[t].failed
  BY <1>1 DEF CallRecord, With
<1>6. ASSUME NEW pc \in {"done", "failed"} \cup Holding, Goes(t, pc)
      PROVE  call' = [call EXCEPT ![t] = With(t, pc, call[t].open)]
  BY <1>1, <1>6 DEF Goes, CallRecord, With
<1>7. CASE Connect(t)
  <2>1. call[t].pc = "idle" /\ UNCHANGED <<op, rows, auth, shown>> /\ ~call[t].open /\ Pending(t) = {}
    BY <1>4, <1>7 DEF Connect, At, DataStays
  <2>2. ASSUME Goes(t, "failed"), UNCHANGED backend PROVE TenantInv'
    <3> DEFINE r == With(t, "failed", call[t].open)
    <3>1. r \in CallRecord /\ call' = [call EXCEPT ![t] = r] /\ r.pc = "failed" /\ ~r.open /\ r.failed = call[t].failed
      BY <1>1, <1>5, <1>6, <2>1, <2>2 DEF CallRecord
    <3>2. call' \in [Calls -> CallRecord] /\ call'[t] = r /\ \A s \in Calls : s # t => call'[s] = call[s]
      BY <1>1, <3>1
    <3>3. TenantTyped' /\ WrittenInIt'
      BY <2>1, <2>2, <3>2 DEF TenantInv, TenantTyped, WrittenInIt, Owned
    <3>4. Exclusively'
      <4>1. \A d \in Connections : backend[d].in # NoCall => backend[d].in \in Calls \ {t}
        BY <1>1, <2>1 DEF TenantInv, Exclusively, Backend, Holding
      <4> QED BY <2>2, <3>1, <3>2, <4>1 DEF TenantInv, Exclusively, Holding
    <3>5. \A s \in Calls : Pending(s)' = Pending(s)
      BY <2>1 DEF Pending
    <3>6. Underway'
      BY <2>1, <3>1, <3>2, <3>5 DEF TenantInv, Underway
    <3>7. Kept'
      BY <2>1, <3>1, <3>2 DEF TenantInv, TenantTyped, Kept, Owned, Row
    <3> QED BY <3>3, <3>4, <3>6, <3>7 DEF TenantInv
  <2>3. ASSUME NEW d \in Connections, \A s \in Calls : call[s].on = d => Over(s),
               call' = [call EXCEPT ![t].on = d, ![t].pc = "connected"], backend' = [backend EXCEPT ![d].in = t]
        PROVE  TenantInv'
    <3> DEFINE r == [call[t] EXCEPT !.on = d, !.pc = "connected"]
               e == [backend[d] EXCEPT !.in = t]
    <3>1. \A s \in Calls : call[s].pc \in Holding => call[s].on # d
      BY <2>3 DEF Over, Holding
    <3>2. backend[d].in = NoCall
      BY <1>1, <3>1 DEF TenantInv, Exclusively, Backend
    <3>3. backend[d].writes = {}
      BY <1>1, <3>2, TenantAssumption DEF TenantInv, WrittenInIt, Backend, Row
    <3>4. e \in Backend /\ e.in = t /\ e.writes = {} /\ backend' = [backend EXCEPT ![d] = e]
      BY <1>1, <2>3, <3>3 DEF Backend
    <3>5. /\ r \in CallRecord /\ call' = [call EXCEPT ![t] = r]
          /\ r.pc = "connected" /\ r.on = d /\ r.open = call[t].open /\ r.failed = call[t].failed
      BY <1>1, <2>3 DEF CallRecord, Holding
    <3>6. Moves(t, r, d, e)
      BY <2>1, <3>1, <3>4, <3>5 DEF Moves, Holding
    <3> QED BY <2>1, <3>6, CallMoves
  <2> QED BY <1>7, <2>1, <2>2, <2>3 DEF Connect
<1>8. CASE Bind(t)
  <2> DEFINE e == [b EXCEPT !.bound = t]
  <2>1. call[t].pc = "connected" /\ UNCHANGED <<op, rows, auth, shown>> /\ backend' = [backend EXCEPT ![c] = e]
    BY <1>8 DEF Bind, At, DataStays
  <2>2. call[t].pc \in Holding
    BY <2>1 DEF Holding
  <2>3. e \in Backend /\ e.in = b.in /\ e.writes = b.writes
    BY <1>3, <2>2 DEF Backend
  <2>4. PICK pc \in {"working", "failing"}, open \in BOOLEAN :
          (open => pc = "working") /\ call' = [call EXCEPT ![t] = With(t, pc, open)]
    <3>1. CASE call' = [call EXCEPT ![t].pc = "working", ![t].open = TRUE]
      <4>1. call' = [call EXCEPT ![t] = With(t, "working", TRUE)]
        BY <1>1, <3>1 DEF CallRecord, With
      <4> QED BY <4>1
    <3>2. CASE Goes(t, "failing")
      <4>1. call' = [call EXCEPT ![t] = With(t, "failing", call[t].open)]
        BY <1>6, <3>2 DEF Holding
      <4>2. ~call[t].open /\ call[t].open \in BOOLEAN
        BY <1>1, <1>4, <2>1 DEF CallRecord
      <4> QED BY <4>1, <4>2
    <3> QED BY <1>8, <3>1, <3>2 DEF Bind
  <2>5. Moves(t, With(t, pc, open), c, e)
    BY <1>3, <1>4, <1>5, <2>1, <2>2, <2>3, <2>4 DEF Moves, Holding
  <2> QED BY <1>3, <2>1, <2>2, <2>5, CallMoves
<1>9. CASE Returns(t) \/ Throws(t)
  <2>1. /\ call[t].pc \in {"connected", "working", "finishing", "committing"} /\ UNCHANGED <<op, rows, auth, shown, backend>>
        /\ call[t].pc \in Holding
    BY <1>9 DEF Returns, Throws, At, DataStays, Holding
  <2>2. PICK pc \in {"finishing", "failing"} :
          /\ pc = "finishing" => Pending(t) = {} /\ ~call[t].failed
          /\ call' = [call EXCEPT ![t] = With(t, pc, FALSE)]
    <3>1. CASE Returns(t)
      <4> DEFINE pc == IF Pending(t) = {} /\ ~call[t].failed THEN "finishing" ELSE "failing"
      <4>1. call' = [call EXCEPT ![t] = With(t, pc, FALSE)]
        BY <1>1, <3>1 DEF Returns, CallRecord, With
      <4> QED BY <4>1
    <3>2. CASE Throws(t)
      <4>1. call' = [call EXCEPT ![t] = With(t, "failing", FALSE)]
        BY <1>1, <3>2 DEF Throws, CallRecord, With
      <4> QED BY <4>1
    <3> QED BY <1>9, <3>1, <3>2
  <2>3. Moves(t, With(t, pc, FALSE), c, b)
    BY <1>3, <1>5, <2>1, <2>2 DEF Moves, Holding
  <2> QED BY <1>3, <2>1, <2>3, CallMoves
<1>10. CASE Finish(t)
  <2>1. /\ call[t].pc = "finishing" /\ call[t].pc \in Holding /\ UNCHANGED <<op, rows, auth, shown>>
        /\ ~call[t].open /\ ~call[t].failed /\ Pending(t) = {} /\ call[t].open \in BOOLEAN
    BY <1>1, <1>4, <1>10 DEF Finish, At, DataStays, Holding, CallRecord
  <2>2. CASE backend' = [backend EXCEPT ![c].bound = Closed] /\ Goes(t, "committing")
    <3> DEFINE e == [b EXCEPT !.bound = Closed]
    <3>1. e \in Backend /\ e.in = b.in /\ e.writes = b.writes /\ backend' = [backend EXCEPT ![c] = e]
      BY <1>1, <1>3, <2>1, <2>2 DEF Backend
    <3>2. call' = [call EXCEPT ![t] = With(t, "committing", call[t].open)]
      BY <1>6, <2>2 DEF Holding
    <3>3. Moves(t, With(t, "committing", call[t].open), c, e)
      BY <1>3, <1>5, <2>1, <3>1, <3>2 DEF Moves, Holding
    <3> QED BY <1>3, <2>1, <3>3, CallMoves
  <2>3. CASE Goes(t, "failing") /\ UNCHANGED backend
    <3>1. call' = [call EXCEPT ![t] = With(t, "failing", call[t].open)]
      BY <1>6, <2>3 DEF Holding
    <3>2. Moves(t, With(t, "failing", call[t].open), c, b)
      BY <1>3, <1>5, <2>1, <2>3, <3>1 DEF Moves, Holding
    <3> QED BY <1>3, <2>1, <3>2, CallMoves
  <2> QED BY <1>10, <2>2, <2>3 DEF Finish
<1>11. CASE Commit(t)
  <2>1. /\ call[t].pc = "committing" /\ call[t].pc \in Holding /\ UNCHANGED <<op, auth, shown>>
        /\ ~call[t].open /\ ~call[t].failed /\ Pending(t) = {} /\ call[t].open \in BOOLEAN
        /\ rows' = rows \cup backend[c].writes /\ backend' = [backend EXCEPT ![c] = Clear]
    BY <1>1, <1>4, <1>11 DEF Commit, At, Holding, CallRecord
  <2>2. PICK pc \in {"done", "failing"} : Goes(t, pc)
    BY <1>11 DEF Commit
  <2>3. call' = [call EXCEPT ![t] = With(t, pc, call[t].open)]
    BY <1>6, <2>2 DEF Holding
  <2>4. Moves(t, With(t, pc, call[t].open), c, Clear)
    BY <1>2, <1>3, <1>5, <2>1, <2>2, <2>3 DEF Moves, Holding
  <2> QED BY <1>3, <2>1, <2>4, CallMoves
<1>12. CASE Rollback(t)
  <2>1. /\ call[t].pc = "failing" /\ call[t].pc \in Holding /\ UNCHANGED <<op, rows, auth, shown>>
        /\ ~call[t].open /\ Pending(t) = {} /\ call[t].open \in BOOLEAN
        /\ Goes(t, "failed") /\ backend' = [backend EXCEPT ![c] = Clear]
    BY <1>1, <1>4, <1>12 DEF Rollback, Drained, At, DataStays, Holding, CallRecord
  <2>2. call' = [call EXCEPT ![t] = With(t, "failed", call[t].open)]
    BY <1>6, <2>1
  <2>3. Moves(t, With(t, "failed", call[t].open), c, Clear)
    BY <1>2, <1>3, <1>5, <2>1, <2>2 DEF Moves, Holding
  <2> QED BY <1>3, <2>1, <2>3, CallMoves
<1> QED BY <1>7, <1>8, <1>9, <1>10, <1>11, <1>12

LEMMA TenantStep == TenantInv /\ [TenantNext]_tenantVars => TenantInv'
<1> SUFFICES ASSUME TenantInv, [TenantNext]_tenantVars PROVE TenantInv'
  OBVIOUS
<1>1. CASE Authority \/ UNCHANGED tenantVars
  <2>1. UNCHANGED <<call, op, backend, rows, shown>>
    BY <1>1 DEF Authority, tenantVars
  <2> QED BY <2>1 DEF TenantInv, TenantTyped, Exclusively, WrittenInIt, Underway, Kept, Owned, Pending
<1> QED BY <1>1, UnitSteps, TransactionSteps DEF TenantNext

(* When transaction() settles nothing of the caller's work goes on, for any *)
(* number of calls, connections and operations: every row committed is of   *)
(* its writer's organization, nobody was shown another's, and what is       *)
(* reported as done was done by every operation.                           *)
THEOREM NothingEverOutlivesItsTransaction == TenantSpec => []NothingOutlivesItsTransaction
<1>1. TenantInv => NothingOutlivesItsTransaction
  <2> SUFFICES ASSUME TenantInv PROVE NothingOutlivesItsTransaction
    OBVIOUS
  <2>1. \A t \in Calls : Over(t) => Pending(t) = {}
    BY DEF TenantInv, Underway, Over
  <2>2. ASSUME NEW t \in Calls, At(t, "done"), NEW o \in Operations(t) PROVE op[t][o].at \in {"none", "ok"}
    <3>1. op[t][o] \in OpRecord /\ op[t][o].at # "failed"
      BY <2>2 DEF TenantInv, TenantTyped, Underway, At
    <3>2. op[t][o].at \notin {"insert", "select"}
      BY <2>1, <2>2 DEF Over, At, Pending
    <3> QED BY <3>1, <3>2 DEF OpRecord
  <2> QED BY <2>1, <2>2 DEF TenantInv, Kept, Owned, NothingOutlivesItsTransaction
<1> QED BY <1>1, TenantStart, TenantStep, PTL DEF TenantSpec

(***************************************************************************)
(* The policy socket: the two counts are those of the sockets there are.    *)
(***************************************************************************)
SocketSpec == SocketInit /\ [][SocketNext]_socketVars

SocketRecord ==
  [life : {"unborn", "up", "destroyed", "gone"}, does : {"nothing", "asking", "refused", "open", "ending"},
   digest : Digests \cup {NoDigest}, counted : BOOLEAN, busy : BOOLEAN, count : Nat]

SocketTyped ==
  /\ sock \in [Sockets -> SocketRecord]
  /\ sessions \in [Digests -> Nat] /\ stopping \in {"no", "closing", "closed"}

(* The sockets there are, and those of them a session is charged for.       *)
Of(d) == {s \in raw : sock[s].digest = d}

RawCounted ==
  /\ raw = {s \in Sockets : Live(s)}
  /\ IsFiniteSet(raw) /\ Cardinality(raw) <= MaxRaw

ShareCounted ==
  /\ \A s \in raw : sock[s].counted <=> sock[s].digest # NoDigest
  /\ \A d \in Digests : sessions[d] = Cardinality(Of(d)) /\ sessions[d] <= MaxPerSession

(* Once the service is stopping nothing is let in or kept.                  *)
NoneWhileStopping == stopping # "no" => \A s \in Sockets : sock[s].life # "up"

SocketInv == SocketTyped /\ RawCounted /\ ShareCounted /\ NoneWhileStopping

LEMMA SocketStart == SocketInit => SocketInv
<1> SUFFICES ASSUME SocketInit PROVE SocketInv
  OBVIOUS
<1>1. Unborn \in SocketRecord /\ Unborn.life = "unborn"
  BY DEF Unborn, SocketRecord
<1>2. sock = [s \in Sockets |-> Unborn] /\ raw = {} /\ sessions = [d \in Digests |-> 0] /\ stopping = "no"
  BY DEF SocketInit
<1>3. SocketTyped
  BY <1>1, <1>2 DEF SocketTyped
<1>4. RawCounted
  BY <1>1, <1>2, FS_EmptySet, SocketAssumption DEF RawCounted, Live
<1>5. ShareCounted
  <2>1. \A d \in Digests : Of(d) = {}
    BY <1>2 DEF Of
  <2> QED BY <1>2, <2>1, FS_EmptySet, SocketAssumption DEF ShareCounted
<1> QED BY <1>2, <1>3, <1>4, <1>5 DEF SocketInv, NoneWhileStopping

(* A step that leaves the counts alone: what it makes of a socket is as     *)
(* much there as the socket was, and of the same session.                  *)
Quiet(s, r) ==
  /\ sock' = [sock EXCEPT ![s] = r] /\ r \in SocketRecord
  /\ Live(s) <=> r.life \in {"up", "destroyed"}
  /\ r.life = "up" => sock[s].life = "up"
  /\ Live(s) => r.digest = sock[s].digest /\ r.counted = sock[s].counted

LEMMA QuietStep ==
  ASSUME SocketInv, NEW s \in Sockets, NEW r, Quiet(s, r), UNCHANGED <<raw, sessions, stopping>>
  PROVE  SocketInv'
<1>1. sock \in [Sockets -> SocketRecord] /\ \A q \in raw : q \in Sockets /\ Live(q)
  BY DEF SocketInv, SocketTyped, RawCounted
<1>2. /\ sock' \in [Sockets -> SocketRecord] /\ sock'[s] = r
      /\ \A q \in Sockets : q # s => sock'[q] = sock[q]
  BY <1>1 DEF Quiet
<1>3. \A q \in Sockets : Live(q)' <=> Live(q)
  BY <1>2 DEF Quiet, Live
<1>4. \A q \in raw : sock'[q].digest = sock[q].digest /\ sock'[q].counted = sock[q].counted
  BY <1>1, <1>2 DEF Quiet
<1>5. RawCounted'
  BY <1>3 DEF SocketInv, RawCounted
<1>6. \A d \in Digests : Of(d)' = Of(d)
  BY <1>4 DEF Of
<1>7. ShareCounted'
  BY <1>4, <1>6 DEF SocketInv, ShareCounted
<1>8. NoneWhileStopping'
  BY <1>2 DEF SocketInv, NoneWhileStopping, Quiet
<1> QED BY <1>2, <1>5, <1>7, <1>8 DEF SocketInv, SocketTyped

LEMMA FreedKeeps ==
  ASSUME NEW r \in SocketRecord
  PROVE  /\ Freed(r) \in SocketRecord
         /\ r.life \in {"up", "destroyed"} => Freed(r) = r
         /\ r.life \notin {"up", "destroyed"} => Freed(r).life \notin {"up", "destroyed"}
  BY DEF Freed, Unborn, SocketRecord

(* What a socket does changes; nobody is let in and nothing is closed.      *)
LEMMA WorkSteps ==
  ASSUME SocketInv, NEW s \in Sockets,
         Answer(s) \/ Message(s) \/ NewWindow(s) \/ Reply(s) \/ Recheck(s) \/ GoesAway(s)
  PROVE  SocketInv'
<1>1. sock \in [Sockets -> SocketRecord] /\ sock[s] \in SocketRecord
  BY DEF SocketInv, SocketTyped
<1>2. UNCHANGED <<raw, sessions, stopping>>
  BY DEF Answer, Message, NewWindow, Reply, Recheck, GoesAway, RestStays
<1>3. CASE Answer(s)
  <2>1. PICK does \in {"refused", "open", "nothing"} : sock' = [sock EXCEPT ![s] = Freed([sock[s] EXCEPT !.does = does])]
    BY <1>1, <1>3 DEF Answer
  <2> DEFINE r == [sock[s] EXCEPT !.does = does]
  <2>2. r \in SocketRecord /\ r.life = sock[s].life /\ r.digest = sock[s].digest /\ r.counted = sock[s].counted
    BY <1>1 DEF SocketRecord
  <2> HIDE DEF r
  <2>3. Quiet(s, Freed(r))
    BY <2>1, <2>2, FreedKeeps DEF Quiet, Live, r
  <2> QED BY <1>2, <2>3, QuietStep
<1>4. CASE Destroyed(s) /\ sock[s].life = "up"
  <2> DEFINE r == [sock[s] EXCEPT !.life = "destroyed"]
  <2>1. Quiet(s, r)
    BY <1>1, <1>4 DEF Destroyed, Quiet, SocketRecord, Live
  <2> QED BY <1>2, <2>1, QuietStep
<1>5. CASE Is(s, "up", "open") /\ sock' = [sock EXCEPT ![s].busy = TRUE, ![s].count = sock[s].count + 1]
  <2> DEFINE r == [sock[s] EXCEPT !.busy = TRUE, !.count = sock[s].count + 1]
  <2>1. r \in SocketRecord /\ sock' = [sock EXCEPT ![s] = r]
        /\ r.life = sock[s].life /\ r.digest = sock[s].digest /\ r.counted = sock[s].counted
    BY <1>1, <1>5 DEF SocketRecord
  <2>2. Quiet(s, r)
    BY <2>1 DEF Quiet, Live
  <2> QED BY <1>2, <2>2, QuietStep
<1>6. CASE NewWindow(s)
  <2> DEFINE r == [sock[s] EXCEPT !.count = 0]
  <2>1. Quiet(s, r)
    BY <1>1, <1>6 DEF NewWindow, Quiet, SocketRecord, Live
  <2> QED BY <1>2, <2>1, QuietStep
<1>7. CASE sock' = [sock EXCEPT ![s] = Freed([sock[s] EXCEPT !.busy = FALSE])]
  <2> DEFINE r == [sock[s] EXCEPT !.busy = FALSE]
  <2>1. r \in SocketRecord /\ r.life = sock[s].life /\ r.digest = sock[s].digest /\ r.counted = sock[s].counted
    BY <1>1 DEF SocketRecord
  <2> HIDE DEF r
  <2>2. Quiet(s, Freed(r))
    BY <1>7, <2>1, FreedKeeps DEF Quiet, Live, r
  <2> QED BY <1>2, <2>2, QuietStep
<1>8. CASE sock' = [sock EXCEPT ![s].busy = FALSE, ![s].does = "ending"]
  <2> DEFINE r == [sock[s] EXCEPT !.busy = FALSE, !.does = "ending"]
  <2>1. Quiet(s, r)
    BY <1>1, <1>8 DEF Quiet, SocketRecord, Live
  <2> QED BY <1>2, <2>1, QuietStep
<1> QED
  <2>1. CASE Message(s)
    BY <1>1, <1>4, <1>5, <2>1 DEF Message, Is
  <2>2. CASE Reply(s)
    BY <1>1, <1>7, <1>8, <2>2 DEF Reply
  <2>3. CASE Recheck(s) \/ GoesAway(s)
    BY <1>4, <2>3 DEF Recheck, GoesAway, Is
  <2> QED BY <1>3, <1>6, <2>1, <2>2, <2>3

(* A socket is let in: in all, and on the account of its session.           *)
LEMMA UpgradeStep ==
  ASSUME SocketInv, NEW s \in Sockets, Upgrade(s)
  PROVE  SocketInv'
<1>1. /\ sock \in [Sockets -> SocketRecord] /\ sessions \in [Digests -> Nat]
      /\ raw = {q \in Sockets : Live(q)} /\ IsFiniteSet(raw)
  BY DEF SocketInv, SocketTyped, RawCounted
<1>2. sock[s].life = "unborn" /\ s \notin raw /\ stopping = "no" /\ stopping' = "no" /\ raw' = raw \cup {s}
  BY <1>1 DEF Upgrade, Unborn, Live
<1>3. IsFiniteSet(raw') /\ Cardinality(raw') <= MaxRaw
  <2>1. Cardinality(raw) \in Nat /\ Cardinality(raw') = Cardinality(raw) + 1 /\ IsFiniteSet(raw')
    BY <1>1, <1>2, FS_AddElement, FS_CardinalityType
  <2>2. Cardinality(raw) < MaxRaw
    BY DEF Upgrade
  <2> QED BY <2>1, <2>2, SocketAssumption
<1>4. ASSUME NEW r \in SocketRecord, sock' = [sock EXCEPT ![s] = r], r.life = "up", r.counted <=> r.digest # NoDigest,
             sessions' \in [Digests -> Nat],
             \A d \in Digests : sessions'[d] = (IF r.digest = d THEN sessions[d] + 1 ELSE sessions[d]) /\ sessions'[d] <= MaxPerSession
      PROVE  SocketInv'
  <2>1. sock' \in [Sockets -> SocketRecord] /\ sock'[s] = r /\ \A q \in Sockets : q # s => sock'[q] = sock[q]
    BY <1>1, <1>4
  <2>2. RawCounted'
    <3>1. \A q \in Sockets : Live(q)' <=> (q = s \/ Live(q))
      BY <1>4, <2>1 DEF Live
    <3> QED BY <1>1, <1>2, <1>3, <3>1 DEF RawCounted
  <2>3. ASSUME NEW d \in Digests PROVE sessions'[d] = Cardinality(Of(d)')
    <3>1. IsFiniteSet(Of(d)) /\ s \notin Of(d) /\ sessions[d] = Cardinality(Of(d))
      BY <1>1, <1>2, FS_Subset DEF Of, SocketInv, ShareCounted
    <3>2. Of(d)' = IF r.digest = d THEN Of(d) \cup {s} ELSE Of(d)
      BY <1>1, <1>2, <2>1 DEF Of
    <3>3. Cardinality(Of(d) \cup {s}) = Cardinality(Of(d)) + 1
      BY <3>1, FS_AddElement
    <3> QED BY <1>4, <3>1, <3>2, <3>3
  <2>4. ShareCounted'
    <3>1. \A q \in raw' : sock'[q].counted <=> sock'[q].digest # NoDigest
      BY <1>1, <1>2, <1>4, <2>1 DEF SocketInv, ShareCounted
    <3> QED BY <1>4, <2>3, <3>1 DEF ShareCounted
  <2> QED BY <1>2, <1>4, <2>1, <2>2, <2>4 DEF SocketInv, SocketTyped, NoneWhileStopping
<1>5. CASE Denied(s)
  <2> DEFINE r == [Unborn EXCEPT !.life = "up", !.does = "refused"]
  <2>1. r \in SocketRecord /\ r.life = "up" /\ ~r.counted /\ r.digest = NoDigest
    BY DEF Unborn, SocketRecord
  <2>2. sock' = [sock EXCEPT ![s] = r] /\ sessions' = sessions
    BY <1>5 DEF Denied
  <2> HIDE DEF r
  <2>3. \A d \in Digests : sessions[d] <= MaxPerSession /\ d # NoDigest
    BY SocketAssumption DEF SocketInv, ShareCounted
  <2> QED BY <1>1, <1>4, <2>1, <2>2, <2>3
<1>6. ASSUME NEW d \in Digests, ~Full(d), Admitted(s, d) PROVE SocketInv'
  <2> DEFINE r == [Unborn EXCEPT !.life = "up", !.does = "asking", !.digest = d, !.counted = TRUE]
  <2>1. r \in SocketRecord /\ r.life = "up" /\ r.counted /\ r.digest = d /\ d # NoDigest
    BY SocketAssumption DEF Unborn, SocketRecord
  <2>2. sock' = [sock EXCEPT ![s] = r] /\ sessions' = [sessions EXCEPT ![d] = sessions[d] + 1]
    BY <1>6 DEF Admitted
  <2> HIDE DEF r
  <2>3. sessions' \in [Digests -> Nat]
        /\ \A e \in Digests : sessions'[e] = IF d = e THEN sessions[e] + 1 ELSE sessions[e]
    BY <1>1, <2>2
  <2>4. \A e \in Digests : sessions[e] \in Nat /\ sessions[e] <= MaxPerSession
    BY <1>1 DEF SocketInv, ShareCounted
  <2>5. sessions[d] + 1 <= MaxPerSession
    BY <1>6, <2>4, SocketAssumption DEF Full
  <2>6. \A e \in Digests : sessions'[e] <= MaxPerSession
    BY <2>3, <2>4, <2>5
  <2> QED BY <1>4, <2>1, <2>2, <2>3, <2>6
<1> QED BY <1>5, <1>6 DEF Upgrade

(* A socket is gone: what was counted when it was let in is no longer.      *)
LEMMA CloseStep ==
  ASSUME SocketInv, NEW s \in Sockets, CloseEvent(s)
  PROVE  SocketInv'
<1>1. /\ sock \in [Sockets -> SocketRecord] /\ sock[s] \in SocketRecord /\ sessions \in [Digests -> Nat]
      /\ raw = {q \in Sockets : Live(q)} /\ IsFiniteSet(raw) /\ Cardinality(raw) <= MaxRaw
  BY DEF SocketInv, SocketTyped, RawCounted
<1>2. sock[s].life = "destroyed" /\ s \in raw /\ UNCHANGED stopping /\ raw' = raw \ {s}
  BY <1>1 DEF CloseEvent, Live
<1>3. IsFiniteSet(raw') /\ Cardinality(raw') <= MaxRaw
  <2>1. IsFiniteSet(raw') /\ Cardinality(raw) \in Nat /\ Cardinality(raw') = Cardinality(raw) - 1
    BY <1>1, <1>2, FS_RemoveElement, FS_CardinalityType
  <2> QED BY <1>1, <2>1, SocketAssumption
<1> DEFINE g == [sock[s] EXCEPT !.life = "gone", !.count = 0]
<1>4. g \in SocketRecord /\ g.life = "gone"
  BY <1>1 DEF SocketRecord
<1> HIDE DEF g
<1>5. PICK r \in SocketRecord : sock' = [sock EXCEPT ![s] = r] /\ r.life \notin {"up", "destroyed"}
  <2>1. sock' = [sock EXCEPT ![s] = Freed(g)]
    BY <1>1 DEF CloseEvent, g
  <2> QED BY <1>4, <2>1, FreedKeeps
<1>6. sock' \in [Sockets -> SocketRecord] /\ sock'[s] = r /\ \A q \in Sockets : q # s => sock'[q] = sock[q]
  BY <1>1, <1>5
<1>7. RawCounted'
  <2>1. \A q \in Sockets : Live(q)' <=> (q # s /\ Live(q))
    BY <1>5, <1>6 DEF Live
  <2> QED BY <1>1, <1>2, <1>3, <2>1 DEF RawCounted
<1>8. sock[s].counted <=> sock[s].digest # NoDigest
  BY <1>2 DEF SocketInv, ShareCounted
<1>9. ASSUME NEW d \in Digests
      PROVE  /\ IsFiniteSet(Of(d)) /\ Cardinality(Of(d)) \in Nat /\ sessions[d] = Cardinality(Of(d)) /\ sessions[d] <= MaxPerSession
             /\ Of(d)' = Of(d) \ {s} /\ (s \in Of(d) <=> sock[s].digest = d)
             /\ Cardinality(Of(d)') = (IF sock[s].digest = d THEN Cardinality(Of(d)) - 1 ELSE Cardinality(Of(d)))
             /\ Cardinality(Of(d)') \in Nat
  <2>1. IsFiniteSet(Of(d)) /\ Cardinality(Of(d)) \in Nat /\ sessions[d] = Cardinality(Of(d)) /\ sessions[d] <= MaxPerSession
    BY <1>1, FS_Subset, FS_CardinalityType DEF Of, SocketInv, ShareCounted
  <2>2. Of(d)' = Of(d) \ {s} /\ (s \in Of(d) <=> sock[s].digest = d)
    BY <1>1, <1>2, <1>6 DEF Of
  <2>3. IsFiniteSet(Of(d) \ {s})
        /\ Cardinality(Of(d) \ {s}) = IF s \in Of(d) THEN Cardinality(Of(d)) - 1 ELSE Cardinality(Of(d))
    BY <2>1, FS_RemoveElement
  <2>4. Cardinality(Of(d) \ {s}) \in Nat
    BY <2>3, FS_CardinalityType
  <2> QED BY <2>1, <2>2, <2>3, <2>4
<1>10. sessions' \in [Digests -> Nat]
       /\ \A d \in Digests : sessions'[d] = (IF sock[s].digest = d THEN sessions[d] - 1 ELSE sessions[d])
  <2>1. CASE sock[s].counted
    <3>1. sock[s].digest \in Digests
      BY <1>1, <1>8, <2>1 DEF SocketRecord
    <3>2. sessions' = [sessions EXCEPT ![sock[s].digest] = sessions[sock[s].digest] - 1]
      BY <2>1 DEF CloseEvent, Lowers
    <3>3. sessions[sock[s].digest] - 1 \in Nat
      BY <1>9, <3>1
    <3> QED BY <1>1, <3>1, <3>2, <3>3
  <2>2. CASE ~sock[s].counted
    <3>1. sessions' = sessions /\ sock[s].digest \notin Digests
      BY <1>1, <1>8, <2>2, SocketAssumption DEF CloseEvent, Lowers, SocketRecord
    <3> QED BY <1>1, <3>1
  <2> QED BY <1>1, <2>1, <2>2 DEF SocketRecord
<1>11. ASSUME NEW d \in Digests PROVE sessions'[d] = Cardinality(Of(d)') /\ sessions'[d] <= MaxPerSession
  BY <1>9, <1>10, SocketAssumption
<1>12. ShareCounted'
  <2>1. \A q \in raw' : sock'[q].counted <=> sock'[q].digest # NoDigest
    BY <1>1, <1>2, <1>6 DEF SocketInv, ShareCounted
  <2> QED BY <1>11, <2>1 DEF ShareCounted
<1>13. NoneWhileStopping'
  BY <1>2, <1>5, <1>6 DEF SocketInv, NoneWhileStopping
<1> QED BY <1>2, <1>6, <1>7, <1>10, <1>12, <1>13 DEF SocketInv, SocketTyped

(* The service stops: every socket is destroyed, and none is let in.        *)
LEMMA StopSteps ==
  ASSUME SocketInv, SessionEnds \/ PreClose \/ PreClosed \/ UNCHANGED socketVars
  PROVE  SocketInv'
<1>1. CASE SessionEnds \/ PreClosed \/ UNCHANGED socketVars
  <2>1. UNCHANGED <<sock, raw, sessions>> /\ (stopping' = stopping \/ (stopping # "no" /\ stopping' = "closed"))
    BY <1>1 DEF SessionEnds, PreClosed, socketVars
  <2>2. \A d \in Digests : Of(d)' = Of(d)
    BY <2>1 DEF Of
  <2>3. RawCounted' /\ ShareCounted'
    BY <2>1, <2>2 DEF SocketInv, RawCounted, ShareCounted, Live
  <2> QED BY <2>1, <2>3 DEF SocketInv, SocketTyped, NoneWhileStopping
<1>2. CASE PreClose
  <2>1. /\ UNCHANGED <<raw, sessions>> /\ stopping' = "closing"
        /\ sock' = [s \in Sockets |-> IF s \in raw THEN [sock[s] EXCEPT !.life = "destroyed"] ELSE sock[s]]
        /\ sock \in [Sockets -> SocketRecord] /\ raw = {s \in Sockets : Live(s)}
    BY <1>2 DEF PreClose, SocketInv, SocketTyped, RawCounted
  <2>2. \A r \in SocketRecord : LET q == [r EXCEPT !.life = "destroyed"]
                                IN  q \in SocketRecord /\ q.life = "destroyed" /\ q.digest = r.digest /\ q.counted = r.counted
    BY DEF SocketRecord
  <2>3. \A s \in Sockets : /\ sock'[s] \in SocketRecord /\ sock'[s].life # "up" /\ (Live(s)' <=> Live(s))
                           /\ sock'[s].digest = sock[s].digest /\ sock'[s].counted = sock[s].counted
    BY <2>1, <2>2 DEF Live
  <2>4. \A d \in Digests : Of(d)' = Of(d)
    BY <2>1, <2>3 DEF Of
  <2>5. RawCounted' /\ ShareCounted'
    BY <2>1, <2>3, <2>4 DEF SocketInv, RawCounted, ShareCounted
  <2>6. sock' \in [Sockets -> SocketRecord]
    BY <2>1, <2>3
  <2> QED BY <2>1, <2>3, <2>5, <2>6 DEF SocketInv, SocketTyped, NoneWhileStopping
<1> QED BY <1>1, <1>2

(* However sockets end, for any number of them, of sessions and of places,  *)
(* both counts are of the sockets there are, no more of them than allowed,  *)
(* and once the service has closed none is open.                           *)
THEOREM SocketsAlwaysCounted == SocketSpec => []SocketsCounted
<1>1. SocketInv /\ [SocketNext]_socketVars => SocketInv'
  BY WorkSteps, UpgradeStep, CloseStep, StopSteps DEF SocketNext
<1>2. SocketInv => SocketsCounted
  BY DEF SocketInv, RawCounted, ShareCounted, Of, NoneWhileStopping, SocketsCounted, Is
<1> QED BY <1>1, <1>2, SocketStart, PTL DEF SocketSpec

(***************************************************************************)
(* Policy decisions: while nobody changes the policy, what was decided      *)
(* would be decided again at any moment before the deadline.               *)
(***************************************************************************)
PolicySpec == PolicyInit /\ [][PolicyNext]_policyVars

PolicyTyped == rules \subseteq Rules /\ revision \in Nat /\ time \in Nat /\ ends \in Nat

Later(until) == {t \in Nat : time <= t /\ t < until}

(* A decision of the present revision, or of an earlier one.                *)
Keeps(d) ==
  d # None =>
    /\ d.revision \in Nat /\ d.revision <= revision
    /\ d.revision = revision => \A t \in Later(d.until) : Outcome(d.action, t) = d.outcome

Granting == rename # None => rename.action = "resource.update" /\ rename.outcome = "allow" /\ rename.revision = revision

PolicyInv == PolicyTyped /\ Keeps(answer) /\ Keeps(rename) /\ Granting

(* The least of some numbers is one of them and no more than any.           *)
LEMMA MinIsLeast ==
  ASSUME NEW S \in SUBSET Nat, S # {}
  PROVE  Min(S) \in S /\ \A x \in S : Min(S) <= x
<1>1. PICK x \in S : \A y \in S : ~(<<y, x>> \in OpToRel(<, Nat))
  BY NatLessThanWellFounded, WFMin
<1>2. ASSUME NEW y \in S PROVE x <= y
  <2>1. y \in Nat /\ x \in Nat
    OBVIOUS
  <2>2. CASE y < x
    <3>1. <<y, x>> \in {ss \in Nat \X Nat : ss[1] < ss[2]}
      BY <2>1, <2>2
    <3> QED BY <1>1, <3>1 DEF OpToRel
  <2> QED BY <2>1, <2>2
<1> QED BY <1>2 DEF Min

(* No rule begins or ends between now and the deadline of a decision.       *)
LEMMA SameUntil ==
  ASSUME PolicyTyped, NEW a \in Actions, NEW t \in Later(Min(Limits(a)))
  PROVE  Outcome(a, t) = Outcome(a, time)
<1>1. t \in Nat /\ time \in Nat /\ time <= t /\ t < Min(Limits(a))
  BY DEF PolicyTyped, Later
<1>2. \A r \in rules : r.from \in Nat /\ r.to \in Nat
  BY PolicyAssumption DEF PolicyTyped, Rules
<1>3. Boundaries \subseteq Nat /\ \A r \in rules : r.from \in Boundaries /\ r.to \in Boundaries
  BY <1>2 DEF Boundaries
<1>4. Limits(a) \in SUBSET Nat /\ ends \in Limits(a)
  <2>1. time + DecisionLifetime \in Nat /\ ends \in Nat
    BY <1>1, PolicyAssumption DEF PolicyTyped
  <2>2. {b \in Boundaries : b > time /\ Fits(a)} \subseteq Nat
    BY <1>3
  <2> QED BY <2>1, <2>2 DEF Limits
<1>5. \A x \in Limits(a) : t < x
  <2>1. Min(Limits(a)) \in Nat /\ \A x \in Limits(a) : x \in Nat /\ Min(Limits(a)) <= x
    BY <1>4, MinIsLeast
  <2> QED BY <1>1, <2>1
<1>6. t < ends /\ time < ends
  BY <1>1, <1>4, <1>5 DEF PolicyTyped
<1>7. CASE ~Fits(a)
  BY <1>7 DEF Outcome
<1>8. CASE Fits(a)
  <2>1. \A b \in Boundaries : b > time => t < b
    BY <1>5, <1>8 DEF Limits
  <2>2. \A r \in rules : Active(r, t) <=> Active(r, time)
    BY <1>1, <1>2, <1>3, <2>1 DEF Active
  <2>3. Bindings(t) = Bindings(time)
    BY <2>2 DEF Bindings
  <2>4. \A effect : Granted(effect, a, t) <=> Granted(effect, a, time)
    BY <2>2 DEF Granted
  <2>5. Permitted(a, t) <=> Permitted(a, time)
    BY <2>3, <2>4 DEF Permitted, Hidden, ByBinding
  <2>6. ~(t >= ends) /\ ~(time >= ends)
    BY <1>1, <1>6 DEF PolicyTyped
  <2> HIDE DEF PolicyInv
  <2> QED BY <2>4, <2>5, <2>6 DEF Outcome
<1> QED BY <1>7, <1>8

(* What is decided now keeps.                                               *)
LEMMA DecisionKeeps ==
  ASSUME PolicyTyped, NEW a \in Actions
  PROVE  Keeps(Decision(a)) /\ Decision(a) # None /\ Decision(a).action = a /\ Decision(a).outcome = Outcome(a, time)
         /\ Decision(a).revision = revision
<1>1. Decision(a).action = a /\ Decision(a).outcome = Outcome(a, time) /\ Decision(a).revision = revision
      /\ Decision(a).until = Min(Limits(a))
  BY DEF Decision
<1>2. Decision(a) # None
  BY <1>1 DEF Actions, None
<1>3. Keeps(Decision(a))
  BY <1>1, SameUntil DEF Keeps, PolicyTyped
<1> QED BY <1>1, <1>2, <1>3

(* The clock and other decisions leave it so; a change of the policy makes  *)
(* it one of an earlier revision.                                          *)
LEMMA StillKeeps ==
  ASSUME PolicyTyped, PolicyTyped', NEW d, Keeps(d),
         \/ UNCHANGED <<actor, thing, ends, rules, mode, revision>> /\ time <= time'
         \/ revision' = revision + 1
  PROVE  d # None => /\ d.revision \in Nat /\ d.revision <= revision'
                     /\ d.revision = revision' => \A t \in Later(d.until)' : Outcome(d.action, t)' = d.outcome
<1> SUFFICES ASSUME d # None
             PROVE  /\ d.revision \in Nat /\ d.revision <= revision'
                    /\ d.revision = revision' => \A t \in Later(d.until)' : Outcome(d.action, t)' = d.outcome
  OBVIOUS
<1>1. revision \in Nat /\ time \in Nat /\ time' \in Nat /\ d.revision \in Nat /\ d.revision <= revision
  BY DEF PolicyTyped, Keeps
<1>2. CASE revision' = revision + 1
  BY <1>1, <1>2
<1>3. CASE UNCHANGED <<actor, thing, ends, rules, mode, revision>> /\ time <= time'
  <2>1. \A t : Outcome(d.action, t)' = Outcome(d.action, t)
    BY <1>3 DEF Outcome, Fits, Granted, Permitted, Hidden, Bindings, ByRole, ByBinding, Sensitive, Active
  <2>2. \A t \in Later(d.until)' : t \in Later(d.until)
    BY <1>1, <1>3 DEF Later
  <2> QED BY <1>1, <1>3, <2>1, <2>2 DEF Keeps
<1> QED BY <1>2, <1>3

LEMMA PolicyStart == PolicyInit => PolicyInv
  BY PolicyAssumption DEF PolicyInit, PolicyInv, PolicyTyped, Keeps, Granting

LEMMA PolicyStep == PolicyInv /\ [PolicyNext]_policyVars => PolicyInv'
<1> SUFFICES ASSUME PolicyInv, [PolicyNext]_policyVars PROVE PolicyInv'
  OBVIOUS
<1>1. PolicyTyped'
  <2>1. CASE \E r \in Rules : AddRule(r)
    BY <2>1 DEF AddRule, Change, FactsStay, PolicyInv, PolicyTyped, Rules
  <2>2. CASE \E r \in rules : RevokeRule(r)
    BY <2>2 DEF RevokeRule, Change, FactsStay, PolicyInv, PolicyTyped, Rules
  <2>3. CASE (\E m \in {"active", "read_only"} : SetWriteMode(m)) \/ RegisterResource
    BY <2>3 DEF SetWriteMode, RegisterResource, Change, FactsStay, PolicyInv, PolicyTyped, Rules
  <2>4. CASE Tick
    BY <2>4 DEF Tick, FactsStay, PolicyInv, PolicyTyped, Rules
  <2>5. CASE (\E a \in Actions : Evaluate(a)) \/ Checks \/ Writes \/ Fails \/ UNCHANGED policyVars
    BY <2>5 DEF Evaluate, Checks, Writes, Fails, FactsStay, policyVars, PolicyInv, PolicyTyped, Rules
  <2> QED BY <2>1, <2>2, <2>3, <2>4, <2>5 DEF PolicyNext
<1>2. CASE Change
  <2>1. revision' = revision + 1 /\ rename = None /\ UNCHANGED <<answer, rename>>
    BY <1>2 DEF Change
  <2> QED BY <1>1, <2>1, StillKeeps DEF PolicyInv, Keeps, Granting
<1>3. CASE Tick \/ Writes \/ Fails \/ UNCHANGED policyVars
  <2>1. UNCHANGED <<actor, thing, ends, rules, mode, revision, answer>> /\ time' \in {time, time + 1} /\ rename' \in {rename, None}
    BY <1>3 DEF Tick, Writes, Fails, FactsStay, policyVars
  <2>2. time <= time'
    BY <2>1 DEF PolicyInv, PolicyTyped
  <2> QED BY <1>1, <2>1, <2>2, StillKeeps DEF PolicyInv, Keeps, Granting
<1>4. ASSUME NEW a \in Actions, Evaluate(a) PROVE PolicyInv'
  <2>1. UNCHANGED <<actor, thing, ends, rules, mode, revision, time, rename>> /\ answer' = Decision(a)
    BY <1>4 DEF Evaluate, FactsStay
  <2>2. Keeps(Decision(a))
    BY DecisionKeeps DEF PolicyInv
  <2>3. time <= time'
    BY <2>1 DEF PolicyInv, PolicyTyped
  <2> QED BY <1>1, <2>1, <2>2, <2>3, StillKeeps DEF PolicyInv, Keeps, Granting
<1>5. CASE Checks
  <2>1. /\ UNCHANGED <<actor, thing, ends, rules, mode, revision, time, answer>>
        /\ rename' = Decision("resource.update") /\ Outcome("resource.update", time) = "allow"
    BY <1>5 DEF Checks, FactsStay
  <2>2. LET d == Decision("resource.update")
        IN  Keeps(d) /\ d.action = "resource.update" /\ d.outcome = "allow" /\ d.revision = revision
    BY <2>1, DecisionKeeps DEF PolicyInv, Actions
  <2>3. time <= time'
    BY <2>1 DEF PolicyInv, PolicyTyped
  <2> QED BY <1>1, <2>1, <2>2, <2>3, StillKeeps DEF PolicyInv, Keeps, Granting
<1>6. (\E a \in Actions : Evaluate(a)) \/ Change \/ Tick \/ Writes \/ Fails \/ Checks \/ UNCHANGED policyVars
  BY DEF PolicyNext, AddRule, RevokeRule, SetWriteMode, RegisterResource
<1> QED BY <1>2, <1>3, <1>4, <1>5, <1>6

(* For any rules and periods, and any member and resource: until its        *)
(* deadline a decision would be made again while the policy is not changed, *)
(* and a rename writes only what is allowed at the moment it writes.        *)
THEOREM DecisionsGoodUntilTheDeadline == PolicySpec => GoodUntilTheDeadline
<1>1. PolicyInv => Stands(answer)
  BY DEF PolicyInv, PolicyTyped, Keeps, Stands, Later
<1>2. ASSUME PolicyInv, [PolicyNext]_policyVars, version' # version
      PROVE  Outcome("resource.update", time) = "allow"
  <2>1. rename # None /\ time < rename.until
    BY <1>2 DEF PolicyNext, Evaluate, Checks, Writes, Lasts, Fails, AddRule, RevokeRule, SetWriteMode, RegisterResource, Change, Tick, policyVars
  <2> QED BY <1>2, <2>1 DEF PolicyInv, PolicyTyped, Keeps, Granting, Later
<1>3. PolicyInv' => Stands(answer)'
  BY <1>1, PTL
<1>4. PolicyInv /\ [PolicyNext]_policyVars
        => [(version' # version => Outcome("resource.update", time) = "allow") /\ Stands(answer)']_policyVars
  BY <1>2, <1>3, PolicyStep
<1> QED BY <1>4, PolicyStart, PolicyStep, PTL DEF PolicySpec, GoodUntilTheDeadline
=============================================================================
