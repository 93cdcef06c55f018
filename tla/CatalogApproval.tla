--------------------------- MODULE CatalogApproval ---------------------------
(***************************************************************************)
(* The page on which a rename is requested, decided and executed: one       *)
(* CatalogApprovalController with the buttons its state offers, the browser *)
(* below it and the server beyond. A controller runs one generation of work *)
(* at a time: begin() and suspend() start a new one, which aborts the       *)
(* fetches of the old; but a digest being computed cannot be aborted, so    *)
(* its task goes on and must find itself superseded. A write may be lost,   *)
(* arrive late, arrive twice (browsers repeat a call on a broken            *)
(* connection) or lose its answer.                                          *)
(***************************************************************************)
EXTENDS ConsoleSession, FiniteSets

CONSTANTS MaxRequests,  \* bound on request ids
          MaxCatalog,   \* bound on the resource's version
          MaxNet        \* bound on writes the network holds back

ASSUME CatalogAssumption == MaxRequests \in Nat \ {0} /\ MaxCatalog \in Nat /\ MaxNet \in Nat

VARIABLES rows,      \* server: approval by request id
          catalog,   \* server: the resource's version
          net,       \* writes that have not reached the server
          mode,      \* route.mode
          known,     \* #approvalId, 0 for null
          pending,   \* #pending: the request whose outcome is unknown
          uncertain, \* #uncertain
          view,      \* #state
          readers,   \* reload() calls that have not returned
          writer,    \* the call that holds #busy
          unknown,   \* requests of this controller the server has not answered
          floor      \* version the approval had when the present generation began

controller == <<mode, known, pending, uncertain, view, readers, writer, unknown, floor>>
server == <<rows, catalog, net>>
caVars == <<session, server, controller>>

Ids == 1..MaxRequests
Absent == [state |-> "none", version |-> 0, bound |-> 0, own |-> FALSE]
Open == {"pending", "approved", "issued"}
Parsed(row) == row.state \in {"rejected", "revoked", "consumed"} \cup Open /\ row.version \in 1..4 /\ row.own \in BOOLEAN
NoRequest == [id |-> 0, ctx |-> 0, bound |-> 0]
NoTask == [op |-> "none"]
Busy == writer # NoTask

Blank(status) == [status |-> status, ctx |-> 0, id |-> 0, row |-> Absent, bound |-> 0, retry |-> FALSE, uncertain |-> FALSE]
Failed == [Blank("error") EXCEPT !.uncertain = uncertain']
Ready(ctx, id, row, bound) ==
  [status |-> "ready", ctx |-> ctx, id |-> id, row |-> row, bound |-> bound,
   retry |-> pending' # NoRequest, uncertain |-> uncertain']

(* A load under way: what it has read, whether its generation is the        *)
(* present one, who awaits it, and whether it interrupted another load.     *)
Reading(of, again) == [phase |-> "session", ctx |-> 0, row |-> Absent, live |-> TRUE, of |-> of, again |-> again]

(* Two ways a page opens: to request a rename, or on an approval that was   *)
(* requested by its reader or by somebody else.                             *)
CAInit ==
  /\ SessionInit
  /\ catalog = 1 /\ net = {}
  /\ \/ mode = "request" /\ known = 0 /\ rows = [i \in Ids |-> Absent]
     \/ /\ mode = "inspect" /\ known = 1
        /\ \E own \in BOOLEAN :
             rows = [i \in Ids |-> IF i = 1 THEN [state |-> "pending", version |-> 1, bound |-> 1, own |-> own] ELSE Absent]
  /\ pending = NoRequest /\ uncertain = FALSE
  /\ view = Blank("loading") /\ readers = {Reading("page", FALSE)}
  /\ writer = NoTask /\ unknown = {} /\ floor = rows[1].version

(***************************************************************************)
(* Generations.                                                            *)
(***************************************************************************)
CheckNothing(task) == TRUE \* mutant
Check(task) == task.live

Superseded == {[t EXCEPT !.live = FALSE, !.again = FALSE] : t \in {r \in readers : r.phase = "digest"}}
Aborted == IF Busy /\ writer.phase = "sent" THEN NoTask
           ELSE IF Busy THEN [writer EXCEPT !.live = FALSE] ELSE NoTask
FloorNow == IF known = 0 THEN 0 ELSE rows[known].version

StartRead(of) ==
  /\ readers' = Superseded \cup {Reading(of, view.status = "loading" /\ of = "page")}
  /\ view' = Blank("loading") /\ floor' = FloorNow

(* Focus, pageshow and online events, and the reload button. A load is      *)
(* interrupted by another at most once: nobody reloads without end.         *)
Reload ==
  /\ \A t \in readers : ~t.again
  /\ StartRead("page") /\ writer' = Aborted
  /\ UNCHANGED <<session, server, mode, known, pending, uncertain, unknown>>

(* The page is hidden, left, or offline. *)
Suspend ==
  /\ view.status # "suspended"
  /\ view' = Blank("suspended")
  /\ readers' = Superseded /\ writer' = Aborted
  /\ UNCHANGED <<session, server, mode, known, pending, uncertain, unknown, floor>>

(***************************************************************************)
(* reload(): session, membership, then the approval or the resource.       *)
(***************************************************************************)
KeepWrites == UNCHANGED <<session, server, mode, known, writer, unknown, floor>>
Forward(t, u) == readers' = (readers \ {t}) \cup {u}
Return(t) == readers' = readers \ {t}

(* Reading the approval itself settles what became of a write to it; reading *)
(* the resource settles nothing.                                            *)
ClearedByAnyRead == FALSE \* mutant
UncertainAfterRead == IF known = 0 THEN uncertain ELSE FALSE

ReadSession(t) ==
  /\ t.phase = "session" /\ KeepWrites
  /\ \/ /\ ~session.open /\ Return(t)
        /\ pending' = NoRequest /\ view' = Blank("anonymous") /\ UNCHANGED uncertain
     \/ /\ session.open /\ UNCHANGED uncertain
        /\ pending' = IF pending.ctx = session.n THEN pending ELSE NoRequest
        /\ IF session.here
             THEN Forward(t, [t EXCEPT !.phase = "self", !.ctx = session.n]) /\ UNCHANGED view
             ELSE Return(t) /\ view' = [Blank("choose") EXCEPT !.ctx = session.n]

ReadSelf(t) ==
  /\ t.phase = "self" /\ Current(t.ctx) /\ KeepWrites
  /\ Forward(t, [t EXCEPT !.phase = "object"])
  /\ UNCHANGED <<pending, uncertain, view>>

(* The known approval must still pass its digest; a resource need not. *)
ReadObject(t) ==
  /\ t.phase = "object" /\ Current(t.ctx) /\ KeepWrites /\ UNCHANGED pending
  /\ IF known # 0
       THEN Parsed(rows[known]) /\ Forward(t, [t EXCEPT !.phase = "digest", !.row = rows[known]]) /\ UNCHANGED <<uncertain, view>>
       ELSE Return(t) /\ uncertain' = UncertainAfterRead /\ view' = Ready(t.ctx, 0, Absent, catalog)

FinishRead(t) ==
  /\ t.phase = "digest" /\ Return(t) /\ KeepWrites /\ UNCHANGED pending
  /\ IF Check(t)
       THEN uncertain' = UncertainAfterRead /\ view' = Ready(t.ctx, known, t.row, 0)
       ELSE UNCHANGED <<uncertain, view>>

(* No answer within eight seconds, or one that is no use. *)
ReadFails(t) ==
  /\ t.phase # "digest" /\ Return(t) /\ KeepWrites
  /\ UNCHANGED <<pending, uncertain>>
  /\ view' \in {Failed} \cup (IF t.phase = "session" THEN {Blank("disabled")} ELSE {})

(***************************************************************************)
(* Writes: one at a time, each begun by a button of the page.              *)
(***************************************************************************)
Send(op, id, version, ctx) ==
  /\ Cardinality(net) < MaxNet
  /\ net' = net \cup {[op |-> op, id |-> id, version |-> version, ctx |-> ctx, copy |-> 1]}
  /\ writer' = [op |-> op, id |-> id, version |-> version, ctx |-> ctx, copy |-> 1,
                phase |-> "sent", row |-> Absent, live |-> TRUE]

BeginWrite == view.status = "ready" /\ ~Busy /\ view' = Blank("loading") /\ readers' = Superseded /\ floor' = FloorNow
KeepWorld == UNCHANGED <<session, rows, catalog, mode, known>>

(* What the page lets its reader do: fill in the form, or repeat a request  *)
(* that is in doubt, or decide on a page of its own.                        *)
FormShown == view.id = 0 /\ ~view.retry /\ ~view.uncertain
DecisionShown == view.id # 0 /\ mode = "inspect"

Request(id) ==
  /\ BeginWrite /\ KeepWorld /\ FormShown
  /\ rows[id] = Absent /\ id \notin unknown /\ \A i \in 1..(id - 1) : rows[i] # Absent \/ i \in unknown
  /\ pending' = [id |-> id, ctx |-> view.ctx, bound |-> view.bound]
  /\ uncertain' = TRUE /\ unknown' = unknown \cup {id}
  /\ Send("request", id, view.bound, view.ctx)

Retry ==
  /\ BeginWrite /\ KeepWorld /\ UNCHANGED <<pending, unknown>>
  /\ view.retry /\ pending.ctx = view.ctx
  /\ uncertain' = TRUE
  /\ Send("request", pending.id, pending.bound, view.ctx)

(* catalogApprovalActions: what the approval's state offers its reader. A   *)
(* role that moves meanwhile shows as a refusal.                           *)
Offered(row) ==
  (IF row.state = "pending" /\ ~row.own /\ session.owner THEN {"approve", "reject"} ELSE {})
    \cup (IF row.state = "approved" /\ row.own THEN {"permit"} ELSE {})
    \cup (IF row.state \in Open /\ (row.own \/ session.owner) THEN {"revoke"} ELSE {})

Command(op) ==
  /\ BeginWrite /\ KeepWorld /\ UNCHANGED <<pending, unknown>>
  /\ DecisionShown /\ op \in Offered(view.row)
  /\ uncertain' = TRUE
  /\ Send(op, view.id, view.row.version, view.ctx)

SwitchOrganization ==
  /\ view.status = "choose" /\ ~Busy /\ KeepWorld /\ UNCHANGED <<pending, uncertain, unknown>>
  /\ view' = Blank("loading") /\ readers' = Superseded /\ floor' = FloorNow
  /\ Send("switch", 0, 0, view.ctx)

(* The browser repeats a call whose connection broke. *)
Retransmit ==
  /\ Busy /\ writer.phase = "sent" /\ writer.copy = 1 /\ Cardinality(net) < MaxNet
  /\ writer' = [writer EXCEPT !.copy = 2]
  /\ net' = net \cup {[op |-> writer.op, id |-> writer.id, version |-> writer.version, ctx |-> writer.ctx, copy |-> 2]}
  /\ UNCHANGED <<session, rows, catalog, mode, known, pending, uncertain, view, readers, unknown, floor>>

(***************************************************************************)
(* The server, as far as this page can tell it.                            *)
(***************************************************************************)
StateAfter(op) == [approve |-> "approved", reject |-> "rejected", revoke |-> "revoked", permit |-> "issued", execute |-> "consumed"][op]
From(op) == CASE op \in {"approve", "reject"} -> {"pending"}
              [] op = "permit" -> {"approved"}
              [] op = "execute" -> {"issued"}
              [] op = "revoke" -> Open

(* Moves an approval on; an execution renames the resource. *)
Move(id, op) ==
  /\ rows[id].state \in From(op)
  /\ op \in {"approve", "permit", "execute"} => rows[id].bound = catalog
  /\ rows' = [rows EXCEPT ![id].state = StateAfter(op), ![id].version = @ + 1]
  /\ IF op = "execute" THEN catalog < MaxCatalog /\ catalog' = catalog + 1 ELSE UNCHANGED catalog

(* What the server does with a write it accepts. A request it has already   *)
(* recorded is answered with the record as it stands.                       *)
Accept(m) ==
  \/ /\ m.op = "request" /\ Current(m.ctx) /\ catalog = m.version /\ UNCHANGED <<session, catalog>>
     /\ rows' = [rows EXCEPT ![m.id] = IF @ # Absent THEN @ ELSE [state |-> "pending", version |-> 1, bound |-> m.version, own |-> TRUE]]
  \/ /\ m.op \notin {"request", "switch"} /\ Current(m.ctx) /\ UNCHANGED session
     /\ rows[m.id].version = m.version /\ Move(m.id, m.op)
  \/ /\ m.op = "switch" /\ session.open /\ session.n = m.ctx /\ NewContext(TRUE, TRUE) /\ UNCHANGED <<rows, catalog>>

Refuse(m) == UNCHANGED <<session, rows, catalog>>

Awaited(m) == Busy /\ writer.phase = "sent" /\ m.op = writer.op /\ m.id = writer.id /\ m.copy = writer.copy /\ m.ctx = writer.ctx

Told(m) == unknown' = IF m.op = "request" THEN unknown \ {m.id} ELSE unknown

(* A good answer: a new organization is followed by reload(), everything    *)
(* else by the digest of the approval it brings.                            *)
Heard(m) ==
  /\ Told(m) /\ UNCHANGED <<mode, known, uncertain>>
  /\ IF m.op = "switch"
       THEN pending' = NoRequest /\ StartRead("switch") /\ writer' = [writer EXCEPT !.phase = "reloading"]
       ELSE /\ Parsed(rows'[m.id])
            /\ writer' = [writer EXCEPT !.phase = "digest", !.row = rows'[m.id]]
            /\ UNCHANGED <<pending, view, readers, floor>>

StaysBusy == writer' = [writer EXCEPT !.phase = "forgotten"] \* mutant
WriteEnds == writer' = NoTask

(* definite(): the server has said no. It ends the doubt about a request or *)
(* a decision, but not about an execution, of which half may be done.       *)
Refused(m) ==
  /\ Told(m) /\ WriteEnds /\ UNCHANGED <<mode, known, readers, floor>>
  /\ pending' = IF m.op = "request" \/ ~session.open THEN NoRequest ELSE pending
  /\ uncertain' = IF m.op \in {"permit", "execute", "switch"} THEN uncertain ELSE FALSE
  /\ view' = IF session.open THEN Failed ELSE Blank("anonymous")

Serve(m) ==
  /\ net' = net \ {m}
  /\ \/ Accept(m) /\ ((Awaited(m) /\ Heard(m)) \/ UNCHANGED controller)
     \/ Refuse(m) /\ ((Awaited(m) /\ Refused(m)) \/ UNCHANGED controller)

Lose(m) == net' = net \ {m} /\ UNCHANGED <<session, rows, catalog, controller>>

(* Eight seconds without an answer, a broken connection, or an answer of no *)
(* use: what became of the write is not known.                              *)
WriteFails ==
  /\ Busy /\ writer.phase = "sent" /\ WriteEnds
  /\ UNCHANGED <<session, server, mode, known, pending, uncertain, readers, unknown, floor>>
  /\ view' = Failed

FinishWrite ==
  /\ Busy /\ writer.phase = "digest" /\ UNCHANGED <<session, rows, catalog, mode, readers, unknown, floor>>
  /\ IF ~Check(writer) THEN WriteEnds /\ UNCHANGED <<net, known, pending, uncertain, view>>
     ELSE IF writer.op = "permit"
       THEN /\ UNCHANGED <<known, pending, uncertain, view>>
            /\ writer' = [writer EXCEPT !.op = "execute", !.version = writer.row.version, !.copy = 1, !.phase = "sent"]
            /\ net' = net \cup {[op |-> "execute", id |-> writer.id, version |-> writer.row.version, ctx |-> writer.ctx, copy |-> 1]}
       ELSE /\ WriteEnds /\ UNCHANGED net
            /\ known' = writer.id /\ pending' = NoRequest /\ uncertain' = FALSE
            /\ view' = Ready(writer.ctx, writer.id, writer.row, 0)

SwitchEnds ==
  /\ Busy /\ writer.phase = "reloading" /\ \A t \in readers : t.of # "switch"
  /\ WriteEnds
  /\ UNCHANGED <<session, server, mode, known, pending, uncertain, view, readers, unknown, floor>>

(* A recorded request opens on a page, hence a controller, of its own. *)
Navigate ==
  /\ mode = "request" /\ view.status = "ready" /\ view.id # 0
  /\ mode' = "inspect" /\ pending' = NoRequest /\ uncertain' = FALSE /\ unknown' = {}
  /\ view' = Blank("loading") /\ floor' = FloorNow /\ writer' = NoTask
  /\ readers' = {Reading("page", FALSE)}
  /\ UNCHANGED <<session, server, known>>

(* Other people decide and execute, and rename the resource outright. *)
Colleague ==
  /\ UNCHANGED <<session, net, controller>>
  /\ \/ \E id \in Ids : \E op \in {"approve", "reject", "revoke"} : rows[id].own /\ Move(id, op)
     \/ \E id \in Ids : \E op \in {"permit", "execute", "revoke"} : ~rows[id].own /\ Move(id, op)
     \/ catalog < MaxCatalog /\ catalog' = catalog + 1 /\ UNCHANGED rows

CARead == \E t \in readers : ReadSession(t) \/ ReadSelf(t) \/ ReadObject(t) \/ FinishRead(t) \/ ReadFails(t)
CAWrite == WriteFails \/ FinishWrite \/ SwitchEnds

CANext ==
  \/ CARead \/ CAWrite \/ Reload \/ Suspend
  \/ (\E id \in Ids : Request(id)) \/ Retry \/ SwitchOrganization \/ Retransmit \/ Navigate
  \/ \E op \in {"approve", "reject", "revoke", "permit"} : Command(op)
  \/ \E m \in net : Serve(m) \/ Lose(m)
  \/ Colleague
  \/ Elsewhere /\ UNCHANGED <<server, controller>>

(***************************************************************************)
(* Properties.                                                             *)
(***************************************************************************)
(* While the server has not answered a request, this window sends no other: *)
(* it may repeat the same one, or it must stop asking. Reloads, timeouts,   *)
(* changes of organization and log-ins elsewhere do not make it forget.     *)
NewIdOnlyAfterAnswer == [][\A id \in unknown' : id \notin unknown => unknown = {}]_caVars

(* A suspended page shows nothing until it has begun to load again, and     *)
(* what a page shows is never older than the approval was when the present  *)
(* generation of work began, whichever answer or digest came late.          *)
StaleNeverShown == [][view' # view =>
  /\ view.status = "suspended" => view'.status = "loading"
  /\ view'.status = "ready" => view'.row.version >= floor]_caVars

(* No call keeps the page loading, or its buttons dead, for ever.           *)
WorkEnds == (Busy \/ view.status = "loading") ~> (~Busy /\ view.status # "loading")
=============================================================================
