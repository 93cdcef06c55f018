------------------------------ MODULE Workbench ------------------------------
(***************************************************************************)
(* One WorkbenchController: the context of a page (session, organization,  *)
(* membership), read anew at every reload and kept by nobody. It has one   *)
(* generation of work; a newer one aborts the fetches of the older, so a    *)
(* call that was given up is heard of no more, though the server may still  *)
(* carry out what it asked.                                                *)
(***************************************************************************)
EXTENDS ConsoleSession

VARIABLES wb,      \* #state: [status, n, member, owner] as it was read
          doing,   \* the call under way: [op, phase, n]
          orphan   \* a write the server has yet to see after its page gave it up: [op, n]

wbVars == <<wb, doing, orphan>>

WBBlank(status) == [status |-> status, n |-> 0, member |-> 0, owner |-> FALSE]
Idle == [op |-> "none", phase |-> "none", n |-> 0]
NoOrphan == [op |-> "none", n |-> 0]

WBInit == wb = WBBlank("loading") /\ doing = [op |-> "reload", phase |-> "session", n |-> 0] /\ orphan = NoOrphan

(* A write that is given up may still be on its way. *)
Orphaned == IF doing.op \in {"switch", "logout"} THEN [op |-> doing.op, n |-> doing.n] ELSE orphan

WBReload ==
  /\ wb' = WBBlank("loading") /\ orphan' = Orphaned
  /\ doing' = [op |-> "reload", phase |-> "session", n |-> 0]

WBSuspend == wb' = WBBlank("suspended") /\ doing' = Idle /\ orphan' = Orphaned

WBEnd(state) == wb' = state /\ doing' = Idle /\ orphan' = orphan

(* reload(): capabilities and session, then the membership in that context, *)
(* then what the view asks for in it.                                      *)
WBReadSession ==
  /\ doing.op = "reload" /\ doing.phase = "session"
  /\ \/ ~session.open /\ WBEnd(WBBlank("anonymous"))
     \/ session.open /\ ~session.here /\ WBEnd([WBBlank("choose") EXCEPT !.n = session.n])
     \/ session.open /\ session.here /\ doing' = [doing EXCEPT !.phase = "self", !.n = session.n] /\ UNCHANGED <<wb, orphan>>

WBReadSelf ==
  /\ doing.op = "reload" /\ doing.phase = "self" /\ Current(doing.n)
  /\ WBEnd([status |-> "ready", n |-> doing.n, member |-> session.member, owner |-> session.owner])

(* Any call may fail: refused, timed out, or answered with something else. *)
WBFails ==
  /\ doing # Idle /\ orphan' = Orphaned /\ doing' = Idle
  /\ wb' \in {WBBlank("error")} \cup (IF doing.phase = "session" THEN {WBBlank("disabled")} ELSE {})

Offers == wb.status \in {"ready", "choose"}

WBSwitch ==
  /\ Offers /\ wb' = WBBlank("loading") /\ doing' = [op |-> "switch", phase |-> "sent", n |-> wb.n] /\ UNCHANGED orphan

WBLogout ==
  /\ Offers /\ wb' = WBBlank("loading") /\ doing' = [op |-> "logout", phase |-> "sent", n |-> wb.n] /\ UNCHANGED orphan

(* The server carries out a write in the context it was made in, once. *)
Carry(w) ==
  /\ session.open /\ session.n = w.n
  /\ \/ w.op = "switch" /\ NewContext(TRUE, TRUE)
     \/ w.op = "logout" /\ session' = [session EXCEPT !.open = FALSE]

(* A new organization opens as a page of its own, which reads it anew. *)
WBCarried ==
  /\ doing.phase = "sent" /\ Carry(doing) /\ UNCHANGED orphan
  /\ IF doing.op = "switch"
       THEN wb' = WBBlank("loading") /\ doing' = [op |-> "reload", phase |-> "session", n |-> 0]
       ELSE wb' = WBBlank("anonymous") /\ doing' = Idle

OrphanCarried == orphan # NoOrphan /\ orphan' = NoOrphan /\ Carry(orphan) /\ UNCHANGED <<wb, doing>>
OrphanLost == orphan # NoOrphan /\ orphan' = NoOrphan /\ UNCHANGED <<session, wb, doing>>

(* The steps of a call that is under way. *)
WBProgress == ((WBReadSession \/ WBReadSelf \/ WBFails) /\ UNCHANGED session) \/ WBCarried

(* A page of the workbench: its reader reloads, leaves, changes organization *)
(* or logs out; the session changes elsewhere.                              *)
WBNext ==
  \/ WBProgress \/ OrphanCarried \/ OrphanLost
  \/ (WBReload \/ WBSuspend \/ WBSwitch \/ WBLogout) /\ UNCHANGED session
  \/ (Elsewhere \/ MemberChanges) /\ UNCHANGED wbVars
=============================================================================
