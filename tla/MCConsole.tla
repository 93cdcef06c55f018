------------------------------ MODULE MCConsole ------------------------------
(***************************************************************************)
(* One page of the console is open: a rename request or an approval, the    *)
(* inbox, or the workbench. The other pages stay as they are.               *)
(***************************************************************************)
EXTENDS CatalogApproval, ApprovalInbox

VARIABLE page

mcVars == <<caVars, ibVars, page>>

NoApprovalPage ==
  /\ rows = [i \in Ids |-> Absent] /\ catalog = 1 /\ net = {} /\ mode = "request" /\ known = 0
  /\ pending = NoRequest /\ uncertain = FALSE /\ view = Blank("suspended") /\ readers = {}
  /\ writer = NoTask /\ unknown = {} /\ floor = 0
NoInbox == made = <<>> /\ inbox = IBBlank("suspended") /\ asking = NotAsking /\ seen = {} /\ steady = {}
NoWorkbench == wb = WBBlank("suspended") /\ doing = Idle /\ orphan = NoOrphan

Init ==
  \/ page = "approval" /\ CAInit /\ NoInbox /\ NoWorkbench
  \/ page = "inbox" /\ IBInit /\ NoApprovalPage
  \/ page = "workbench" /\ SessionInit /\ WBInit /\ NoInbox /\ NoApprovalPage

Next ==
  /\ UNCHANGED page
  /\ \/ page = "approval" /\ CANext /\ UNCHANGED <<wbVars, made, inboxVars>>
     \/ page = "inbox" /\ InboxNext /\ UNCHANGED <<server, controller>>
     \/ page = "workbench" /\ WBNext /\ UNCHANGED <<server, controller, made, inboxVars>>

Spec == Init /\ [][Next]_mcVars /\ WF_mcVars(page = "approval" /\ CARead /\ UNCHANGED <<page, wbVars, made, inboxVars>>)
             /\ WF_mcVars(page = "approval" /\ CAWrite /\ UNCHANGED <<page, wbVars, made, inboxVars>>)

(* Every kind of change happens, never all of them in one behaviour. *)
Region ==
  /\ session.n + session.member + catalog <= 4
  /\ Cardinality({t \in readers : ~t.live}) + (IF Busy /\ ~writer.live THEN 1 ELSE 0) <= 1
  /\ rows[2] # Absent => rows[1].version + rows[2].version <= 2
  /\ page = "approval" /\ ~session.owner => rows[1].state # "none" /\ ~rows[1].own
=============================================================================
