---------------------------- MODULE ApprovalInbox ----------------------------
(***************************************************************************)
(* The approval inbox: an ApprovalInboxController, which reloads the        *)
(* context of its page through a WorkbenchController of its own before each *)
(* page of the list it fetches, and the listing behind it,                  *)
(* PostgresApprovalRepository.list. A listing is paged from newest to       *)
(* oldest; the cursor keeps the place of the newest approval the first page *)
(* could see and of the last one shown, bound to whom it was given and to   *)
(* his authority at that moment. Between two pages approvals are created,   *)
(* change state or visibility, and the reader's authority changes.          *)
(***************************************************************************)
EXTENDS Workbench, Sequences, FiniteSetsExt

CONSTANTS Limit,     \* approvals on a page
          MaxMade    \* bound on approvals

ASSUME ListingAssumption == Limit \in Nat \ {0} /\ MaxMade \in Nat

Lanes == {"mine", "review"}

VARIABLES made,     \* server: approvals by the place of their first event: [lane, shown: visible and in the filter]
          inbox,    \* #state: [status, lane, items, cursor, n, member, stamp]
          asking,   \* load() under way: [phase, lane, prev: the page it follows]
          seen,     \* what the pages of this listing have shown
          steady    \* what has been listable ever since the first of them

inboxVars == <<inbox, asking, seen, steady>>
ibVars == <<session, wbVars, made, inboxVars>>

NoCursor == [head |-> 0, before |-> 0, binding |-> <<>>]
IBBlank(status) == [status |-> status, lane |-> "mine", items |-> {}, cursor |-> NoCursor, n |-> 0, member |-> 0, stamp |-> <<>>]
NotAsking == [phase |-> "none", lane |-> "mine", prev |-> IBBlank("loading")]
Follows(a) == a.prev.cursor # NoCursor

IBInit ==
  /\ SessionInit /\ WBInit
  /\ \E n \in 0..MaxMade : \E lanes \in [1..n -> Lanes] : made = [p \in 1..n |-> [lane |-> lanes[p], shown |-> TRUE]]
  /\ inbox = IBBlank("loading") /\ asking = [NotAsking EXCEPT !.phase = "context"]
  /\ seen = {} /\ steady = {}

(***************************************************************************)
(* The listing.                                                            *)
(***************************************************************************)
Listable(lane, head) == {p \in 1..head : made[p].lane = lane /\ made[p].shown}

(* What a cursor is bound to: session and context, and the stamp of the     *)
(* reader's authority.                                                      *)
BindingOfSession(lane) == <<session.n, lane>> \* mutant
Binding(lane) == <<session.n, session.member, lane>>

TheNewest(k, places) == {p \in places : Cardinality({q \in places : q > p}) < k}

(* Limit + 1 rows are fetched to learn whether there are more; the cursor   *)
(* stays before the last one shown.                                        *)
CursorAtExtraRow(places, head, lane) == \* mutant
  IF Cardinality(places) > Limit THEN [head |-> head, before |-> Min(TheNewest(Limit + 1, places)), binding |-> Binding(lane)] ELSE NoCursor
CursorAfter(places, head, lane) ==
  IF Cardinality(places) > Limit THEN [head |-> head, before |-> Min(TheNewest(Limit, places)), binding |-> Binding(lane)] ELSE NoCursor

List(n, lane, cursor) ==
  LET head == IF cursor = NoCursor THEN Len(made) ELSE cursor.head
      places == {p \in Listable(lane, head) : cursor = NoCursor \/ p < cursor.before}
  IN [ok |-> Current(n) /\ (lane = "review" => session.owner) /\ (cursor # NoCursor => cursor.binding = Binding(lane)),
      items |-> TheNewest(Limit, places), cursor |-> CursorAfter(places, head, lane)]

(***************************************************************************)
(* The controller.                                                         *)
(***************************************************************************)
Forget == seen' = {} /\ steady' = {}

(* load(): clear the page, then reload the context. *)
Load(lane, prev) ==
  /\ inbox' = IBBlank("loading") /\ asking' = [phase |-> "context", lane |-> lane, prev |-> prev]
  /\ WBReload /\ UNCHANGED <<session, made>>
  /\ IF prev.cursor = NoCursor THEN Forget ELSE UNCHANGED <<seen, steady>>

(* The filter offers the others' requests to owners; any other reload goes  *)
(* back to one's own.                                                       *)
LanesOnOffer == {"mine"} \cup (IF inbox.status = "ready" /\ wb.owner THEN Lanes ELSE {})

IBReload(lane) == lane \in LanesOnOffer /\ Load(lane, IBBlank("loading"))
IBNext == inbox.status = "ready" /\ inbox.cursor # NoCursor /\ Load(inbox.lane, inbox)

IBSuspend ==
  /\ inbox.status # "suspended" /\ inbox' = IBBlank("suspended") /\ asking' = NotAsking
  /\ WBSuspend /\ Forget /\ UNCHANGED <<session, made>>

IBSwitch ==
  /\ inbox.status = "choose" /\ WBSwitch
  /\ inbox' = IBBlank("loading") /\ asking' = [NotAsking EXCEPT !.phase = "context"]
  /\ Forget /\ UNCHANGED <<session, made>>

IBContext == WBProgress /\ UNCHANGED <<made, inboxVars>>

(* The context is known: it must be the one the page before was read in. *)
IBContextRead ==
  /\ asking.phase = "context" /\ doing = Idle /\ UNCHANGED <<session, wbVars, made>>
  /\ LET ready == wb.status = "ready"
         same == Follows(asking) => wb.n = asking.prev.n /\ wb.member = asking.prev.member
     IN IF ready /\ same /\ (asking.lane = "review" => wb.owner)
          THEN asking' = [asking EXCEPT !.phase = "list"] /\ UNCHANGED <<inbox, seen, steady>>
          ELSE asking' = NotAsking /\ Forget /\ inbox' = IBBlank(IF ready THEN "error" ELSE wb.status)

IBList ==
  /\ asking.phase = "list" /\ UNCHANGED <<session, wbVars, made>>
  /\ LET page == List(wb.n, asking.lane, asking.prev.cursor) IN
       /\ page.ok
       /\ inbox' = [status |-> "ready", lane |-> asking.lane, items |-> page.items, cursor |-> page.cursor,
                    n |-> wb.n, member |-> wb.member, stamp |-> <<session.n, session.member>>]
       /\ seen' = IF Follows(asking) THEN seen \cup page.items ELSE page.items
       /\ steady' = IF Follows(asking) THEN steady ELSE Listable(asking.lane, Len(made))
  /\ asking' = NotAsking

(* Refused, timed out, a cursor more than fifteen minutes old or of another *)
(* server process, an answer of no use.                                    *)
IBFails ==
  /\ asking.phase = "list" /\ asking' = NotAsking /\ inbox' = IBBlank("error") /\ Forget
  /\ UNCHANGED <<session, wbVars, made>>

(***************************************************************************)
(* Everybody else.                                                         *)
(***************************************************************************)
Create == \E lane \in Lanes :
  /\ Len(made) < MaxMade /\ made' = Append(made, [lane |-> lane, shown |-> TRUE])
  /\ UNCHANGED <<session, wbVars, inboxVars>>

Changes == \E p \in 1..Len(made) :
  /\ made' = [made EXCEPT ![p].shown = ~@] /\ steady' = steady \ {p}
  /\ UNCHANGED <<session, wbVars, inbox, asking, seen>>

IBOthers == (Elsewhere \/ MemberChanges) /\ UNCHANGED <<wbVars, made, inboxVars>>
IBOrphan == (OrphanCarried \/ OrphanLost) /\ UNCHANGED <<made, inboxVars>>

IBProgress == IBContext \/ IBContextRead \/ IBList \/ IBFails

InboxNext ==
  \/ IBProgress \/ (\E lane \in Lanes : IBReload(lane)) \/ IBNext \/ IBSuspend \/ IBSwitch
  \/ Create \/ Changes \/ IBOthers \/ IBOrphan

(***************************************************************************)
(* Properties.                                                             *)
(***************************************************************************)
Shows == inbox' # inbox /\ inbox'.status = "ready"

(* However much is created and changed between two pages, no approval is    *)
(* shown on two pages of one listing, and when the last page has been shown *)
(* none is missing that could be listed all along.                          *)
PagesJoinUp == [][Shows =>
  /\ Follows(asking) => inbox'.items \cap seen = {}
  /\ inbox'.cursor = NoCursor => steady' \subseteq seen']_ibVars

(* The pages of one listing are all read under one authority: a page        *)
(* follows another only while session, organization and membership are what *)
(* they were, even if they change after the controller compared them.       *)
OneAuthorityPerListing == [][Shows /\ Follows(asking) => inbox'.stamp = asking.prev.stamp]_ibVars
=============================================================================
