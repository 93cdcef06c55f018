-------------------------- MODULE OrganizationPage --------------------------
(***************************************************************************)
(* The organization console of the workbench: one page that shows whoever   *)
(* is logged in the settings, members, invitations, connections, audit and  *)
(* emergency state of the organization that is active. The browser's other  *)
(* tabs share its cookie. A piece of work is the list of the answers it     *)
(* still awaits; each may come late, be a refusal, or never come.          *)
(***************************************************************************)
EXTENDS Naturals, Sequences

CONSTANTS Orgs,
          MaxToken,      \* logins and rotations
          MaxOrgVersion  \* context_version of a session, at most

VARIABLES cookie, \* the browser's session: [token, version, org], or LoggedOut
          auth,   \* the session the page goes by
          cap,    \* "loading", "disabled", "ready", "error"
          view,   \* what is shown: for each item, where it comes from
          work,   \* the first load ("boot") and what the user started ("user")
          tokens  \* sessions made so far

pageVars == <<cookie, auth, cap, view, work, tokens>>

Nothing == "nothing"
LoggedOut == [token |-> 0, version |-> 0, org |-> Nothing]
NoMember == <<Nothing, 0>>
NoEvents == <<Nothing, Nothing>>
Kinds == {"all", "membership"}
Blank == [me |-> Nothing, lists |-> Nothing, results |-> Nothing, audit |-> NoEvents, kind |-> "all", invite |-> Nothing,
          ticket |-> Nothing, target |-> NoMember, state |-> NoMember, result |-> NoMember, pending |-> NoMember]
Idle == [todo |-> <<>>, as |-> LoggedOut, to |-> Nothing, stale |-> FALSE]
Session(token) == {[token |-> token, version |-> v, org |-> o] : v \in 1..MaxOrgVersion, o \in Orgs \cup {Nothing}}

PageInit ==
  /\ cookie \in Session(1) \cup {LoggedOut} /\ tokens = 1
  /\ auth = LoggedOut /\ cap = "loading" /\ view = Blank
  /\ work = [boot |-> [Idle EXCEPT !.todo = <<"capabilities">>],
            user |-> Idle]

\* mutant: what there was of an emergency stays
ClearKeepsEmergency == [Blank EXCEPT !.target = view.target, !.state = view.state, !.pending = view.pending]

Cleared == Blank

(***************************************************************************)
(* The service. A read is answered for the session the cookie names, if     *)
(* organization and context version are those the page gave; a write needs  *)
(* the page to know that session's secret too.                             *)
(***************************************************************************)
Reads(s) == cookie # LoggedOut /\ cookie.version = s.version /\ cookie.org = s.org
Writes(s) == Reads(s) /\ cookie.token = s.token

OtherTab ==
  /\ UNCHANGED <<auth, cap, view, work>>
  /\ \/ cookie' = LoggedOut /\ UNCHANGED tokens
     \/ cookie.token > 0 /\ cookie.version < MaxOrgVersion /\ UNCHANGED tokens
        /\ \E o \in Orgs : cookie' = [cookie EXCEPT !.version = @ + 1, !.org = o]
     \/ tokens < MaxToken /\ tokens' = tokens + 1
        /\ cookie' \in Session(tokens')

(***************************************************************************)
(* run(): one piece of work at a time; what was loading before is aborted,  *)
(* and if that comes too late its generation is over.                      *)
(***************************************************************************)
Busy == work.user.todo # <<>>
RunTo(todo, org) == ~Busy /\ work' = [boot |-> IF work.boot = Idle THEN Idle ELSE [work.boot EXCEPT !.stale = TRUE],
                                      user |-> [todo |-> todo, as |-> auth, to |-> org, stale |-> FALSE]]
Run(todo) == RunTo(todo, Nothing)
Refreshing == <<"session">>
Loading == <<"self">>

(* What may be clicked: nothing that starts work while work is under way.   *)
Starts(todo) == Run(todo) /\ UNCHANGED view
Owner == view.lists # Nothing

LogsIn == auth = LoggedOut /\ Starts(<<"login">>)
LogsOut == auth # LoggedOut /\ Starts(<<"logout">>)
Refreshes == auth # LoggedOut /\ Starts(Refreshing)
Accepts == auth # LoggedOut /\ Starts(<<"accept">> \o Refreshing)
Switches == auth # LoggedOut /\ (\E o \in Orgs : RunTo(<<"switch">>, o)) /\ view' = Cleared
Saves == Owner /\ Starts(<<"write">> \o Refreshing)
Connects == Owner /\ Starts(<<"connect">> \o Loading)
Withdraws == Owner /\ Starts(<<"withdraw">> \o Loading)
Searches == view.me # Nothing /\ Starts(<<"search">>)
Invites == Owner /\ Run(<<"invite">> \o Loading) /\ view' = [view EXCEPT !.invite = IF @ = Nothing THEN auth.org ELSE @]
Audits == Owner /\ Run(<<"audit">>) /\ view' = [view EXCEPT !.audit = NoEvents]
Inspects ==
  /\ Owner /\ view.target # NoMember /\ Run(<<"inspect">>)
  /\ view' = [view EXCEPT !.state = NoMember, !.result = NoMember]
Holds ==
  /\ view.state # NoMember \/ view.pending # NoMember
  /\ Run(<<"hold">>)
  /\ view' = [view EXCEPT !.state = NoMember, !.result = NoMember, !.audit = NoEvents,
                          !.pending = IF view.state # NoMember THEN view.target ELSE @]

Click ==
  /\ cap = "ready" /\ UNCHANGED <<cookie, auth, cap, tokens>>
  /\ \/ LogsIn \/ LogsOut \/ Refreshes \/ Accepts \/ Switches \/ Saves \/ Connects \/ Withdraws
     \/ Searches \/ Invites \/ Audits \/ Inspects \/ Holds

(* Lists are disabled while work is under way; the fields of an invitation, *)
(* which start it anew, are not.                                           *)
ChooseMember ==
  /\ ~Busy /\ \E n \in 1..2 : view' = [view EXCEPT !.target = <<view.lists, n>>, !.state = NoMember, !.result = NoMember, !.pending = NoMember]
ChooseKind == ~Busy /\ \E k \in Kinds : view' = [view EXCEPT !.kind = k, !.audit = NoEvents]
Edit == view' \in {[view EXCEPT !.invite = Nothing], [view EXCEPT !.ticket = Nothing]}
Choose == Owner /\ (ChooseMember \/ ChooseKind \/ Edit) /\ UNCHANGED <<cookie, auth, cap, work, tokens>>

(***************************************************************************)
(* An answer, to work that is not stale.                                   *)
(***************************************************************************)
Head1(c) == Head(work[c].todo)
Awaits(c, what) == work[c].todo # <<>> /\ ~work[c].stale /\ Head1(c) = what
Next1(c) == work' = [work EXCEPT ![c] = IF Len(@.todo) = 1 THEN Idle ELSE [work[c] EXCEPT !.todo = Tail(work[c].todo)]]
Then(c, todo, s) == work' = [work EXCEPT ![c] = IF todo = <<>> THEN Idle ELSE [Idle EXCEPT !.todo = todo, !.as = s]]
Show(v) == view' = v /\ UNCHANGED <<auth, cap>>
Enter(c, s) == auth' = s /\ Then(c, IF s.org = Nothing THEN <<>> ELSE Loading, s) /\ UNCHANGED cap

Booted ==
  /\ Awaits("boot", "capabilities") /\ UNCHANGED <<cookie, auth, view, tokens>>
  /\ \/ cap' = "ready" /\ Then("boot", Refreshing, auth)
     \/ cap' = "disabled" /\ Next1("boot")

SessionRead(c) ==
  /\ Awaits(c, "session") /\ cookie # LoggedOut /\ UNCHANGED <<cookie, tokens>>
  /\ view' = Cleared /\ Enter(c, cookie)

(* Who is no owner is told only who they are.                              *)
SelfRead(c) ==
  LET org == work[c].as.org IN
  /\ Awaits(c, "self") /\ Reads(work[c].as) /\ UNCHANGED <<cookie, tokens>>
  /\ \/ Show([view EXCEPT !.me = org]) /\ Next1(c)
     \/ Then(c, <<"lists">>, work[c].as) /\ UNCHANGED <<auth, cap, view>>

ListsRead(c) ==
  LET org == work[c].as.org IN
  /\ Awaits(c, "lists") /\ Reads(work[c].as) /\ UNCHANGED <<cookie, tokens>>
  /\ Show([view EXCEPT !.me = org, !.lists = org]) /\ Next1(c)

Read(what, v) == Awaits("user", what) /\ Reads(work.user.as) /\ UNCHANGED <<cookie, tokens>> /\ Show(v) /\ Next1("user")

Searched == Read("search", [view EXCEPT !.results = work.user.as.org])
Audited == Read("audit", [view EXCEPT !.audit = <<work.user.as.org, view.kind>>])
Inspected == Read("inspect", [view EXCEPT !.state = view.target])

Login ==
  /\ Awaits("user", "login") /\ tokens < MaxToken /\ tokens' = tokens + 1
  /\ cookie' \in Session(tokens') /\ view' = Cleared /\ Enter("user", cookie')

Switched ==
  /\ Awaits("user", "switch") /\ cookie.token = work.user.as.token /\ cookie.version = work.user.as.version
  /\ cookie.version < MaxOrgVersion /\ UNCHANGED <<tokens, view>>
  /\ cookie' = [cookie EXCEPT !.version = @ + 1, !.org = work.user.to] /\ Enter("user", cookie')

LoggedOff ==
  /\ Awaits("user", "logout") /\ cookie.token = work.user.as.token /\ UNCHANGED <<cap, tokens>>
  /\ cookie' = LoggedOut /\ auth' = LoggedOut /\ view' = Cleared /\ Next1("user")

Accepted ==
  /\ Awaits("user", "accept") /\ cookie.token = work.user.as.token /\ tokens < MaxToken /\ tokens' = tokens + 1
  /\ cookie' \in Session(tokens') /\ UNCHANGED <<auth, cap, view>> /\ Next1("user")

Write(what, v) == Awaits("user", what) /\ Writes(work.user.as) /\ UNCHANGED <<cookie, tokens>> /\ Show(v) /\ Next1("user")

SettingsSaved == Write("write", view)
Connected == Write("connect", view)
Withdrawn == Write("withdraw", [view EXCEPT !.ticket = Nothing])
Invited == \E ticket \in {work.user.as.org, Nothing} : Write("invite", [view EXCEPT !.ticket = ticket, !.invite = Nothing])
Held == Write("hold", [view EXCEPT !.pending = NoMember, !.state = view.pending, !.result = view.pending])
Written == SettingsSaved \/ Connected \/ Withdrawn \/ Invited \/ Held

(***************************************************************************)
(* No answer that can be used. A refusal that says the page's session or    *)
(* versions are out of date clears it; other failures leave it.            *)
(***************************************************************************)
Fails ==
  /\ Busy /\ UNCHANGED <<cap, tokens>> /\ work' = [work EXCEPT !.user = Idle]
  /\ \/ UNCHANGED <<cookie, auth, view>>
     \/ view' = Cleared /\ auth' \in {auth, LoggedOut} /\ UNCHANGED cookie

(* A write whose answer is lost may have been done.                         *)
LostAfterwards ==
  /\ Busy /\ UNCHANGED <<auth, cap, view>> /\ work' = [work EXCEPT !.user = Idle]
  /\ \/ /\ Head1("user") = "switch" /\ cookie.version \in 1..(MaxOrgVersion - 1) /\ UNCHANGED tokens
        /\ cookie' = [cookie EXCEPT !.version = @ + 1, !.org = work.user.to]
     \/ Head1("user") = "logout" /\ cookie' = LoggedOut /\ UNCHANGED tokens
     \/ Head1("user") \in {"login", "accept"} /\ tokens < MaxToken /\ tokens' = tokens + 1 /\ cookie' \in Session(tokens')

BootFails ==
  /\ work.boot.todo # <<>> /\ work' = [work EXCEPT !.boot = Idle]
  /\ UNCHANGED <<cookie, auth, view, tokens>>
  /\ cap' = cap \/ (cap' = "error" /\ ~work.boot.stale)

PageNext ==
  \/ OtherTab \/ Click \/ Choose \/ Booted \/ Searched \/ Audited \/ Inspected \/ Login \/ Switched \/ LoggedOff \/ Accepted \/ Written
  \/ \E c \in {"boot", "user"} : SessionRead(c) \/ SelfRead(c) \/ ListsRead(c)
  \/ Fails \/ LostAfterwards \/ BootFails

(* Whatever becomes of the session in another tab, and in whatever order    *)
(* answers, failures and a switch of organization come, all that is shown   *)
(* at a time, and all that would be retried, is of the one organization the *)
(* page names; the emergency state and its unconfirmed command are the      *)
(* selected member's, the audit events of the selected kind                 *)
(* (apps/workbench/src/organization.tsx:178).                               *)
OneOrganizationShown ==
  /\ \A i \in {"me", "lists", "results", "invite", "ticket"} : view[i] \in {Nothing, auth.org}
  /\ view.audit # NoEvents => view.audit = <<auth.org, view.kind>>
  /\ view.target # NoMember => view.target[1] = auth.org
  /\ \A i \in {"state", "result", "pending"} : view[i] \in {NoMember, view.target}
=============================================================================
