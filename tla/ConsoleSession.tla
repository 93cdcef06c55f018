--------------------------- MODULE ConsoleSession ---------------------------
(***************************************************************************)
(* The browser session the console's pages run in, as the server holds it. *)
(* A page never keeps it: it reads it again whenever it loads, sends the    *)
(* context number it read along with every call, and the server refuses a   *)
(* call that names another. n stands for the session, the human and the     *)
(* context version together (what sameSession compares): every log-in and   *)
(* every change of organization gives a new one. Other tabs and other       *)
(* people change it at any time.                                            *)
(***************************************************************************)
EXTENDS Naturals

CONSTANTS MaxContext,   \* bound on context numbers
          MaxMember     \* bound on changes of the membership

VARIABLE session   \* [n, open, here: the page's organization is the active one,
                   \*  owner: this person owns it, member: the membership's version]

Sessions == [n : 1..MaxContext, open : BOOLEAN, here : BOOLEAN, owner : BOOLEAN, member : 1..MaxMember]

SessionInit ==
  \E here, owner \in BOOLEAN : session = [n |-> 1, open |-> TRUE, here |-> here, owner |-> owner, member |-> 1]

(* What the server checks of a call made in context n. *)
Current(n) == session.open /\ session.here /\ session.n = n

NewContext(here, open) ==
  /\ session.n < MaxContext
  /\ session' = [session EXCEPT !.n = @ + 1, !.here = here, !.open = open]

(* Another tab selects an organization, signs out, or signs in. *)
Elsewhere ==
  \/ session.open /\ \E here \in BOOLEAN : NewContext(here, TRUE)
  \/ session.open /\ session' = [session EXCEPT !.open = FALSE]
  \/ ~session.open /\ \E here \in BOOLEAN : NewContext(here, TRUE)

(* An owner changes this person's membership. *)
MemberChanges ==
  /\ session.member < MaxMember
  /\ \E owner \in BOOLEAN : session' = [session EXCEPT !.member = @ + 1, !.owner = owner]
=============================================================================
