---------------------------- MODULE MCApprovals -----------------------------
(* Approvals on small instances: ada, a member, asks; bo, an owner, asks   *)
(* and decides.  On a staging resource ada's writes need an approval and   *)
(* bo's do not, so both sources of a decision occur.                       *)
EXTENDS Approvals, TLC

CONSTANTS ada, bo, n1

MCEnvironment == [x \in Resource |-> "staging"]
MCInitialRole == [h \in Human |-> IF h = ada THEN "member" ELSE "owner"]

(* What else goes on in a behaviour: in one, authority changes; in the     *)
(* other nothing does but rules that turn, names and the time.             *)
VARIABLE part

MCInit == Init /\ part \in {"authority", "effects"}

Mutators == part = "authority" /\ AuthorityStep
RestAndTime ==
  /\ part = "effects"
  /\ \/ \E h \in Human, effect \in RuleEffect : RuleBoundary(h, effect)
     \/ \E h \in Human, x \in Resource, n \in Name : Rename(h, x, n)
     \/ Tick
Sign == \E h \in Human : SignIn(h) \/ SignOut(h)

RulesRest == \A h \in Human : denied[h] = {}
OneName ==
  /\ \A x \in Resource : resource[x].version <= 2 /\ resource[x].name = n1
  /\ \A a \in Approval : terms[a] # Null => terms[a].name = n1

(* Competing names matter before time passes and rules turn; after that,   *)
(* and while authority changes, one name and one permit will do.           *)
Region ==
  \/ part = "effects" /\ ((clock = 0 /\ RulesRest) \/ OneName)
  \/ /\ part = "authority" /\ RulesRest /\ OneName
     /\ \A a, b \in Approval : permit[a] # Null /\ permit[b] # Null => a = b

MCNext == (ApprovalStep \/ Mutators \/ RestAndTime \/ Sign) /\ UNCHANGED part /\ Region'

MCSpec == MCInit /\ [][MCNext]_<<vars, part>>

(* Digests are compared with each other and with nothing else. *)
Symmetry == Permutations(Digest)
=============================================================================
