---------------------------- MODULE OneShotGrant ----------------------------
(***************************************************************************)
(* What an approval promises, without saying how: a grant is opened for    *)
(* one version of one target, may be granted once, and is spent at most    *)
(* once - only after it was granted, and only while its target is still at *)
(* the version it was opened for.  Spending it moves the target to its     *)
(* next version.  A voided grant stays void.  Targets may also be moved    *)
(* directly, by someone who needs no grant.                                *)
(***************************************************************************)
EXTENDS Naturals

CONSTANTS Grant, Target, Null

VARIABLES
  phase,    \* [Grant -> Phase]
  opened,   \* the target and version a grant is for, Null before Open
  current   \* [Target -> Nat], the current version of each target

vars == <<phase, opened, current>>

Phase == {"none", "open", "granted", "spent", "void"}

Init ==
  /\ phase = [g \in Grant |-> "none"]
  /\ opened = [g \in Grant |-> Null]
  /\ current = [x \in Target |-> 1]

(* A grant is asked for, or asked for and granted in the same step. *)
Open(g) ==
  \E x \in Target, p \in {"open", "granted"} :
    /\ phase[g] = "none"
    /\ phase' = [phase EXCEPT ![g] = p]
    /\ opened' = [opened EXCEPT ![g] = [target |-> x, version |-> current[x]]]
    /\ UNCHANGED current

Allow(g) ==
  /\ phase[g] = "open"
  /\ opened[g].version = current[opened[g].target]
  /\ phase' = [phase EXCEPT ![g] = "granted"]
  /\ UNCHANGED <<opened, current>>

Spend(g) ==
  /\ phase[g] = "granted"
  /\ opened[g].version = current[opened[g].target]
  /\ phase' = [phase EXCEPT ![g] = "spent"]
  /\ current' = [current EXCEPT ![opened[g].target] = @ + 1]
  /\ UNCHANGED opened

(* One event voids any set of grants that are not settled yet. *)
Void(S) ==
  /\ \A g \in S : phase[g] \in {"open", "granted"}
  /\ phase' = [g \in Grant |-> IF g \in S THEN "void" ELSE phase[g]]
  /\ UNCHANGED <<opened, current>>

MoveDirectly(x) ==
  /\ current' = [current EXCEPT ![x] = @ + 1]
  /\ UNCHANGED <<phase, opened>>

Next ==
  \/ \E g \in Grant : Open(g) \/ Allow(g) \/ Spend(g)
  \/ \E S \in SUBSET Grant : Void(S)
  \/ \E x \in Target : MoveDirectly(x)

Spec == Init /\ [][Next]_vars
=============================================================================
