------------------------------ MODULE CallMeter ------------------------------
(***************************************************************************)
(* What a delegation promises its owner, and every delegation above it: a  *)
(* meter that is opened with a number of calls, counts the calls made      *)
(* under it, by whomever, never beyond that number, and once closed never  *)
(* counts again.  One call may be counted by several meters at once, and   *)
(* one event may close several.                                            *)
(***************************************************************************)
EXTENDS Naturals

CONSTANT Meter

VARIABLES
  limit,   \* [Meter -> Nat], 0 before it is opened
  spent,   \* [Meter -> Nat]
  closed   \* [Meter -> BOOLEAN]

vars == <<limit, spent, closed>>

Init ==
  /\ limit = [m \in Meter |-> 0]
  /\ spent = [m \in Meter |-> 0]
  /\ closed = [m \in Meter |-> FALSE]

Open(m, n) ==
  /\ limit[m] = 0
  /\ limit' = [limit EXCEPT ![m] = n]
  /\ UNCHANGED <<spent, closed>>

Count(M) ==
  /\ \A m \in M : ~closed[m] /\ spent[m] < limit[m]
  /\ spent' = [m \in Meter |-> IF m \in M THEN spent[m] + 1 ELSE spent[m]]
  /\ UNCHANGED <<limit, closed>>

Close(M) ==
  /\ closed' = [m \in Meter |-> closed[m] \/ m \in M]
  /\ UNCHANGED <<limit, spent>>

(* The meter that counts a call, those above it, and those that close, are *)
(* read off the step.                                                      *)
Next ==
  \/ \E m \in Meter : limit'[m] \in Nat \ {0} /\ Open(m, limit'[m])
  \/ Count({m \in Meter : spent'[m] # spent[m]})
  \/ Close({m \in Meter : closed'[m]})

Spec == Init /\ [][Next]_vars
=============================================================================
