--------------------------- MODULE MCDelegations ---------------------------
(* One owner, whose agents share out a few calls on one resource.          *)
EXTENDS Delegations, TLC

CONSTANTS Shares, Ends, Scopes   \* what the terms on offer vary in

MCEnvironment == [x \in Resource |-> "development"]
MCInitialRole == [h \in Human |-> "member"]

(* A share is a number of calls and how many delegations deep it may go.   *)
MCOffer ==
  {[scope |-> [x \in Resource |-> s], from |-> 0, until |-> u,
    calls |-> k[1], depth |-> k[2]] : s \in Scopes, u \in Ends, k \in Shares}

MCSiblingShares == {<<1, 1>>, <<2, 1>>, <<3, 2>>}
MCChainShares == {<<1, 1>>, <<1, 2>>, <<1, 3>>}

(* Three agents deep while no rule turns and nothing is renamed; two       *)
(* agents once they are.                                                   *)
Region ==
  \/ /\ \A h \in Human : denied[h] = {}
     /\ \A x \in Resource : resource[x].version = 1
  \/ \E x \in Agent : agents[x] = Null

Symmetry == Permutations(Agent) \cup Permutations(RequestId)
              \cup Permutations(CallId)
=============================================================================
