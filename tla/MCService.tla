------------------------------ MODULE MCService ------------------------------
(***************************************************************************)
(* The parts of the service that keep state of their own between steps:     *)
(* transactions of the data plane, the policy socket, or a member's access  *)
(* to one resource. The others stay as they are.                           *)
(***************************************************************************)
EXTENDS TenantScope, PolicySocket, PolicyRules

VARIABLE part

OrgOfCall == [t \in Calls |-> IF t = "t1" THEN "o1" ELSE "o2"]
OneOrTwo == [t \in Calls |-> IF t = "t1" THEN 2 ELSE 1]

(* At most one socket of the second session.                               *)
OneOther == Cardinality({s \in Sockets : sock[s].digest = "d2"}) <= 1

(* Somebody with every right, somebody with few, and a guest; a hidden      *)
(* release in development and a workspace in staging.                      *)
MCMembers == {[role |-> "owner", guest |-> FALSE], [role |-> "viewer", guest |-> FALSE], [role |-> "viewer", guest |-> TRUE]}
Staged ==
  [kind |-> "workspace", visibility |-> "organization", environment |-> "staging", sensitivity |-> "internal", owned |-> FALSE]
MCThings ==
  {Staged, [kind |-> "release", visibility |-> "restricted", environment |-> "development", sensitivity |-> "confidential",
            owned |-> FALSE]}
MCTerms ==
  {[kind |-> "binding", what |-> "editor"], [kind |-> "allow", what |-> "resource.update"],
   [kind |-> "deny", what |-> "resource.update"], [kind |-> "allow", what |-> "resource.read"]}
MCPeriods ==
  {[from |-> 0, to |-> Never], [from |-> 0, to |-> 1], [from |-> 1, to |-> 2], [from |-> 2, to |-> Never]}

Init ==
  /\ TenantInit /\ SocketInit /\ PolicyInit /\ part \in {"tenant", "socket", "policy"}
  /\ part # "tenant" => auth = [t \in Calls |-> "reader"]
  /\ part # "socket" => good = {}
  /\ part # "policy" => actor.role = "owner" /\ thing = Staged /\ ends = 1

Next ==
  /\ UNCHANGED part
  /\ \/ part = "tenant" /\ TenantNext /\ UNCHANGED <<socketVars, policyVars>>
     \/ part = "socket" /\ SocketNext /\ UNCHANGED <<tenantVars, policyVars>>
     \/ part = "policy" /\ PolicyNext /\ UNCHANGED <<tenantVars, socketVars>>

Spec == Init /\ [][Next]_<<tenantVars, socketVars, policyVars, part>>
=============================================================================
