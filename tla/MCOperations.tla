---------------------------- MODULE MCOperations ----------------------------
(***************************************************************************)
(* What people operate the system with: the organization console, the      *)
(* commands of the local stack, the workflow experiment. One of them goes   *)
(* on, the others stay as they are.                                        *)
(***************************************************************************)
EXTENDS OrganizationPage, DurableWorkflow, LocalStack, TLC

VARIABLE part

(* No organization is treated differently from another, and no command.    *)
Alike == Permutations(Orgs) \cup Permutations(Commands)

Init ==
  /\ PageInit /\ DurableInit /\ StackInit
  /\ part \in {"page", "workflow", "stack"} /\ (part # "page" => cookie = LoggedOut)

Next ==
  /\ UNCHANGED part
  /\ \/ part = "page" /\ PageNext /\ UNCHANGED <<durableVars, stackVars>>
     \/ part = "workflow" /\ DurableNext /\ UNCHANGED <<pageVars, stackVars>>
     \/ part = "stack" /\ StackNext /\ UNCHANGED <<pageVars, durableVars>>

Spec == Init /\ [][Next]_<<pageVars, durableVars, stackVars, part>>
=============================================================================
