------------------------------ MODULE MCRuntime ------------------------------
(***************************************************************************)
(* One of three things goes on: an observer or a stream reader learns of a  *)
(* run, a handoff or a bundle gathers inputs, or the inspection command     *)
(* runs. The other two stay as they are.                                   *)
(***************************************************************************)
EXTENDS RuntimeStream, RuntimeInputs, RuntimeInspection

VARIABLE part

MadeBy == [i \in Inputs |-> IF i = "i3" THEN "p2" ELSE "p1"]
SmallPlan == <<"producer-1.ndjson", "input-1.bin">>

Init ==
  /\ StreamInit /\ InputsInit /\ InspectionInit
  /\ \/ part = "stream" /\ owner = "handoff" /\ chosen = "i1"
     \/ part = "inputs" /\ feeder = "caller"
     \/ part = "inspection" /\ feeder = "caller" /\ owner = "handoff" /\ chosen = "i1"

Next ==
  /\ UNCHANGED part
  /\ \/ part = "stream" /\ StreamNext /\ UNCHANGED <<inputVars, inspectionVars>>
     \/ part = "inputs" /\ InputsNext /\ UNCHANGED <<streamVars, inspectionVars>>
     \/ part = "inspection" /\ InspectionNext /\ UNCHANGED <<streamVars, inputVars>>

Spec == Init /\ [][Next]_<<streamVars, inputVars, inspectionVars, part>>
=============================================================================
