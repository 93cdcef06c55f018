-------------------------- MODULE RuntimeInspection --------------------------
(***************************************************************************)
(* scripts/runtime-inspect.mjs: a command that reads a plan, the producers' *)
(* event streams and the input artifacts from one directory, checks them,   *)
(* and reports. Other programs rewrite and replace the files meanwhile, a   *)
(* signal or the deadline may stop it, and any call to the system may fail. *)
(***************************************************************************)
EXTENDS Naturals, SequencesExt

CONSTANTS Evidence,    \* the files of the producers and inputs, in the plan's order
          MaxChanges   \* bound on what other programs do to the directory

Plan == "plan.json"
Files == {Plan} \cup ToSet(Evidence)

\* the plan is none of the files it names
ASSUME EvidenceAssumption == Evidence \in Seq(ToSet(Evidence)) /\ Plan \notin ToSet(Evidence)

VARIABLES disk,    \* file -> [gen: which file bears the name, ver: its times and size]
          root,    \* which directory bears the selected path
          changes, \* how often other programs changed them
          at,      \* the next step of the inspection
          record,  \* file -> the lstat it was acquired by; "none" before
          handle,  \* file -> gen of the file that was opened; 0 while none is open
          read,    \* file -> what its bytes were, chunk by chunk, when they were read
          signal,  \* "none", "cancelled", "timed_out"
          report,  \* the report, once it is given
          begun,   \* the directory when the bundle began
          done     \* the directory when the last byte had been read

inspectionVars == <<disk, root, changes, at, record, handle, read, signal, report, begun, done>>

NoStat == [gen |-> 0, ver |-> 0]

InspectionInit ==
  /\ disk = [f \in Files |-> [gen |-> 1, ver |-> 1]] /\ root = 1 /\ changes = 0 /\ at = 1
  /\ record = [f \in Files |-> NoStat] /\ handle = [f \in Files |-> 0] /\ read = [f \in Files |-> {}]
  /\ signal = "none" /\ report = "none" /\ begun = <<>> /\ done = <<>>

(***************************************************************************)
(* The inspection, one step per await.                                     *)
(***************************************************************************)
Do(steps, f) == [i \in DOMAIN steps |-> [do |-> steps[i], file |-> f]]
Verify(f) == Do(<<"stat_handle", "stat_name">>, f)
CheckRoot == Do(<<"stat_root">>, Plan)
Acquire(f) == CheckRoot \o Do(<<"lstat", "open">>, f) \o Verify(f) \o CheckRoot
Stream(f) == Do(<<"read", "read">>, f) \o Verify(f)
\* the n steps of each file, one file after another
All(Part(_), n, files) == [i \in 1..(n * Len(files)) |-> Part(files[1 + ((i - 1) \div n)])[1 + ((i - 1) % n)]]

\* mutant: nothing is looked at again after the last file was read
VerifyNothing == CheckRoot

VerifyAgain == All(Verify, 2, <<Plan>> \o Evidence) \o CheckRoot

Inspection ==
  Acquire(Plan) \o Stream(Plan) \o All(Acquire, 6, Evidence) \o Do(<<"begin">>, Plan)
    \o All(Stream, 4, Evidence) \o Do(<<"all_read">>, Plan) \o VerifyAgain

Running == report = "none" /\ at \in 1..Len(Inspection)
Now == Inspection[at]
Named(f) == disk[f]
(* An opened file that lost its name has one link less: never the same. *)
Held(f) == IF handle[f] = disk[f].gen THEN disk[f] ELSE NoStat

Passes ==
  CASE Now.do = "stat_root" -> root = 1
    [] Now.do = "stat_handle" -> Held(Now.file) = record[Now.file]
    [] Now.do = "stat_name" -> Named(Now.file) = record[Now.file]
    [] OTHER -> TRUE

Step ==
  /\ Running /\ Passes /\ at' = at + 1
  /\ record' = IF Now.do = "lstat" THEN [record EXCEPT ![Now.file] = Named(Now.file)] ELSE record
  /\ handle' = IF Now.do = "open" THEN [handle EXCEPT ![Now.file] = Named(Now.file).gen] ELSE handle
  /\ read' = IF Now.do = "read" THEN [read EXCEPT ![Now.file] = @ \cup {Held(Now.file)}] ELSE read
  /\ begun' = IF Now.do = "begin" THEN disk ELSE begun
  /\ done' = IF Now.do = "all_read" THEN disk ELSE done
  /\ UNCHANGED <<disk, root, changes, signal, report>>

(* The finally block: every handle is closed, then the report is settled.   *)
Executed == begun # <<>>
Verdict(passed) ==
  IF signal # "none" THEN signal
  ELSE IF passed THEN "passed"
  ELSE IF Executed THEN "rejected" ELSE "invalid_input"

GiveReport(passed) ==
  /\ report' = Verdict(passed) /\ handle' = [f \in Files |-> 0]
  /\ UNCHANGED <<disk, root, changes, at, record, read, signal, begun, done>>

Finish == report = "none" /\ at > Len(Inspection) /\ GiveReport(TRUE)

(* A check that fails, contents that are rejected, a missing file, an error *)
(* of the system, or a signal that is seen: all end here.                  *)
Fail == Running /\ GiveReport(FALSE)

CleanupFails ==
  /\ report = "none" /\ \E f \in Files : handle[f] # 0
  /\ report' = "unavailable" /\ UNCHANGED <<disk, root, changes, at, record, handle, read, signal, begun, done>>

Stop(how) == report = "none" /\ signal = "none" /\ signal' = how
             /\ UNCHANGED <<disk, root, changes, at, record, handle, read, report, begun, done>>

Interrupt == Stop("cancelled")
Deadline == Stop("timed_out")

(***************************************************************************)
(* Other programs.                                                         *)
(***************************************************************************)
Other == report = "none" /\ changes < MaxChanges /\ changes' = changes + 1
         /\ UNCHANGED <<at, record, handle, read, signal, report, begun, done>>

(* Written, renamed away and back, or linked: the times tell.              *)
Rewrite == Other /\ UNCHANGED root /\ \E f \in Files : disk' = [disk EXCEPT ![f].ver = @ + 1]
Replace == Other /\ UNCHANGED root /\ \E f \in Files : disk' = [disk EXCEPT ![f] = [gen |-> @.gen + 1, ver |-> 1]]
ReplaceDirectory == Other /\ root' = root + 1 /\ disk' = [f \in Files |-> [gen |-> disk[f].gen + 1, ver |-> 1]]

InspectionNext ==
  \/ Step \/ Finish \/ Fail \/ CleanupFails \/ Interrupt \/ Deadline
  \/ Rewrite \/ Replace \/ ReplaceDirectory

(***************************************************************************)
(* Properties.                                                             *)
(***************************************************************************)
(* "passed" speaks of one directory: every byte that was checked was there  *)
(* under its name when the bundle began and still when the last byte had    *)
(* been read, so the files belonged together; no signal or deadline was     *)
(* overlooked, and no handle is left open.                                 *)
PassedIsASnapshot ==
  report = "passed" =>
    /\ signal = "none" /\ \A f \in Files : handle[f] = 0
    /\ \A f \in Files : read[f] = {begun[f]} /\ begun[f] = done[f]
=============================================================================
