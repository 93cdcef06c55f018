----------------------------- MODULE LocalStack -----------------------------
(***************************************************************************)
(* The local development stack: a command starts or removes containers and  *)
(* networks of a project of a new random name, and keeps one file that says *)
(* which project is its own. A command may be cut off at any step, what it  *)
(* told the daemon may happen later than it looks, and its lock may be lost *)
(* before it ends: another process holds that, and nobody tells the command *)
(* when it dies.                                                           *)
(***************************************************************************)
EXTENDS Naturals

CONSTANTS Commands,    \* processes that run up or down, one after another
          MaxProjects  \* projects started

VARIABLES file,       \* state.json: [project, unknown], or NoFile; its phase only tells status
          credential, \* the credential file is there
          command,    \* what each process is about: [pc, mem, ack]
          holder,     \* who holds the lock: one of the commands, or none
          there,      \* projects that have containers or networks
          coming,     \* projects whose start may still make some
          told,       \* projects given up by --confirm-stopped
          started,    \* projects so far
          beside      \* history: an up began before an earlier command had ended

stackVars == <<file, credential, command, holder, there, coming, told, started, beside>>

NoFile == [project |-> 0, unknown |-> FALSE]
Resting == [pc |-> "none", mem |-> NoFile, ack |-> FALSE]

StackInit ==
  /\ file = NoFile /\ credential = FALSE /\ command = [c \in Commands |-> Resting] /\ holder = {}
  /\ there = {} /\ coming = {} /\ told = {} /\ started = 0 /\ beside = FALSE

At(c, pc) == command[c].pc = pc
Is(c, new) == command' = [command EXCEPT ![c] = new] /\ UNCHANGED holder
Goto(c, pc) == Is(c, [command[c] EXCEPT !.pc = pc])
Docker == UNCHANGED <<there, coming>>
Files == UNCHANGED <<file, credential>>
Others == UNCHANGED <<told, started, beside>>

(* The lock goes with the command: its helper reads to the end of the      *)
(* command's pipe.                                                         *)
Ends(c) == command' = [command EXCEPT ![c] = Resting] /\ holder' = holder \ {c}

(* Killed, or it could not save.                                           *)
Killed(c) == ~At(c, "none") /\ Ends(c) /\ Docker /\ Files /\ Others

(* The helper dies first: of a Ctrl-C, which the command itself catches, or *)
(* by itself. The kernel frees the lock and the command goes on.            *)
Interrupted(c) ==
  /\ c \in holder /\ holder' = holder \ {c}
  /\ UNCHANGED command /\ Docker /\ Files /\ Others

Takes(c, new) ==
  /\ At(c, "none") /\ holder = {} /\ holder' = {c}
  /\ command' = [command EXCEPT ![c] = new]

(***************************************************************************)
(* up()                                                                    *)
(***************************************************************************)
New == [project |-> started', unknown |-> TRUE]

(* With a state there is nothing to start: it runs, or must be cleaned up.  *)
BeginUp(c) ==
  /\ file = NoFile /\ started < MaxProjects /\ started' = started + 1
  /\ Takes(c, [pc |-> "secure", mem |-> New, ack |-> FALSE])
  /\ beside' = (beside \/ \E d \in Commands : ~At(d, "none"))
  /\ Files /\ Docker /\ UNCHANGED told

Secure(c) == At(c, "secure") /\ credential' = TRUE /\ Goto(c, "record") /\ Docker /\ Others /\ UNCHANGED file

Saved(c) == file' = command[c].mem /\ UNCHANGED credential

(* Ownership is recorded before the first remote side effect.              *)
Record(c) == At(c, "record") /\ Saved(c) /\ Goto(c, "launch") /\ Docker /\ Others

(* docker compose up, with the credential; the name may be taken, the       *)
(* credential gone, the command cancelled.                                 *)
Launch(c) ==
  /\ At(c, "launch") /\ Files /\ Others /\ UNCHANGED there
  /\ \/ credential /\ coming' = coming \cup {command[c].mem.project} /\ Goto(c, "compose")
     \/ UNCHANGED coming /\ Goto(c, "catch")

(* It is acknowledged and nothing of it is pending; refused; or nobody      *)
(* knows.                                                                  *)
Composed(c) ==
  LET p == command[c].mem.project IN
  /\ At(c, "compose") /\ Files /\ Others
  /\ \/ /\ there' = there \cup {p} /\ coming' = coming \ {p}
        /\ Is(c, [command[c] EXCEPT !.pc = "confirm", !.mem.unknown = FALSE])
     \/ UNCHANGED there /\ coming' \in {coming, coming \ {p}} /\ Goto(c, "catch")

Confirm(c) ==
  /\ At(c, "confirm") /\ Docker /\ Others
  /\ \/ Saved(c) /\ Goto(c, "status")
     \/ Files /\ Goto(c, "catch")

Status(c) == At(c, "status") /\ (Goto(c, "catch") \/ Ends(c)) /\ Files /\ Docker /\ Others

Catch(c) == At(c, "catch") /\ Saved(c) /\ Goto(c, "reread") /\ Docker /\ Others

(***************************************************************************)
(* down()                                                                  *)
(***************************************************************************)
BeginDown(c) ==
  /\ file # NoFile /\ Files /\ Docker /\ Others
  /\ \E ack \in BOOLEAN : Takes(c, [pc |-> "look", mem |-> file, ack |-> ack])

(* up() cleans up by the file too.                                         *)
Reread(c) ==
  /\ At(c, "reread") /\ Files /\ Docker /\ Others
  /\ IF file = NoFile THEN Ends(c) ELSE Is(c, [pc |-> "look", mem |-> file, ack |-> FALSE])

(* What is there, if it can be seen and is the project's own.               *)
Look(c) ==
  /\ At(c, "look") /\ Files /\ Docker /\ Others
  /\ Ends(c) \/ Goto(c, IF command[c].mem.project \in there THEN "remove" ELSE "check")

(* docker compose down needs the credential.                               *)
Remove(c) ==
  /\ At(c, "remove") /\ Files /\ Others /\ UNCHANGED coming
  /\ \/ credential /\ there' = there \ {command[c].mem.project} /\ (Goto(c, "check") \/ Goto(c, "keep"))
     \/ UNCHANGED there /\ Goto(c, "keep")

\* mutant: what was not seen is taken for removed
ForgetsUnknown(c) == FALSE

MustKeep(c) == command[c].mem.unknown /\ ~command[c].ack

(* What the user confirms of a start nobody knows is given up.              *)
GivenUp(c) == IF command[c].mem.unknown /\ command[c].ack THEN {command[c].mem.project} ELSE {}

Check(c) ==
  /\ At(c, "check") /\ Files /\ Docker /\ UNCHANGED <<started, beside>>
  /\ \/ Goto(c, "keep") /\ UNCHANGED told
     \/ /\ command[c].mem.project \notin there
        /\ IF MustKeep(c) THEN Goto(c, "keep") /\ UNCHANGED told ELSE Goto(c, "forget") /\ told' = told \cup GivenUp(c)

Keep(c) == At(c, "keep") /\ Saved(c) /\ Ends(c) /\ Docker /\ Others

Forget(c) == At(c, "forget") /\ credential' = FALSE /\ Goto(c, "unlink") /\ Docker /\ Others /\ UNCHANGED file
Unlink(c) == At(c, "unlink") /\ file' = NoFile /\ Ends(c) /\ Docker /\ Others /\ UNCHANGED credential

(***************************************************************************)
(* The daemon goes on with what it was told, or with nothing more.          *)
(***************************************************************************)
Daemon ==
  /\ \E p \in coming : there' \in {there, there \cup {p}} /\ coming' \in {coming, coming \ {p}}
  /\ Files /\ Others /\ UNCHANGED <<command, holder>>

StackNext ==
  \/ Daemon
  \/ \E c \in Commands :
       \/ Killed(c) \/ Interrupted(c)
       \/ BeginUp(c) \/ Secure(c) \/ Record(c) \/ Launch(c) \/ Composed(c) \/ Confirm(c) \/ Status(c) \/ Catch(c)
       \/ BeginDown(c) \/ Reread(c) \/ Look(c) \/ Remove(c) \/ Check(c) \/ Keep(c) \/ Forget(c) \/ Unlink(c)

(* Whatever the daemon has, or may still make, of a project is what the     *)
(* file names, until the user gives an unknown start up; a project that may *)
(* still make something is marked so, and what is there can be removed:     *)
(* flock serializes the changes of the state (docs/adr/                     *)
(* ADR-010-local-development-lifecycle.md:9, 25). It does while it is held; *)
(* the code goes on without it, and this fails.                            *)
AllAccounted ==
  /\ \A p \in (there \cup coming) \ told : file.project = p
  /\ \A p \in coming \ told : file.unknown
  /\ there \ told # {} => credential

(* What the steps' order gives by itself (scripts/local/environment.mjs:    *)
(* 358-447): wherever commands are cut off, and though several downs that   *)
(* lost the lock run beside each other and beside an up, everything stays   *)
(* accounted for unless an up begins before an earlier command has ended.   *)
NothingUnaccounted == ~beside => AllAccounted
=============================================================================
