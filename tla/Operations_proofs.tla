-------------------------- MODULE Operations_proofs --------------------------
(***************************************************************************)
(* What people operate the system with keeps its promises for any number of *)
(* attempts and signals, of projects started, and of organizations, logins  *)
(* and switches. Each part goes on alone, as its module has it.            *)
(***************************************************************************)
EXTENDS OrganizationPage, DurableWorkflow, LocalStack, SequenceTheorems, TLAPS

(***************************************************************************)
(* The workflow: what was decided is of a spec that was asked for, and who  *)
(* is about to tell of an outcome has seen it committed.                   *)
(***************************************************************************)
DurableSpec == DurableInit /\ [][DurableNext]_durableVars

Outcomes == {"completed", "denied"}

DurableTyped ==
  /\ db \in [spec : Specs \cup {Unset}, state : {"none", "queued"} \cup Outcomes, outbox : SUBSET {"start", "dispatched", "completed"},
            decision : {Unset, "allowed", "denied"}, effect : Specs \cup {Unset}, attempts : Nat]
  /\ dispatch \in [pc : {"idle", "starting", "marking"}, spec : Specs \cup {Unset}]
  /\ flow \in [phase : {"absent", "waiting", "checking", "failed"} \cup Outcomes, spec : Specs \cup {Unset},
              seen : Nat, processed : Nat, attempt : Nat]
  /\ runs \in [1..MaxAttempts -> [pc : {"none", "counting", "applying", "answering", "over"},
                                 answer : {Unset, "error", "pending"} \cup Outcomes]]

(* Nothing is dispatched, or started, or decided, before it is asked for.   *)
AskedFirst ==
  /\ dispatch.pc # "idle" \/ flow.phase # "absent" \/ db.decision # Unset => db.spec \in Specs
  /\ dispatch.pc # "idle" => dispatch.spec = db.spec
  /\ dispatch.pc = "marking" => flow.phase # "absent"

AnswersSeen ==
  \A n \in 1..MaxAttempts : runs[n].pc = "answering" => runs[n].answer \notin {Unset} /\ (runs[n].answer \in Outcomes => db.state = runs[n].answer)

DurableInv == DurableTyped /\ AskedFirst /\ AnswersSeen /\ OutcomeIsCommitted

LEMMA DurableStart == DurableInit => DurableInv
  BY SpecsAssumption
     DEF DurableInit, DurableInv, DurableTyped, AskedFirst, AnswersSeen, OutcomeIsCommitted, Outcomes, Unset, Asleep, NotStartedFlow, NoRun

(* What an attempt commits: nothing, or the outcome that was decided.       *)
LEMMA OneOutcome ==
  ASSUME DurableInv, NEW n \in 1..MaxAttempts, Apply(n)
  PROVE  /\ db' \in [spec : Specs \cup {Unset}, state : {"none", "queued"} \cup Outcomes, outbox : SUBSET {"start", "dispatched", "completed"},
                    decision : {Unset, "allowed", "denied"}, effect : Specs \cup {Unset}, attempts : Nat]
         /\ db'.spec = db.spec /\ db'.decision = db.decision
         /\ db.state \in Outcomes => db'.state = db.state
         /\ Answered(flow.spec) \in Outcomes => db'.state = Answered(flow.spec)
         /\ db'.effect # Unset <=> db'.state = "completed"
         /\ db'.state = "completed" <=> "completed" \in db'.outbox
         /\ db'.effect \in {Unset, db.spec}
         /\ db'.state = "completed" => db.decision = "allowed"
         /\ db'.state = "denied" => db.decision = "denied"
         /\ "dispatched" \in db'.outbox <=> "dispatched" \in db.outbox
<1>1. CASE Answered(flow.spec) = "error"
  BY <1>1 DEF Apply, DurableInv, DurableTyped, OutcomeIsCommitted, Outcomes
<1>2. CASE Answered(flow.spec) # "error"
  <2>1. db.spec = flow.spec
    BY <1>2 DEF Answered
  <2>2. db.decision # Unset => db.spec \in Specs /\ db.spec # Unset
    BY SpecsAssumption DEF DurableInv, AskedFirst
  <2>3. db' = Applied(db.spec)
    BY <1>2, <2>1 DEF Apply
  <2>4. Answered(flow.spec) = IF db.decision = Unset THEN "pending" ELSE IF db.decision = "allowed" THEN "completed" ELSE "denied"
    BY <1>2 DEF Answered
  <2>5. CASE db.decision = "allowed"
    <3>1. db' = [db EXCEPT !.effect = IF db.effect = Unset THEN db.spec ELSE db.effect, !.state = "completed", !.outbox = db.outbox \cup {"completed"}]
      BY <2>3, <2>5 DEF Applied
    <3> QED BY <2>2, <2>4, <2>5, <3>1 DEF DurableInv, DurableTyped, OutcomeIsCommitted, Outcomes, Unset
  <2>6. CASE db.decision = "denied"
    <3>1. db' = [db EXCEPT !.state = "denied"]
      BY <2>3, <2>6 DEF Applied
    <3> QED BY <2>2, <2>4, <2>6, <3>1 DEF DurableInv, DurableTyped, OutcomeIsCommitted, Outcomes, Unset
  <2>7. CASE db.decision = Unset
    <3>1. db' = db
      BY <2>3, <2>7 DEF Applied, Unset
    <3> QED BY <2>2, <2>4, <2>7, <3>1 DEF DurableInv, DurableTyped, OutcomeIsCommitted, Outcomes, Unset
  <2> QED BY <2>5, <2>6, <2>7 DEF DurableInv, DurableTyped
<1> QED BY <1>1, <1>2

LEMMA DurableStep == DurableInv /\ [DurableNext]_durableVars => DurableInv'
<1> SUFFICES ASSUME DurableInv, [DurableNext]_durableVars PROVE DurableInv'
  OBVIOUS
<1> USE SpecsAssumption
<1>1. CASE Submit
  <2>1. PICK s \in Specs : db' = [db EXCEPT !.spec = s, !.state = "queued", !.outbox = {"start"}]
    BY <1>1 DEF Submit
  <2>2. /\ db.spec = Unset /\ UNCHANGED <<dispatch, flow, runs>>
        /\ dispatch.pc = "idle" /\ flow.phase = "absent" /\ db.decision = Unset
    BY <1>1 DEF Submit, DurableInv, AskedFirst
  <2>3. db.state \notin Outcomes /\ db.effect = Unset
    BY <2>2 DEF DurableInv, DurableTyped, OutcomeIsCommitted, Outcomes, Unset
  <2>4. DurableTyped' /\ AskedFirst' /\ OutcomeIsCommitted'
    BY <2>1, <2>2, <2>3 DEF DurableInv, DurableTyped, AskedFirst, OutcomeIsCommitted, Outcomes, Unset
  <2>5. AnswersSeen'
    BY <2>2, <2>3 DEF DurableInv, AnswersSeen
  <2> QED BY <2>4, <2>5 DEF DurableInv
<1>2. ASSUME NEW s \in Specs, NEW verdict \in {"allowed", "denied"}, Decide(s, verdict) PROVE DurableInv'
  BY <1>2 DEF Decide, DurableInv, DurableTyped, AskedFirst, AnswersSeen, OutcomeIsCommitted, Outcomes, Unset
<1>3. CASE CallDispatch
  BY <1>3 DEF CallDispatch, DurableInv, DurableTyped, AskedFirst, AnswersSeen, OutcomeIsCommitted, Outcomes, Unset
<1>4. CASE StartFlow
  <2>1. flow' = [flow EXCEPT !.phase = "waiting", !.spec = db.spec] \/ (flow.phase # "absent" /\ flow' = flow)
    BY <1>4 DEF StartFlow, DurableInv, AskedFirst
  <2>2. UNCHANGED <<db, runs>> /\ dispatch' \in {[dispatch EXCEPT !.pc = "marking"], Asleep} /\ dispatch.pc = "starting"
    BY <1>4 DEF StartFlow
  <2>3. flow'.phase # "absent" /\ (flow.phase = "absent" => flow'.phase = "waiting") /\ (flow.phase # "absent" => flow'.phase = flow.phase)
    BY <1>4, <2>1 DEF StartFlow, DurableInv, DurableTyped
  <2>4. DurableTyped'
    <3>1. dispatch' \in [pc : {"idle", "starting", "marking"}, spec : Specs \cup {Unset}]
      BY <2>2 DEF DurableInv, DurableTyped, Asleep
    <3>2. flow' \in [phase : {"absent", "waiting", "checking", "failed"} \cup Outcomes, spec : Specs \cup {Unset},
                    seen : Nat, processed : Nat, attempt : Nat]
      BY <2>1 DEF DurableInv, DurableTyped
    <3> QED BY <2>2, <3>1, <3>2 DEF DurableInv, DurableTyped
  <2>5. AskedFirst' /\ AnswersSeen'
    BY <2>2, <2>3 DEF DurableInv, DurableTyped, AskedFirst, AnswersSeen, Asleep
  <2>6. flow'.spec = db.spec
    BY <2>1 DEF DurableInv, DurableTyped, OutcomeIsCommitted
  <2>7. OutcomeIsCommitted'
    BY <2>2, <2>3, <2>6 DEF DurableInv, OutcomeIsCommitted
  <2> QED BY <2>4, <2>5, <2>7 DEF DurableInv
<1>5. CASE Mark
  BY <1>5 DEF Mark, Asleep, DurableInv, DurableTyped, AskedFirst, AnswersSeen, OutcomeIsCommitted, Outcomes, Unset
<1>6. CASE DispatcherDies
  BY <1>6 DEF DispatcherDies, Asleep, DurableInv, DurableTyped, AskedFirst, AnswersSeen, OutcomeIsCommitted, Outcomes, Unset
<1>7. CASE Signal
  BY <1>7 DEF Signal, Running, DurableInv, DurableTyped, AskedFirst, AnswersSeen, OutcomeIsCommitted, Outcomes, Unset
<1>8. CASE Wake
  <2>1. flow.seen \in Nat /\ flow.attempt + 1 \in Nat
    BY DEF DurableInv, DurableTyped
  <2>2. /\ flow' = [flow EXCEPT !.phase = "checking", !.processed = flow.seen, !.attempt = flow.attempt + 1]
        /\ flow.phase = "waiting" /\ UNCHANGED <<db, dispatch, runs>>
    BY <1>8 DEF Wake
  <2>3. DurableTyped'
    BY <2>1, <2>2 DEF DurableInv, DurableTyped
  <2>4. flow'.phase = "checking" /\ flow'.spec = flow.spec
    BY <2>2 DEF DurableInv, DurableTyped
  <2>5. AskedFirst' /\ AnswersSeen' /\ OutcomeIsCommitted'
    BY <2>2, <2>4 DEF DurableInv, AskedFirst, AnswersSeen, OutcomeIsCommitted
  <2> QED BY <2>3, <2>5 DEF DurableInv
<1>9. CASE Retry
  BY <1>9 DEF Retry, DurableInv, DurableTyped, AskedFirst, AnswersSeen, OutcomeIsCommitted, Outcomes, Unset
<1>10. CASE Abandoned
  BY <1>10 DEF Abandoned, Running, DurableInv, DurableTyped, AskedFirst, AnswersSeen, OutcomeIsCommitted, Outcomes, Unset
<1>11. CASE WorkerKilled
  BY <1>11 DEF WorkerKilled, DurableInv, DurableTyped, AskedFirst, AnswersSeen, OutcomeIsCommitted, Outcomes, Unset
<1>12. ASSUME NEW n \in 1..MaxAttempts, TakeUp(n) PROVE DurableInv'
  BY <1>12 DEF TakeUp, DurableInv, DurableTyped, AskedFirst, AnswersSeen, OutcomeIsCommitted, Outcomes, Unset
<1>13. ASSUME NEW n \in 1..MaxAttempts, Count(n) PROVE DurableInv'
  BY <1>13 DEF Count, DurableInv, DurableTyped, AskedFirst, AnswersSeen, OutcomeIsCommitted, Outcomes, Unset
<1>14. ASSUME NEW n \in 1..MaxAttempts, Apply(n) PROVE DurableInv'
  <2>1. Answered(flow.spec) \in {"error", "pending"} \cup Outcomes
    BY DEF Answered, Outcomes
  <2>2. UNCHANGED <<dispatch, flow>> /\ runs' = [runs EXCEPT ![n] = [pc |-> "answering", answer |-> Answered(flow.spec)]]
    BY <1>14 DEF Apply
  <2>3. DurableTyped'
    BY <1>14, <2>1, <2>2, OneOutcome DEF DurableInv, DurableTyped, Unset
  <2>4. AskedFirst'
    BY <1>14, <2>2, OneOutcome DEF DurableInv, AskedFirst
  <2>5. AnswersSeen'
    BY <1>14, <2>1, <2>2, OneOutcome DEF DurableInv, DurableTyped, AnswersSeen, Unset, Outcomes
  <2>6. OutcomeIsCommitted'
    BY <1>14, <2>2, OneOutcome DEF DurableInv, OutcomeIsCommitted, Outcomes
  <2> QED BY <2>3, <2>4, <2>5, <2>6 DEF DurableInv
<1>15. ASSUME NEW n \in 1..MaxAttempts, Acknowledge(n) PROVE DurableInv'
  BY <1>15 DEF Acknowledge, DurableInv, DurableTyped, AskedFirst, AnswersSeen, OutcomeIsCommitted, Outcomes, Unset
<1>16. CASE UNCHANGED durableVars
  BY <1>16 DEF durableVars, DurableInv, DurableTyped, AskedFirst, AnswersSeen, OutcomeIsCommitted
<1> QED
  BY <1>1, <1>2, <1>3, <1>4, <1>5, <1>6, <1>7, <1>8, <1>9, <1>10, <1>11, <1>12, <1>13, <1>14, <1>15, <1>16 DEF DurableNext

(* Whoever is killed and whatever is repeated, however often: the remote    *)
(* workflow tells of no outcome that was not decided and committed, and one *)
(* outcome is committed, of the spec that was asked for.                   *)
THEOREM OutcomeAlwaysCommitted == DurableSpec => []OutcomeIsCommitted
<1>1. DurableInv => OutcomeIsCommitted
  BY DEF DurableInv
<1> QED BY <1>1, DurableStart, DurableStep, PTL DEF DurableSpec
(***************************************************************************)
(* The local stack: while no up begins beside an earlier command, there is  *)
(* one project that is started or removed, however many downs are about it; *)
(* a command records it before it has anything, once anybody knows that the *)
(* start is over it is, and only who sees nothing left of it, or was told   *)
(* to give it up, lets go of the file.                                     *)
(***************************************************************************)
StackSpec == StackInit /\ [][StackNext]_stackVars

Rows == [project : Nat, unknown : BOOLEAN]
Starting == {"secure", "record", "launch", "compose"}
Upping == Starting \cup {"confirm", "status", "catch"}
Pcs == {"none", "reread", "look", "remove", "check", "keep", "forget", "unlink"} \cup Upping

Kept == [pc : Pcs, mem : Rows, ack : BOOLEAN]

StackTyped ==
  /\ file \in Rows /\ credential \in BOOLEAN /\ started \in Nat /\ beside \in BOOLEAN
  /\ command \in [Commands -> Kept]
  /\ there \subseteq Nat /\ coming \subseteq Nat /\ told \subseteq Nat

Left == (there \cup coming) \ told
Active(c) == command[c].pc # "none"

(* There is one project to speak of.                                       *)
OneProject ==
  /\ file = NoFile \/ (file.project = started /\ started # 0)
  /\ Left \subseteq {started} \ {0} /\ (\A p \in told : p <= started)
  /\ \A c \in Commands : Active(c) => command[c].mem.project = started /\ started # 0

OneUp == \A c, d \in Commands : command[c].pc \in Upping /\ command[d].pc \in Upping => c = d

(* Before the file names a project, nobody else is about.                  *)
Unrecorded(c) ==
  command[c].pc \in {"secure", "record"} =>
    /\ Left = {} /\ file = NoFile /\ (command[c].pc = "record" => credential)
    /\ \A d \in Commands : Active(d) => d = c

(* A start that is going on is the file's, and marked so, until given up.   *)
Recorded(c) ==
  /\ command[c].pc \in Starting => command[c].mem.unknown
  /\ command[c].pc \in {"launch", "compose"} => started \in told \/ (file.project = started /\ file.unknown /\ credential)

(* Who forgets has seen nothing left, or has given it up.                   *)
Forgettable(c) ==
  command[c].pc \in {"forget", "unlink"} => started \in told \/ (~command[c].mem.unknown /\ started \notin there)

(* Once anybody knows that the start is over, it is.                        *)
Known == (file # NoFile /\ ~file.unknown) \/ \E c \in Commands : Active(c) /\ ~command[c].mem.unknown
OverOnceKnown == Known => coming \ told = {} /\ \A c \in Commands : command[c].pc \notin Starting

Accounted ==
  /\ \A p \in Left : file.project = p
  /\ \A p \in coming \ told : file.unknown
  /\ Left # {} => credential

Alone ==
  /\ OneProject /\ OneUp /\ OverOnceKnown /\ Accounted
  /\ \A c \in Commands : Unrecorded(c) /\ Recorded(c) /\ Forgettable(c)

StackInv == StackTyped /\ (~beside => Alone)

LEMMA StackStart == StackInit => StackInv
<1> SUFFICES ASSUME StackInit PROVE StackTyped /\ Alone
  BY DEF StackInv
<1>1. /\ file = NoFile /\ credential = FALSE /\ started = 0 /\ beside = FALSE
      /\ there = {} /\ coming = {} /\ told = {} /\ \A c \in Commands : command[c] = Resting
      /\ command = [c \in Commands |-> Resting]
  BY DEF StackInit
<1>2. StackTyped
  BY <1>1 DEF StackTyped, Kept, Rows, NoFile, Resting, Pcs
<1>3. \A c \in Commands : command[c].pc = "none"
  BY <1>1 DEF Resting
<1>4. Alone
  BY <1>1, <1>3 DEF Alone, OneProject, OneUp, OverOnceKnown, Accounted, Unrecorded, Recorded, Forgettable, Known, Active, Left, NoFile, Upping, Starting
<1> QED BY <1>2, <1>4

(* What a command does to what it keeps in mind, and to nobody else's.      *)
Alters(c) == command' \in [Commands -> Kept] /\ \A d \in Commands : d # c => command'[d] = command[d]

LEMMA Keeps ==
  ASSUME StackTyped, NEW c \in Commands, NEW new \in Kept, command' = [command EXCEPT ![c] = new]
  PROVE  Alters(c) /\ command'[c] = new
  BY DEF StackTyped, Alters

LEMMA Goes ==
  ASSUME StackTyped, NEW c \in Commands, NEW pc \in Pcs, Goto(c, pc)
  PROVE  Alters(c) /\ command'[c].pc = pc /\ command'[c].mem = command[c].mem
<1>1. command[c] \in Kept
  BY DEF StackTyped
<1>2. [command[c] EXCEPT !.pc = pc] \in Kept
  BY <1>1 DEF Kept
<1>3. [command[c] EXCEPT !.pc = pc].pc = pc /\ [command[c] EXCEPT !.pc = pc].mem = command[c].mem
  BY <1>1 DEF Kept
<1> QED BY <1>2, <1>3, Keeps DEF Goto, Is

LEMMA Rests ==
  ASSUME StackTyped, NEW c \in Commands, Ends(c)
  PROVE  Alters(c) /\ command'[c].pc = "none"
<1>1. Resting \in Kept /\ Resting.pc = "none"
  BY DEF Resting, NoFile, Kept, Rows, Pcs
<1> QED BY <1>1, Keeps DEF Ends

(* Whoever takes part in nothing leaves what holds for the others.          *)
LEMMA Onwards ==
  ASSUME StackTyped, Alone, NEW c \in Commands, Alters(c), UNCHANGED <<file, credential, told, started>>,
         there' \subseteq there, coming' \subseteq coming,
         \/ command'[c].pc = "none"
         \/ /\ Active(c) /\ command'[c].mem = command[c].mem
            /\ \/ command'[c].pc \in {"remove", "check", "keep", "reread"}
               \/ command'[c].pc = "catch" /\ command[c].pc \in Upping
  PROVE  Alone'
<1>1. OneProject'
  BY DEF Alone, OneProject, Alters, Active, Left
<1>2. OneUp'
  BY DEF Alone, OneUp, Alters, Upping, Starting
<1>3. Known' => Known
  BY DEF Known, Alters, Active
<1>4. \A d \in Commands : command'[d].pc \in Starting \cup {"forget", "unlink"} => command'[d] = command[d]
  BY DEF Alters, Starting
<1>5. OverOnceKnown'
  BY <1>3, <1>4 DEF Alone, OverOnceKnown
<1>6. Accounted' /\ Left' \subseteq Left
  BY DEF Alone, Accounted, Left
<1>7. ASSUME NEW d \in Commands PROVE Unrecorded(d)'
  <2>1. \A e \in Commands : Active(e)' => Active(e)
    BY DEF Active, Alters
  <2>2. command'[d].pc \in {"secure", "record"} => command'[d].pc = command[d].pc
    BY <1>4 DEF Starting
  <2> QED BY <1>6, <2>1, <2>2 DEF Alone, Unrecorded
<1>8. ASSUME NEW d \in Commands PROVE Recorded(d)' /\ Forgettable(d)'
  BY <1>4 DEF Alone, Recorded, Forgettable, Starting
<1> QED BY <1>1, <1>2, <1>5, <1>6, <1>7, <1>8 DEF Alone

(* So does who saves what it has in mind, of a project that was recorded.   *)
LEMMA SavesMind ==
  ASSUME StackTyped, Alone, NEW c \in Commands, Alters(c), Saved(c), UNCHANGED <<there, coming, told, started>>,
         command[c].pc \in {"confirm", "catch", "keep"},
         \/ command'[c].pc = "none"
         \/ /\ command'[c].mem = command[c].mem
            /\ command'[c].pc = "reread" \/ (command'[c].pc = "status" /\ command[c].pc \in Upping)
  PROVE  Alone'
<1>0. /\ Active(c) /\ file' = command[c].mem /\ file'.project = started /\ credential' = credential
      /\ (~file'.unknown => Known)
  BY DEF Saved, Active, Alone, OneProject, Known
<1>1. OneProject'
  BY <1>0 DEF Alone, OneProject, Alters, Active, Left
<1>2. OneUp'
  BY DEF Alone, OneUp, Alters, Upping, Starting
<1>3. Known' => Known
  BY <1>0 DEF Known, Alters, Active
<1>4. \A d \in Commands : command'[d].pc \in Starting \cup {"forget", "unlink"} => command'[d] = command[d]
  BY DEF Alters, Starting
<1>5. OverOnceKnown'
  BY <1>3, <1>4 DEF Alone, OverOnceKnown
<1>6. Accounted'
  BY <1>0 DEF Alone, Accounted, Left, OneProject, OverOnceKnown
<1>7. ASSUME NEW d \in Commands PROVE Unrecorded(d)'
  BY <1>0, <1>4 DEF Alone, Unrecorded, Starting
<1>8. ASSUME NEW d \in Commands PROVE Recorded(d)' /\ Forgettable(d)'
  BY <1>0, <1>4 DEF Alone, Recorded, Forgettable, Starting, OverOnceKnown
<1> QED BY <1>1, <1>2, <1>5, <1>6, <1>7, <1>8 DEF Alone

LEMMA StaysTyped == StackTyped /\ [StackNext]_stackVars => StackTyped'
<1> SUFFICES ASSUME StackTyped, [StackNext]_stackVars PROVE StackTyped'
  OBVIOUS
<1>0. /\ file \in Rows /\ credential \in BOOLEAN /\ started \in Nat /\ beside \in BOOLEAN
      /\ there \subseteq Nat /\ coming \subseteq Nat /\ told \subseteq Nat /\ command \in [Commands -> Kept]
      /\ \A c \in Commands : command[c].mem \in Rows /\ command[c].mem.project \in Nat
  BY DEF StackTyped, Kept, Rows
<1>1. NoFile \in Rows /\ started + 1 \in Nat
  BY <1>0 DEF NoFile, Rows
<1>2. CASE Daemon
  BY <1>0, <1>2 DEF Daemon, Files, Others, StackTyped, Kept
<1>3. ASSUME NEW c \in Commands, command' \in [Commands -> Kept],
             UNCHANGED <<started, beside>> \/ (started' = started + 1 /\ beside' \in BOOLEAN),
             UNCHANGED file \/ Saved(c) \/ file' = NoFile, credential' \in {credential, TRUE, FALSE},
             there' \subseteq there \cup {command[c].mem.project}, coming' \subseteq coming \cup {command[c].mem.project},
             told' \subseteq told \cup {command[c].mem.project}
      PROVE  StackTyped'
  BY <1>0, <1>1, <1>3 DEF StackTyped, Kept, Saved
<1>4. ASSUME NEW c \in Commands, NEW pc \in Pcs, Goto(c, pc) PROVE command' \in [Commands -> Kept]
  BY <1>4, Goes DEF Alters
<1>5. ASSUME NEW c \in Commands, Ends(c) PROVE command' \in [Commands -> Kept]
  BY <1>5, Rests DEF Alters
<1>6. ASSUME NEW c \in Commands, Killed(c) PROVE StackTyped'
  BY <1>3, <1>5, <1>6 DEF Killed, Docker, Files, Others
<1>7. ASSUME NEW c \in Commands, Interrupted(c) PROVE StackTyped'
  BY <1>0, <1>3, <1>7 DEF Interrupted, Docker, Files, Others
<1>8. ASSUME NEW c \in Commands, BeginUp(c) PROVE StackTyped'
  <2> DEFINE new == [pc |-> "secure", mem |-> New, ack |-> FALSE]
  <2>1. started' = started + 1 /\ Takes(c, new) /\ beside' \in BOOLEAN /\ UNCHANGED <<file, credential, there, coming, told>>
    BY <1>8 DEF BeginUp, Docker, Files
  <2>2. new \in Kept
    BY <1>1, <2>1 DEF New, Kept, Rows, Pcs, Upping, Starting
  <2>3. command' \in [Commands -> Kept]
    BY <2>1, <2>2, Keeps DEF Takes, Alters
  <2> QED BY <1>3, <2>1, <2>3
<1>9. ASSUME NEW c \in Commands, Secure(c) PROVE StackTyped'
  BY <1>3, <1>4, <1>5, <1>9 DEF Secure, Saved, Docker, Files, Others, Pcs, Upping, Starting
<1>10. ASSUME NEW c \in Commands, Record(c) PROVE StackTyped'
  BY <1>3, <1>4, <1>5, <1>10 DEF Record, Saved, Docker, Files, Others, Pcs, Upping, Starting
<1>11. ASSUME NEW c \in Commands, Launch(c) PROVE StackTyped'
  BY <1>3, <1>4, <1>5, <1>11 DEF Launch, Saved, Docker, Files, Others, Pcs, Upping, Starting
<1>12. ASSUME NEW c \in Commands, Confirm(c) PROVE StackTyped'
  BY <1>3, <1>4, <1>5, <1>12 DEF Confirm, Saved, Docker, Files, Others, Pcs, Upping, Starting
<1>13. ASSUME NEW c \in Commands, Catch(c) PROVE StackTyped'
  BY <1>3, <1>4, <1>5, <1>13 DEF Catch, Saved, Docker, Files, Others, Pcs, Upping, Starting
<1>14. ASSUME NEW c \in Commands, Look(c) PROVE StackTyped'
  BY <1>3, <1>4, <1>5, <1>14 DEF Look, Saved, Docker, Files, Others, Pcs, Upping, Starting
<1>15. ASSUME NEW c \in Commands, Remove(c) PROVE StackTyped'
  BY <1>3, <1>4, <1>5, <1>15 DEF Remove, Saved, Docker, Files, Others, Pcs, Upping, Starting
<1>16. ASSUME NEW c \in Commands, Check(c) PROVE StackTyped'
  BY <1>3, <1>4, <1>5, <1>16 DEF Check, MustKeep, GivenUp, Saved, Docker, Files, Others, Pcs, Upping, Starting
<1>17. ASSUME NEW c \in Commands, Forget(c) PROVE StackTyped'
  BY <1>3, <1>4, <1>5, <1>17 DEF Forget, Saved, Docker, Files, Others, Pcs, Upping, Starting
<1>18. ASSUME NEW c \in Commands, Status(c) PROVE StackTyped'
  BY <1>3, <1>4, <1>5, <1>18 DEF Status, Saved, Docker, Files, Others, Pcs, Upping, Starting
<1>19. ASSUME NEW c \in Commands, Keep(c) PROVE StackTyped'
  BY <1>3, <1>4, <1>5, <1>19 DEF Keep, Saved, Docker, Files, Others, Pcs, Upping, Starting
<1>20. ASSUME NEW c \in Commands, Unlink(c) PROVE StackTyped'
  BY <1>3, <1>4, <1>5, <1>20 DEF Unlink, Saved, Docker, Files, Others, Pcs, Upping, Starting
<1>21. ASSUME NEW c \in Commands, Composed(c) PROVE StackTyped'
  <2> DEFINE new == [command[c] EXCEPT !.pc = "confirm", !.mem.unknown = FALSE]
  <2>1. CASE Is(c, new)
    <3>1. new \in Kept
      BY <1>0 DEF Kept, Rows, Pcs, Upping
    <3> QED BY <1>3, <1>21, <2>1, <3>1, Keeps DEF Composed, Is, Alters, Files, Others
  <2>2. CASE Goto(c, "catch")
    BY <1>3, <1>4, <1>21, <2>2 DEF Composed, Files, Others, Pcs, Upping, Starting
  <2> QED BY <1>21, <2>1, <2>2 DEF Composed
<1>22. ASSUME NEW c \in Commands, BeginDown(c) PROVE StackTyped'
  <2>1. PICK ack \in BOOLEAN : Takes(c, [pc |-> "look", mem |-> file, ack |-> ack])
    BY <1>22 DEF BeginDown
  <2>2. [pc |-> "look", mem |-> file, ack |-> ack] \in Kept
    BY <1>0 DEF Kept, Pcs
  <2> QED BY <1>3, <1>22, <2>1, <2>2, Keeps DEF BeginDown, Takes, Alters, Docker, Files, Others
<1>23. ASSUME NEW c \in Commands, Reread(c) PROVE StackTyped'
  <2>1. [pc |-> "look", mem |-> file, ack |-> FALSE] \in Kept
    BY <1>0 DEF Kept, Pcs
  <2>2. command' \in [Commands -> Kept]
    BY <1>5, <1>23, <2>1, Keeps DEF Reread, Is, Alters
  <2> QED BY <1>3, <1>23, <2>2 DEF Reread, Docker, Files, Others
<1>24. CASE UNCHANGED stackVars
  BY <1>24 DEF stackVars, StackTyped
<1> QED BY <1>2, <1>6, <1>7, <1>8, <1>9, <1>10, <1>11, <1>12, <1>13, <1>14, <1>15, <1>16, <1>17, <1>18, <1>19, <1>20, <1>21, <1>22, <1>23, <1>24 DEF StackNext

(* A down may forget a project of which nothing is left, and only then.     *)
LEMMA NothingLeft ==
  ASSUME StackTyped, Alone, NEW c \in Commands, command[c].pc \in {"forget", "unlink"}
  PROVE  Left = {} /\ Active(c) /\ \A d \in Commands : command[d].pc \notin {"secure", "record"} /\ (command[d].pc \in Starting => started \in told)
<1>1. Active(c) /\ (~command[c].mem.unknown => Known)
  BY DEF Active, Known
<1>2. Left = {}
  BY <1>1 DEF Alone, Forgettable, OverOnceKnown, OneProject, Left
<1>3. ASSUME NEW d \in Commands PROVE command[d].pc \notin {"secure", "record"} /\ (command[d].pc \in Starting => started \in told)
  BY <1>1 DEF Alone, Forgettable, OverOnceKnown, Unrecorded
<1> QED BY <1>1, <1>2, <1>3

LEMMA StackStep == StackInv /\ [StackNext]_stackVars => StackInv'
<1> SUFFICES ASSUME StackInv, [StackNext]_stackVars, ~beside' PROVE Alone'
  BY StaysTyped DEF StackInv
<1>0. StackTyped /\ StackTyped' /\ ~beside /\ Alone
  <2>1. beside' = beside \/ \E c \in Commands : BeginUp(c)
    BY DEF StackNext, stackVars, Others, Daemon, Killed, Interrupted, Secure, Record, Launch, Composed, Confirm, Status, Catch,
           BeginDown, Reread, Look, Remove, Check, Keep, Forget, Unlink
  <2>2. ASSUME NEW c \in Commands, BeginUp(c) PROVE ~beside
    BY <2>2 DEF BeginUp
  <2>3. ~beside
    BY <2>1, <2>2
  <2> QED BY <2>3, StaysTyped DEF StackInv
<1>1. CASE Daemon
  <2>1. UNCHANGED <<file, credential, command, told, started>> /\ Left' \subseteq Left /\ coming' \subseteq coming
        /\ there' \subseteq there \cup coming
    BY <1>1 DEF Daemon, Files, Others, Left
  <2>2. OneProject' /\ OneUp' /\ OverOnceKnown' /\ Accounted'
    BY <1>0, <2>1 DEF Alone, OneProject, OneUp, OverOnceKnown, Accounted, Known, Active
  <2>3. ASSUME NEW c \in Commands PROVE Unrecorded(c)' /\ Recorded(c)'
    BY <1>0, <2>1 DEF Alone, Unrecorded, Recorded, Active
  <2>4. ASSUME NEW c \in Commands PROVE Forgettable(c)'
    <3>1. command[c].pc \in {"forget", "unlink"} /\ ~command[c].mem.unknown => Known
      BY DEF Known, Active
    <3> QED BY <1>0, <2>1, <3>1 DEF Alone, Forgettable, OverOnceKnown
  <2> QED BY <2>2, <2>3, <2>4 DEF Alone
<1>2. ASSUME NEW c \in Commands, Killed(c) PROVE Alone'
  BY <1>0, <1>2, Rests, Onwards DEF Killed, Docker, Files, Others
<1>3. ASSUME NEW c \in Commands, Interrupted(c) PROVE Alone'
  BY <1>0, <1>3 DEF Interrupted, Docker, Files, Others, Alone, OneProject, OneUp, OverOnceKnown, Accounted, Known, Unrecorded, Recorded, Forgettable, Active, Left
<1>4. ASSUME NEW c \in Commands, BeginUp(c) PROVE Alone'
  <2> DEFINE new == [pc |-> "secure", mem |-> New, ack |-> FALSE]
  <2>1. /\ started' = started + 1 /\ Takes(c, new) /\ UNCHANGED <<file, credential, there, coming, told>>
        /\ file = NoFile /\ \A d \in Commands : ~Active(d)
    BY <1>0, <1>4 DEF BeginUp, Docker, Files, At, Active
  <2>2. command'[c] = new /\ \A d \in Commands : d # c => command'[d].pc = "none"
    BY <1>0, <2>1 DEF Takes, Active, StackTyped
  <2>3. command'[c].pc = "secure" /\ command'[c].mem.project = started' /\ command'[c].mem.unknown
    BY <2>2 DEF New
  <2>4. Left = {} /\ Left' = {}
    BY <1>0, <2>1 DEF Alone, Accounted, OneProject, Left, NoFile
  <2>5. OneProject'
    <3>1. started \in Nat /\ told \subseteq Nat /\ \A p \in told : p <= started
      BY <1>0 DEF Alone, OneProject, StackTyped
    <3>2. started' # 0 /\ \A p \in told' : p <= started'
      BY <2>1, <3>1
    <3> QED BY <2>1, <2>2, <2>3, <2>4, <3>2 DEF OneProject, Active
  <2>6. OneUp' /\ ~Known'
    BY <2>1, <2>2, <2>3 DEF OneUp, Upping, Starting, Known, Active
  <2>7. OverOnceKnown' /\ Accounted'
    BY <2>1, <2>4, <2>6 DEF OverOnceKnown, Accounted, Left
  <2>8. ASSUME NEW d \in Commands PROVE Unrecorded(d)' /\ Recorded(d)' /\ Forgettable(d)'
    BY <2>1, <2>2, <2>3, <2>4 DEF Unrecorded, Recorded, Forgettable, Active, Starting
  <2> QED BY <2>5, <2>6, <2>7, <2>8 DEF Alone
<1>5. ASSUME NEW c \in Commands, Secure(c) PROVE Alone'
  <2>1. Alters(c) /\ command'[c].pc = "record" /\ command'[c].mem = command[c].mem
    BY <1>0, <1>5, Goes DEF Secure, Pcs, Upping, Starting
  <2>2. /\ command[c].pc = "secure" /\ credential' = TRUE /\ UNCHANGED <<file, there, coming, told, started>> /\ Left' = Left
    BY <1>5 DEF Secure, At, Docker, Others, Left
  <2>3. /\ Left = {} /\ file = NoFile /\ command[c].mem.unknown /\ command[c].mem.project = started /\ started # 0
        /\ \A d \in Commands : d # c => command'[d].pc = "none"
    BY <1>0, <2>1, <2>2 DEF Alone, OneProject, Unrecorded, Recorded, Active, Alters, Starting
  <2>4. OneProject' /\ OneUp' /\ ~Known'
    BY <1>0, <2>1, <2>2, <2>3 DEF Alone, OneProject, OneUp, Upping, Starting, Known, Active
  <2>5. OverOnceKnown' /\ Accounted'
    BY <2>2, <2>3, <2>4 DEF OverOnceKnown, Accounted, Left
  <2>6. ASSUME NEW d \in Commands PROVE Unrecorded(d)' /\ Recorded(d)' /\ Forgettable(d)'
    BY <2>1, <2>2, <2>3 DEF Unrecorded, Recorded, Forgettable, Active, Starting
  <2> QED BY <2>4, <2>5, <2>6 DEF Alone
<1>6. ASSUME NEW c \in Commands, Record(c) PROVE Alone'
  <2>1. Alters(c) /\ command'[c].pc = "launch" /\ command'[c].mem = command[c].mem
    BY <1>0, <1>6, Goes DEF Record, Pcs, Upping, Starting
  <2>2. /\ command[c].pc = "record" /\ file' = command[c].mem /\ UNCHANGED <<credential, there, coming, told, started>> /\ Left' = Left
    BY <1>6 DEF Record, Saved, At, Docker, Others, Left
  <2>3. /\ Left = {} /\ credential /\ command[c].mem.unknown /\ command[c].mem.project = started /\ started # 0
        /\ \A d \in Commands : d # c => command'[d].pc = "none"
    BY <1>0, <2>1, <2>2 DEF Alone, OneProject, Unrecorded, Recorded, Active, Alters, Starting
  <2>4. OneProject' /\ OneUp' /\ ~Known'
    BY <1>0, <2>1, <2>2, <2>3 DEF Alone, OneProject, OneUp, Upping, Starting, Known, Active
  <2>5. OverOnceKnown' /\ Accounted'
    BY <2>2, <2>3, <2>4 DEF OverOnceKnown, Accounted, Left
  <2>6. ASSUME NEW d \in Commands PROVE Unrecorded(d)' /\ Recorded(d)' /\ Forgettable(d)'
    BY <2>1, <2>2, <2>3 DEF Unrecorded, Recorded, Forgettable, Active, Starting
  <2> QED BY <2>4, <2>5, <2>6 DEF Alone
<1>7. ASSUME NEW c \in Commands, Launch(c) PROVE Alone'
  <2>1. CASE UNCHANGED coming /\ Goto(c, "catch")
    BY <1>0, <1>7, <2>1, Goes, Onwards DEF Launch, At, Files, Others, Active, Pcs, Upping, Starting
  <2>2. CASE credential /\ coming' = coming \cup {command[c].mem.project} /\ Goto(c, "compose")
    <3>1. Alters(c) /\ command'[c].pc = "compose" /\ command'[c].mem = command[c].mem
      BY <1>0, <2>2, Goes DEF Pcs, Upping, Starting
    <3>2. /\ command[c].pc = "launch" /\ UNCHANGED <<file, credential, there, told, started>>
          /\ coming' = coming \cup {started} /\ Active(c) /\ started # 0 /\ credential
      BY <1>0, <1>7, <2>2 DEF Launch, At, Files, Others, Active, Alone, OneProject
    <3>3. ~Known /\ ~Known' /\ command[c].mem.unknown /\ (started \in told \/ (file.project = started /\ file.unknown))
      BY <1>0, <3>1, <3>2 DEF Alone, OverOnceKnown, Recorded, Known, Alters, Active, Starting
    <3>4. OneProject' /\ OneUp'
      BY <1>0, <3>1, <3>2 DEF Alone, OneProject, OneUp, Left, Alters, Active, Upping, Starting
    <3>5. OverOnceKnown' /\ Accounted'
      BY <1>0, <3>2, <3>3 DEF Alone, OverOnceKnown, Accounted, Left
    <3>6. ASSUME NEW d \in Commands PROVE Unrecorded(d)' /\ Recorded(d)' /\ Forgettable(d)'
      BY <1>0, <3>1, <3>2, <3>3 DEF Alone, Unrecorded, Recorded, Forgettable, Alters, Active, Starting
    <3> QED BY <3>4, <3>5, <3>6 DEF Alone
  <2> QED BY <1>7, <2>1, <2>2 DEF Launch
<1>8. ASSUME NEW c \in Commands, Composed(c) PROVE Alone'
  <2> DEFINE new == [command[c] EXCEPT !.pc = "confirm", !.mem.unknown = FALSE]
  <2>1. CASE UNCHANGED there /\ coming' \in {coming, coming \ {command[c].mem.project}} /\ Goto(c, "catch")
    BY <1>0, <1>8, <2>1, Goes, Onwards DEF Composed, At, Files, Others, Active, Pcs, Upping, Starting
  <2>2. CASE there' = there \cup {command[c].mem.project} /\ coming' = coming \ {command[c].mem.project} /\ Is(c, new)
    <3>0. command[c] \in Kept
      BY <1>0 DEF StackTyped
    <3>1. new \in Kept /\ new.pc = "confirm" /\ new.mem.project = command[c].mem.project /\ ~new.mem.unknown
      BY <3>0 DEF Kept, Rows, Pcs, Upping
    <3>2. Alters(c) /\ command'[c] = new
      BY <1>0, <2>2, <3>1, Keeps DEF Is
    <3>3. /\ command[c].pc = "compose" /\ UNCHANGED <<file, credential, told, started>> /\ Active(c) /\ started # 0
          /\ there' = there \cup {started} /\ coming' = coming \ {started} /\ new.mem.project = started
      BY <1>0, <1>8, <2>2, <3>1 DEF Composed, At, Files, Others, Active, Alone, OneProject
    <3>4. ~Known /\ (started \in told \/ (file.project = started /\ credential)) /\ \A d \in Commands : command[d].pc \in Starting => d = c
      BY <1>0, <3>3 DEF Alone, OverOnceKnown, Recorded, OneUp, Upping, Starting
    <3>5. OneProject' /\ OneUp'
      BY <1>0, <3>1, <3>2, <3>3 DEF Alone, OneProject, OneUp, Left, Alters, Active, Upping, Starting
    <3>6. OverOnceKnown' /\ Accounted'
      BY <1>0, <3>1, <3>2, <3>3, <3>4 DEF Alone, OneProject, OverOnceKnown, Accounted, Left, Alters, Starting
    <3>7. ASSUME NEW d \in Commands PROVE Unrecorded(d)' /\ Recorded(d)'
      BY <1>0, <3>1, <3>2, <3>3, <3>4 DEF Alone, Unrecorded, Recorded, Alters, Active, Starting
    <3>8. ASSUME NEW d \in Commands PROVE Forgettable(d)'
      BY <1>0, <3>1, <3>2, <3>3, <3>4 DEF Alone, Forgettable, Known, Alters, Active
    <3> QED BY <3>5, <3>6, <3>7, <3>8 DEF Alone
  <2> QED BY <1>8, <2>1, <2>2 DEF Composed
<1>9. ASSUME NEW c \in Commands, Confirm(c) PROVE Alone'
  <2>1. CASE Files /\ Goto(c, "catch")
    BY <1>0, <1>9, <2>1, Goes, Onwards DEF Confirm, At, Docker, Files, Others, Active, Pcs, Upping
  <2>2. CASE Saved(c) /\ Goto(c, "status")
    BY <1>0, <1>9, <2>2, Goes, SavesMind DEF Confirm, At, Docker, Others, Pcs, Upping
  <2> QED BY <1>9, <2>1, <2>2 DEF Confirm
<1>10. ASSUME NEW c \in Commands, Status(c) PROVE Alone'
  <2>1. CASE Ends(c)
    BY <1>0, <1>10, <2>1, Rests, Onwards DEF Status, Docker, Files, Others
  <2>2. CASE Goto(c, "catch")
    BY <1>0, <1>10, <2>2, Goes, Onwards DEF Status, At, Docker, Files, Others, Active, Pcs, Upping
  <2> QED BY <1>10, <2>1, <2>2 DEF Status
<1>11. ASSUME NEW c \in Commands, Catch(c) PROVE Alone'
  BY <1>0, <1>11, Goes, SavesMind DEF Catch, At, Docker, Others, Pcs
<1>12. ASSUME NEW c \in Commands, command[c].pc \in {"none", "reread"}, file # NoFile, Alters(c), command'[c].pc = "look", command'[c].mem = file,
              UNCHANGED <<file, credential, there, coming, told, started>>
       PROVE  Alone'
  <2>1. file.project = started /\ started # 0 /\ (~file.unknown => Known) /\ Left' = Left
    BY <1>0, <1>12 DEF Alone, OneProject, Known, Left
  <2>2. \A d \in Commands : command[d].pc \notin {"secure", "record"}
    BY <1>0, <1>12 DEF Alone, Unrecorded
  <2>3. OneProject' /\ OneUp'
    BY <1>0, <1>12, <2>1 DEF Alone, OneProject, OneUp, Alters, Active, Upping, Starting
  <2>4. OverOnceKnown' /\ Accounted'
    BY <1>0, <1>12, <2>1 DEF Alone, OverOnceKnown, Known, Accounted, Left, Alters, Active, Starting
  <2>5. ASSUME NEW d \in Commands PROVE Unrecorded(d)' /\ Recorded(d)' /\ Forgettable(d)'
    BY <1>0, <1>12, <2>2 DEF Alone, Unrecorded, Recorded, Forgettable, Alters, Starting
  <2> QED BY <2>3, <2>4, <2>5 DEF Alone
<1>13. ASSUME NEW c \in Commands, BeginDown(c) PROVE Alone'
  <2>1. PICK ack \in BOOLEAN : Takes(c, [pc |-> "look", mem |-> file, ack |-> ack])
    BY <1>13 DEF BeginDown
  <2>2. [pc |-> "look", mem |-> file, ack |-> ack] \in Kept
    BY <1>0 DEF StackTyped, Kept, Pcs
  <2>3. command' = [command EXCEPT ![c] = [pc |-> "look", mem |-> file, ack |-> ack]]
    BY <2>1 DEF Takes
  <2>4. Alters(c) /\ command'[c] = [pc |-> "look", mem |-> file, ack |-> ack]
    BY <1>0, <2>2, <2>3, Keeps
  <2>5. command'[c].pc = "look" /\ command'[c].mem = file
    BY <2>4
  <2> QED BY <1>12, <1>13, <2>1, <2>4, <2>5 DEF BeginDown, Takes, At, Docker, Files, Others
<1>14. ASSUME NEW c \in Commands, Reread(c) PROVE Alone'
  <2>1. CASE Ends(c)
    BY <1>0, <1>14, <2>1, Rests, Onwards DEF Reread, Docker, Files, Others
  <2>2. CASE file # NoFile /\ Is(c, [pc |-> "look", mem |-> file, ack |-> FALSE])
    <3>1. [pc |-> "look", mem |-> file, ack |-> FALSE] \in Kept
      BY <1>0 DEF StackTyped, Kept, Pcs
    <3>2. command' = [command EXCEPT ![c] = [pc |-> "look", mem |-> file, ack |-> FALSE]]
      BY <2>2 DEF Is
    <3>3. Alters(c) /\ command'[c] = [pc |-> "look", mem |-> file, ack |-> FALSE]
      BY <1>0, <3>1, <3>2, Keeps
    <3>4. command'[c].pc = "look" /\ command'[c].mem = file
      BY <3>3
    <3> QED BY <1>12, <1>14, <2>2, <3>3, <3>4 DEF Reread, At, Docker, Files, Others
  <2> QED BY <1>14, <2>1, <2>2 DEF Reread
<1>15. ASSUME NEW c \in Commands, Look(c) PROVE Alone'
  <2>1. CASE Ends(c)
    BY <1>0, <1>15, <2>1, Rests, Onwards DEF Look, Docker, Files, Others
  <2>2. ASSUME NEW pc \in {"remove", "check"}, Goto(c, pc) PROVE Alone'
    BY <1>0, <1>15, <2>2, Goes, Onwards DEF Look, At, Docker, Files, Others, Active, Pcs
  <2> QED BY <1>15, <2>1, <2>2 DEF Look
<1>16. ASSUME NEW c \in Commands, Remove(c) PROVE Alone'
  <2>1. ASSUME NEW pc \in {"check", "keep"}, Goto(c, pc) PROVE Alone'
    BY <1>0, <1>16, <2>1, Goes, Onwards DEF Remove, At, Files, Others, Active, Pcs
  <2> QED BY <1>16, <2>1 DEF Remove
<1>17. ASSUME NEW c \in Commands, Check(c) PROVE Alone'
  <2>1. CASE Goto(c, "keep") /\ UNCHANGED told
    BY <1>0, <1>17, <2>1, Goes, Onwards DEF Check, At, Docker, Files, Active, Pcs
  <2>2. CASE command[c].mem.project \notin there /\ ~MustKeep(c) /\ Goto(c, "forget") /\ told' = told \cup GivenUp(c)
    <3>1. Alters(c) /\ command'[c].pc = "forget" /\ command'[c].mem = command[c].mem
      BY <1>0, <2>2, Goes DEF Pcs
    <3>2. /\ Active(c) /\ command[c].pc = "check" /\ command[c].mem.project = started /\ UNCHANGED <<file, credential, there, coming, started>>
      BY <1>0, <1>17 DEF Check, At, Docker, Files, Active, Alone, OneProject
    <3>3. /\ told \subseteq told' /\ told' \subseteq told \cup {started} /\ started \notin there
          /\ (command[c].mem.unknown => started \in told')
      BY <2>2, <3>2 DEF MustKeep, GivenUp
    <3>4. Left' \subseteq Left /\ coming' \ told' \subseteq coming \ told
      BY <3>2, <3>3 DEF Left
    <3>5. OneProject' /\ OneUp'
      BY <1>0, <3>1, <3>2, <3>3, <3>4 DEF StackTyped, Alone, OneProject, OneUp, Alters, Active, Upping, Starting
    <3>6. OverOnceKnown' /\ Accounted'
      BY <1>0, <3>1, <3>2, <3>4 DEF Alone, OverOnceKnown, Known, Accounted, Alters, Active, Starting
    <3>7. ASSUME NEW d \in Commands PROVE Unrecorded(d)' /\ Recorded(d)'
      BY <1>0, <3>1, <3>2, <3>3, <3>4 DEF Alone, Unrecorded, Recorded, Alters, Active, Starting
    <3>8. ASSUME NEW d \in Commands PROVE Forgettable(d)'
      BY <1>0, <3>1, <3>2, <3>3 DEF Alone, Forgettable, Alters
    <3> QED BY <3>5, <3>6, <3>7, <3>8 DEF Alone
  <2> QED BY <1>17, <2>1, <2>2 DEF Check
<1>18. ASSUME NEW c \in Commands, Keep(c) PROVE Alone'
  BY <1>0, <1>18, Rests, SavesMind DEF Keep, At, Docker, Others
<1>19. ASSUME NEW c \in Commands, Forget(c) PROVE Alone'
  <2>1. Alters(c) /\ command'[c].pc = "unlink" /\ command'[c].mem = command[c].mem
    BY <1>0, <1>19, Goes DEF Forget, Pcs
  <2>2. command[c].pc = "forget" /\ UNCHANGED <<file, there, coming, told, started>> /\ Left = {} /\ Left' = {} /\ Active(c)
    BY <1>0, <1>19, NothingLeft DEF Forget, At, Docker, Others, Left
  <2>3. \A d \in Commands : command[d].pc \notin {"secure", "record"} /\ (command[d].pc \in Starting => started \in told)
    BY <1>0, <2>2, NothingLeft
  <2>4. OneProject' /\ OneUp' /\ (Known' <=> Known)
    BY <1>0, <2>1, <2>2 DEF Alone, OneProject, OneUp, Known, Alters, Active, Upping, Starting
  <2>5. OverOnceKnown' /\ Accounted'
    BY <1>0, <2>1, <2>2, <2>4 DEF Alone, OverOnceKnown, Accounted, Left, Alters, Starting
  <2>6. ASSUME NEW d \in Commands PROVE Unrecorded(d)' /\ Recorded(d)' /\ Forgettable(d)'
    BY <1>0, <2>1, <2>2, <2>3 DEF Alone, Unrecorded, Recorded, Forgettable, Alters, Starting
  <2> QED BY <2>4, <2>5, <2>6 DEF Alone
<1>20. ASSUME NEW c \in Commands, Unlink(c) PROVE Alone'
  <2>1. Alters(c) /\ command'[c].pc = "none"
    BY <1>0, <1>20, Rests DEF Unlink
  <2>2. command[c].pc = "unlink" /\ file' = NoFile /\ UNCHANGED <<credential, there, coming, told, started>> /\ Left = {} /\ Left' = {}
    BY <1>0, <1>20, NothingLeft DEF Unlink, At, Docker, Others, Left
  <2>3. \A d \in Commands : command[d].pc \notin {"secure", "record"} /\ (command[d].pc \in Starting => started \in told)
    BY <1>0, <2>2, NothingLeft
  <2>4. OneProject' /\ OneUp' /\ (Known' => Known)
    BY <1>0, <2>1, <2>2 DEF Alone, OneProject, OneUp, Known, Alters, Active, Upping, Starting
  <2>5. OverOnceKnown' /\ Accounted'
    BY <1>0, <2>1, <2>2, <2>4 DEF Alone, OverOnceKnown, Accounted, Left, Alters, Starting
  <2>6. ASSUME NEW d \in Commands PROVE Unrecorded(d)' /\ Recorded(d)' /\ Forgettable(d)'
    BY <1>0, <2>1, <2>2, <2>3 DEF Alone, Unrecorded, Recorded, Forgettable, Alters, Starting
  <2> QED BY <2>4, <2>5, <2>6 DEF Alone
<1>21. CASE UNCHANGED stackVars
  BY <1>0, <1>21 DEF stackVars, Alone, OneProject, OneUp, OverOnceKnown, Accounted, Known, Unrecorded, Recorded, Forgettable, Active, Left
<1> QED
  BY <1>1, <1>2, <1>3, <1>4, <1>5, <1>6, <1>7, <1>8, <1>9, <1>10, <1>11, <1>13, <1>14, <1>15, <1>16, <1>17, <1>18, <1>19, <1>20, <1>21 DEF StackNext

(* However many commands run, are cut off or lose their lock, for any       *)
(* number of projects: what the daemon has or may still make is the file's, *)
(* until the user gives it up, and can be removed, as long as no up begins  *)
(* while an earlier command goes on without its lock.                      *)
THEOREM NothingEverUnaccounted == StackSpec => []NothingUnaccounted
<1>1. StackInv => NothingUnaccounted
  BY DEF StackInv, Alone, Accounted, NothingUnaccounted, AllAccounted, Left
<1> QED BY <1>1, StackStart, StackStep, PTL DEF StackSpec
(***************************************************************************)
(* The organization page: work that still counts was started for the        *)
(* session the page goes by, and while a switch is awaited nothing is shown.*)
(***************************************************************************)
PageSpec == PageInit /\ [][PageNext]_pageVars

Sessions == [token : Nat, version : Nat, org : Orgs \cup {Nothing}]
OrgOr == Orgs \cup {Nothing}
MemberOf == OrgOr \X Nat
Views ==
  [me : OrgOr, lists : OrgOr, results : OrgOr, audit : OrgOr \X (Kinds \cup {Nothing}), kind : Kinds, invite : OrgOr,
   ticket : OrgOr, target : MemberOf, state : MemberOf, result : MemberOf, pending : MemberOf]

(* What is left of a piece of work, at any time.                           *)
Answers == {"capabilities", "session", "self", "lists", "login", "logout", "switch", "search", "audit", "inspect", "hold"}
Todos ==
  {<<>>} \cup {<<x>> : x \in Answers}
  \cup {"accept", "write", "connect", "withdraw", "invite"} \X {"session", "self"}
Pieces == [todo : Todos, as : Sessions, to : OrgOr, stale : BOOLEAN]

PageTyped ==
  /\ cookie \in Sessions /\ auth \in Sessions /\ view \in Views
  /\ work \in [boot : Pieces, user : Pieces] /\ tokens \in Nat

(* Two pieces of work are never both awaited for what they bring.           *)
OneCounts ==
  /\ ~work.user.stale
  /\ work.user.todo # <<>> => work.boot.todo = <<>> \/ work.boot.stale

AsAuth ==
  /\ work.user.todo # <<>> => work.user.as = auth
  /\ work.boot.todo # <<>> /\ ~work.boot.stale => work.boot.as = auth

BlankWhileSwitching == work.user.todo = <<"switch">> => view = Blank

PageInv == PageTyped /\ OneCounts /\ AsAuth /\ BlankWhileSwitching /\ OneOrganizationShown
(* What is shown, item by item.                                            *)
Shown(v, org) ==
  /\ v.me \in {Nothing, org} /\ v.lists \in {Nothing, org} /\ v.results \in {Nothing, org}
  /\ v.invite \in {Nothing, org} /\ v.ticket \in {Nothing, org}
  /\ v.audit # NoEvents => v.audit = <<org, v.kind>>
  /\ v.target # NoMember => v.target[1] = org
  /\ v.state \in {NoMember, v.target} /\ v.result \in {NoMember, v.target} /\ v.pending \in {NoMember, v.target}

LEMMA ShownItems ==
  /\ OneOrganizationShown <=> Shown(view, auth.org)
  /\ OneOrganizationShown' <=> Shown(view', auth'.org)
  BY DEF OneOrganizationShown, Shown

LEMMA BlankShown == Blank \in Views /\ Cleared = Blank /\ \A org : Shown(Blank, org)
  BY DEF Cleared, Blank, Views, Shown, NoMember, NoEvents, OrgOr, MemberOf, Kinds

LEMMA TodoShape ==
  ASSUME NEW t \in Todos, t # <<>>
  PROVE  /\ Len(t) # 1 => Tail(t) \in Todos /\ Tail(t) # <<>> /\ Tail(t) # <<"switch">>
         /\ Head(t) \in {"switch", "logout"} => Len(t) = 1 /\ t = <<Head(t)>>
<1>1. CASE \E x \in Answers : t = <<x>>
  BY <1>1
<1>2. ASSUME NEW x \in {"accept", "write", "connect", "withdraw", "invite"}, NEW y \in {"session", "self"}, t = <<x, y>>
      PROVE  Len(t) = 2 /\ Tail(t) = <<y>> /\ Head(t) = x /\ Tail(t) \in Todos /\ Tail(t) # <<>> /\ Tail(t) # <<"switch">>
  <2>1. Len(t) = 2 /\ Tail(t) = <<y>> /\ Head(t) = x
    BY <1>2
  <2>2. y \in Answers
    BY DEF Answers
  <2>3. <<y>> # <<>> /\ <<y>> # <<"switch">>
    OBVIOUS
  <2> QED BY <2>1, <2>2, <2>3 DEF Todos
<1>3. CASE t \in {"accept", "write", "connect", "withdraw", "invite"} \X {"session", "self"}
  <2>1. t = <<t[1], t[2]>> /\ t[1] \in {"accept", "write", "connect", "withdraw", "invite"} /\ t[2] \in {"session", "self"}
    BY <1>3
  <2> QED BY <1>2, <2>1
<1>4. CASE t \notin {"accept", "write", "connect", "withdraw", "invite"} \X {"session", "self"}
  <2>1. t \in {<<x>> : x \in Answers}
    BY <1>4 DEF Todos
  <2> QED BY <1>1, <2>1
<1> QED BY <1>3, <1>4

LEMMA IdlePiece == Idle \in Pieces /\ Idle.todo = <<>> /\ ~Idle.stale /\ LoggedOut \in Sessions /\ <<>> # <<"switch">>
  BY DEF Idle, Pieces, Todos, LoggedOut, Sessions, OrgOr

Works == [boot : Pieces, user : Pieces]

LEMMA WorkAt ==
  ASSUME work \in Works, NEW c \in {"boot", "user"}, NEW q \in Pieces, work' = [work EXCEPT ![c] = q]
  PROVE  work' \in Works /\ work'[c] = q /\ \A d \in {"boot", "user"} \ {c} : work'[d] = work[d]
  BY DEF Works

(* Work is started, for the session the page goes by.                      *)
LEMMA WorkStarted ==
  ASSUME PageInv, UNCHANGED auth, NEW todo \in Todos \ {<<>>}, NEW org \in OrgOr, RunTo(todo, org)
  PROVE  work' \in Works /\ OneCounts' /\ AsAuth' /\ work'.user.todo = todo /\ work.user.todo = <<>>
<1> DEFINE u == [todo |-> todo, as |-> auth, to |-> org, stale |-> FALSE]
           b == IF work.boot = Idle THEN Idle ELSE [work.boot EXCEPT !.stale = TRUE]
<1>1. work' = [boot |-> b, user |-> u] /\ work.user.todo = <<>>
  BY DEF RunTo, Busy
<1>2. work.boot \in Pieces /\ auth \in Sessions
  BY DEF PageInv, PageTyped
<1>3. u \in Pieces
  BY <1>2 DEF Pieces
<1>4. b \in Pieces /\ (b.todo = <<>> \/ b.stale)
  BY <1>2, IdlePiece DEF Pieces
<1> QED BY <1>1, <1>3, <1>4 DEF Works, OneCounts, AsAuth

(* An answer is taken, and work goes on for the same session or is over.    *)
LEMMA WorkAdvanced ==
  ASSUME PageInv, NEW c \in {"boot", "user"}, work[c].todo # <<>>, ~work[c].stale, Next1(c),
         UNCHANGED auth \/ Head1(c) = "logout"
  PROVE  work' \in Works /\ OneCounts' /\ AsAuth' /\ work'.user.todo # <<"switch">>
<1> DEFINE p == work[c]
           q == IF Len(p.todo) = 1 THEN Idle ELSE [p EXCEPT !.todo = Tail(p.todo)]
<1>1. work \in Works /\ p \in Pieces
  BY DEF PageInv, PageTyped, Works
<1>2. p.todo \in Todos /\ p.todo # <<>>
  BY <1>1 DEF Pieces
<1>3. /\ Len(p.todo) # 1 => Tail(p.todo) \in Todos /\ Tail(p.todo) # <<>> /\ Tail(p.todo) # <<"switch">>
      /\ Head(p.todo) = "logout" => Len(p.todo) = 1
  BY <1>2, TodoShape
<1>4. q \in Pieces /\ q.todo # <<"switch">> /\ (q.todo # <<>> => q.as = p.as /\ q.stale = p.stale)
  <2>1. CASE Len(p.todo) = 1
    BY <2>1, IdlePiece
  <2>2. CASE Len(p.todo) # 1
    <3>1. q = [p EXCEPT !.todo = Tail(p.todo)]
      BY <2>2
    <3> QED BY <1>1, <1>3, <2>2, <3>1 DEF Pieces
  <2> QED BY <2>1, <2>2
<1>5. work' = [work EXCEPT ![c] = q]
  BY <1>1 DEF Next1, Works
<1>6. work' \in Works /\ work'[c] = q /\ \A d \in {"boot", "user"} \ {c} : work'[d] = work[d]
  BY <1>1, <1>4, <1>5, WorkAt
<1>7. Head1(c) = "logout" => q.todo = <<>>
  BY <1>3, IdlePiece DEF Head1
<1>8. ~q.stale
  BY <1>3, IdlePiece, <1>1 DEF Idle, Pieces
<1>9. CASE c = "boot"
  <2>1. work.user.todo = <<>> /\ work'.user = work.user /\ work'.boot = q
    BY <1>6, <1>9 DEF PageInv, OneCounts
  <2>2. work'.user.todo # <<"switch">>
    BY <2>1, IdlePiece
  <2> QED BY <1>4, <1>6, <1>7, <1>9, <2>1, <2>2 DEF PageInv, OneCounts, AsAuth
<1>10. CASE c = "user"
  <2>1. work.boot.todo = <<>> \/ work.boot.stale
    BY <1>10 DEF PageInv, OneCounts
  <2>2. work'.boot = work.boot /\ work'.user = q
    BY <1>6, <1>10
  <2> QED BY <1>4, <1>6, <1>7, <1>8, <1>10, <2>1, <2>2 DEF PageInv, OneCounts, AsAuth
<1> QED BY <1>9, <1>10

(* Other work follows, for the session the page goes by then.              *)
LEMMA WorkFollows ==
  ASSUME PageInv, NEW c \in {"boot", "user"}, work[c].todo # <<>>, ~work[c].stale,
         NEW todo \in Todos \ {<<"switch">>}, NEW s \in Sessions, Then(c, todo, s), auth' = s
  PROVE  work' \in Works /\ OneCounts' /\ AsAuth' /\ work'.user.todo # <<"switch">>
<1> DEFINE q == IF todo = <<>> THEN Idle ELSE [Idle EXCEPT !.todo = todo, !.as = s]
<1>1. work \in Works
  BY DEF PageInv, PageTyped, Works
<1>2. q \in Pieces /\ q.todo # <<"switch">> /\ (q.todo # <<>> => q.as = s) /\ ~q.stale
  BY IdlePiece DEF Pieces, Idle
<1>3. work' = [work EXCEPT ![c] = q]
  BY DEF Then
<1>4. work' \in Works /\ work'[c] = q /\ \A d \in {"boot", "user"} \ {c} : work'[d] = work[d]
  BY <1>1, <1>2, <1>3, WorkAt
<1>5. CASE c = "boot"
  <2>1. work.user.todo = <<>> /\ work'.user = work.user /\ work'.boot = q
    BY <1>4, <1>5 DEF PageInv, OneCounts
  <2>2. work'.user.todo # <<"switch">>
    BY <2>1, IdlePiece
  <2> QED BY <1>2, <1>4, <2>1, <2>2 DEF PageInv, OneCounts, AsAuth
<1>6. CASE c = "user"
  <2>1. work.boot.todo = <<>> \/ work.boot.stale
    BY <1>6 DEF PageInv, OneCounts
  <2>2. work'.boot = work.boot /\ work'.user = q
    BY <1>4, <1>6
  <2> QED BY <1>2, <1>4, <2>1, <2>2 DEF PageInv, OneCounts, AsAuth
<1> QED BY <1>5, <1>6
LEMMA TodoNames ==
  /\ \A x \in Answers : <<x>> \in Todos \ {<<>>}
  /\ \A x \in Answers \ {"switch"} : <<x>> \in Todos \ {<<"switch">>}
  /\ <<>> \in Todos \ {<<"switch">>}
  /\ Refreshing = <<"session">> /\ Loading = <<"self">>
  /\ \A x \in {"accept", "write", "connect", "withdraw", "invite"}, y \in {"session", "self"} :
       <<x>> \o <<y>> \in Todos \ {<<>>} /\ <<x>> \o <<y>> # <<"switch">>
<1>1. ASSUME NEW x \in Answers PROVE <<x>> \in Todos \ {<<>>}
  BY DEF Todos
<1>2. ASSUME NEW x \in Answers \ {"switch"} PROVE <<x>> \in Todos \ {<<"switch">>}
  <2>1. <<x>> # <<"switch">>
    OBVIOUS
  <2> QED BY <1>1, <2>1
<1>3. <<>> \in Todos \ {<<"switch">>}
  BY IdlePiece DEF Todos
<1>4. ASSUME NEW x \in {"accept", "write", "connect", "withdraw", "invite"}, NEW y \in {"session", "self"}
      PROVE  <<x>> \o <<y>> \in Todos \ {<<>>} /\ <<x>> \o <<y>> # <<"switch">>
  <2> DEFINE S == {x, y}
  <2>1. <<x>> \o <<y>> = <<x, y>>
    <3>1. <<x>> \in Seq(S) /\ <<y>> \in Seq(S) /\ <<x, y>> \in Seq(S)
      OBVIOUS
    <3> HIDE DEF S
    <3>2. /\ <<x>> \o <<y>> \in Seq(S) /\ Len(<<x>> \o <<y>>) = 2
          /\ (<<x>> \o <<y>>)[1] = x /\ (<<x>> \o <<y>>)[2] = y
      BY <3>1, ConcatProperties
    <3>3. \A i \in 1..2 : (<<x>> \o <<y>>)[i] = <<x, y>>[i]
      BY <3>2
    <3>4. Len(<<x, y>>) = 2
      OBVIOUS
    <3> QED BY <3>1, <3>2, <3>3, <3>4, SeqEqual
  <2>2. <<x, y>> \in Todos
    BY DEF Todos
  <2>3. <<x, y>> # <<>> /\ <<x, y>> # <<"switch">>
    OBVIOUS
  <2> QED BY <2>1, <2>2, <2>3
<1> QED BY <1>1, <1>2, <1>3, <1>4 DEF Refreshing, Loading

LEMMA ViewShown == PageInv => view \in Views /\ Shown(view, auth.org)
  BY ShownItems DEF PageInv, PageTyped

(* What is clicked keeps what is shown of the organization the page names.  *)
LEMMA AfterClick ==
  ASSUME PageInv, UNCHANGED <<cookie, auth, cap, tokens>>, NEW todo \in Todos \ {<<>>}, NEW org \in OrgOr, RunTo(todo, org),
         view' \in Views, Shown(view', auth.org), todo = <<"switch">> => view' = Blank
  PROVE  PageInv'
<1>1. work' \in Works /\ OneCounts' /\ AsAuth' /\ work'.user.todo = todo
  BY WorkStarted
<1>2. OneOrganizationShown'
  BY ShownItems
<1> QED BY <1>1, <1>2 DEF PageInv, PageTyped, BlankWhileSwitching, Works

(* So does an answer, of work that goes on or is over,                     *)
LEMMA AfterAnswer ==
  ASSUME PageInv, NEW c \in {"boot", "user"}, work[c].todo # <<>>, ~work[c].stale, Next1(c), UNCHANGED auth \/ Head1(c) = "logout",
         cookie' \in Sessions, auth' \in Sessions, tokens' \in Nat, view' \in Views, Shown(view', auth'.org)
  PROVE  PageInv'
<1>1. work' \in Works /\ OneCounts' /\ AsAuth' /\ work'.user.todo # <<"switch">>
  BY WorkAdvanced
<1>2. OneOrganizationShown'
  BY ShownItems
<1> QED BY <1>1, <1>2 DEF PageInv, PageTyped, BlankWhileSwitching, Works

(* and one that other work follows.                                        *)
LEMMA BeforeMore ==
  ASSUME PageInv, NEW c \in {"boot", "user"}, work[c].todo # <<>>, ~work[c].stale,
         NEW todo \in Todos \ {<<"switch">>}, NEW s \in Sessions, Then(c, todo, s), auth' = s,
         cookie' \in Sessions, tokens' \in Nat, view' \in Views, Shown(view', auth'.org)
  PROVE  PageInv'
<1>1. work' \in Works /\ OneCounts' /\ AsAuth' /\ work'.user.todo # <<"switch">>
  BY WorkFollows
<1>2. OneOrganizationShown'
  BY ShownItems
<1> QED BY <1>1, <1>2 DEF PageInv, PageTyped, BlankWhileSwitching, Works

(* An answer that is awaited is for the session the page goes by.           *)
LEMMA AwaitedIsAuth ==
  ASSUME PageInv, NEW c \in {"boot", "user"}, NEW what, Awaits(c, what)
  PROVE  work[c].todo # <<>> /\ ~work[c].stale /\ Head1(c) = what /\ work[c].as = auth /\ auth \in Sessions
  BY DEF PageInv, PageTyped, AsAuth, Awaits

(* A session that is entered shows nothing of another.                     *)
LEMMA Entered ==
  ASSUME PageInv, NEW c \in {"boot", "user"}, work[c].todo # <<>>, ~work[c].stale, NEW s \in Sessions, Enter(c, s),
         view' = Blank, cookie' \in Sessions, tokens' \in Nat
  PROVE  PageInv'
<1>1. "self" \in Answers \ {"switch"}
  BY DEF Answers
<1>2. (IF s.org = Nothing THEN <<>> ELSE Loading) \in Todos \ {<<"switch">>}
  BY <1>1, TodoNames
<1>3. Then(c, IF s.org = Nothing THEN <<>> ELSE Loading, s) /\ auth' = s
  BY DEF Enter
<1> QED BY <1>2, <1>3, BeforeMore, BlankShown

LEMMA PageStart == PageInit => PageInv
<1> SUFFICES ASSUME PageInit PROVE PageInv
  OBVIOUS
<1>1. view = Blank /\ tokens \in Nat /\ auth \in Sessions /\ view \in Views
  BY BlankShown, IdlePiece DEF PageInit
<1>2. cookie \in Sessions
  BY IdlePiece DEF PageInit, Session, Sessions
<1>3. <<"capabilities">> \in Todos
  BY DEF Todos, Answers
<1>4. work \in Works /\ work.user = Idle /\ ~work.boot.stale /\ work.boot.as = LoggedOut /\ auth = LoggedOut
  BY <1>3, IdlePiece DEF PageInit, Works, Pieces, Idle
<1>5. OneOrganizationShown
  BY <1>1, BlankShown, ShownItems
<1> QED BY <1>1, <1>2, <1>4, <1>5, IdlePiece DEF PageInv, PageTyped, OneCounts, AsAuth, BlankWhileSwitching, Works
LEMMA ClickStep == PageInv /\ Click => PageInv'
<1> SUFFICES ASSUME PageInv, Click PROVE PageInv'
  OBVIOUS
<1>1. UNCHANGED <<cookie, auth, cap, tokens>> /\ auth \in Sessions /\ auth.org \in OrgOr /\ Nothing \in OrgOr
  BY DEF Click, PageInv, PageTyped, Sessions, OrgOr
<1>2. view \in Views /\ Shown(view, auth.org) /\ view.state \in MemberOf
  BY ViewShown DEF Views
<1>3. NoMember \in MemberOf /\ NoEvents \in OrgOr \X (Kinds \cup {Nothing})
  BY DEF NoMember, NoEvents, MemberOf, OrgOr
<1>4. ASSUME NEW x \in Answers \ {"switch"}, Run(<<x>>), view' \in Views, Shown(view', auth.org) PROVE PageInv'
  BY <1>1, <1>4, AfterClick, TodoNames DEF Run
<1>5. ASSUME NEW x \in {"accept", "write", "connect", "withdraw", "invite"}, NEW y \in {"session", "self"}, Run(<<x>> \o <<y>>),
             view' \in Views, Shown(view', auth.org)
      PROVE  PageInv'
  BY <1>1, <1>5, AfterClick, TodoNames DEF Run
<1>6. CASE LogsIn \/ LogsOut \/ Refreshes \/ Searches
  BY <1>2, <1>4, <1>6, TodoNames DEF LogsIn, LogsOut, Refreshes, Searches, Starts, Answers
<1>7. CASE Accepts \/ Saves \/ Connects \/ Withdraws
  BY <1>2, <1>5, <1>7, TodoNames DEF Accepts, Saves, Connects, Withdraws, Starts
<1>8. CASE Switches
  <2>1. PICK o \in Orgs : RunTo(<<"switch">>, o)
    BY <1>8 DEF Switches
  <2>2. view' = Blank /\ view' \in Views /\ Shown(view', auth.org)
    BY <1>8, BlankShown DEF Switches
  <2>3. <<"switch">> \in Todos \ {<<>>} /\ o \in OrgOr
    BY TodoNames DEF Answers, OrgOr
  <2> QED BY <1>1, <2>1, <2>2, <2>3, AfterClick
<1>9. CASE Invites
  <2>1. view' = [view EXCEPT !.invite = IF view.invite = Nothing THEN auth.org ELSE view.invite]
    BY <1>9 DEF Invites
  <2>2. view' \in Views /\ Shown(view', auth.org)
    BY <1>1, <1>2, <2>1 DEF Views, Shown
  <2> QED BY <1>5, <1>9, <2>2, TodoNames DEF Invites
<1>10. CASE Audits
  <2>1. view' = [view EXCEPT !.audit = NoEvents]
    BY <1>10 DEF Audits
  <2>2. view' \in Views /\ Shown(view', auth.org)
    BY <1>2, <1>3, <2>1 DEF Views, Shown
  <2> QED BY <1>4, <1>10, <2>2 DEF Audits, Answers
<1>11. CASE Inspects
  <2>1. view' = [view EXCEPT !.state = NoMember, !.result = NoMember]
    BY <1>11 DEF Inspects
  <2>2. view' \in Views /\ Shown(view', auth.org)
    BY <1>2, <1>3, <2>1 DEF Views, Shown
  <2> QED BY <1>4, <1>11, <2>2 DEF Inspects, Answers
<1>12. CASE Holds
  <2>1. view' = [view EXCEPT !.state = NoMember, !.result = NoMember, !.audit = NoEvents,
                            !.pending = IF view.state # NoMember THEN view.target ELSE view.pending]
    BY <1>12 DEF Holds
  <2>2. view' \in Views /\ Shown(view', auth.org)
    BY <1>2, <1>3, <2>1 DEF Views, Shown
  <2> QED BY <1>4, <1>12, <2>2 DEF Holds, Answers
<1> QED BY <1>6, <1>7, <1>8, <1>9, <1>10, <1>11, <1>12 DEF Click

(* What is chosen starts nothing.                                          *)
LEMMA ChooseStep == PageInv /\ Choose => PageInv'
<1> SUFFICES ASSUME PageInv, Choose PROVE PageInv'
  OBVIOUS
<1>1. UNCHANGED <<cookie, auth, cap, work, tokens>> /\ view.lists = auth.org /\ auth.org \in OrgOr /\ view.lists # Nothing
  BY ViewShown DEF Choose, Owner, Shown, PageInv, PageTyped, Sessions, OrgOr
<1>2. view \in Views /\ Shown(view, auth.org)
  BY ViewShown
<1>3. NoMember \in MemberOf /\ NoEvents \in OrgOr \X (Kinds \cup {Nothing})
  BY DEF NoMember, NoEvents, MemberOf, OrgOr
<1>4. work.user.todo # <<"switch">>
  <2>1. Blank.lists = Nothing
    BY DEF Blank
  <2> QED BY <1>1, <2>1 DEF PageInv, BlankWhileSwitching
<1>5. SUFFICES view' \in Views /\ Shown(view', auth.org)
  BY <1>1, <1>4, <1>5, ShownItems DEF PageInv, PageTyped, OneCounts, AsAuth, BlankWhileSwitching
<1>6. CASE ChooseMember
  <2>1. PICK n \in 1..2 : view' = [view EXCEPT !.target = <<auth.org, n>>, !.state = NoMember, !.result = NoMember, !.pending = NoMember]
    BY <1>1, <1>6 DEF ChooseMember
  <2>2. <<auth.org, n>> \in MemberOf
    BY <1>1 DEF MemberOf
  <2> QED BY <1>2, <1>3, <2>1, <2>2 DEF Views, Shown
<1>7. CASE ChooseKind
  <2>1. PICK k \in Kinds : view' = [view EXCEPT !.kind = k, !.audit = NoEvents]
    BY <1>7 DEF ChooseKind
  <2> QED BY <1>2, <1>3, <2>1 DEF Views, Shown
<1>8. CASE Edit
  BY <1>2, <1>8 DEF Edit, Views, Shown, OrgOr
<1> QED BY <1>6, <1>7, <1>8 DEF Choose
(* An answer to a read, or to a write, shows what it is of.                 *)
LEMMA AnswerStep ==
  PageInv /\ (Searched \/ Audited \/ Inspected \/ Written \/ Accepted \/ LoggedOff) => PageInv'
<1> SUFFICES ASSUME PageInv, Searched \/ Audited \/ Inspected \/ Written \/ Accepted \/ LoggedOff PROVE PageInv'
  OBVIOUS
<1>1. cookie \in Sessions /\ auth \in Sessions /\ auth.org \in OrgOr /\ Nothing \in OrgOr /\ tokens \in Nat
  BY DEF PageInv, PageTyped, Sessions, OrgOr
<1>2. view \in Views /\ Shown(view, auth.org)
  BY ViewShown
<1>3. NoMember \in MemberOf
  BY DEF NoMember, MemberOf, OrgOr
<1>4. ASSUME NEW what, NEW v, Read(what, v) \/ Write(what, v), v \in Views, Shown(v, auth.org) PROVE PageInv'
  <2>1. Awaits("user", what) /\ UNCHANGED <<cookie, tokens, auth>> /\ view' = v /\ Next1("user")
    BY <1>4 DEF Read, Write, Show
  <2> QED BY <1>1, <1>4, <2>1, AwaitedIsAuth, AfterAnswer
<1>5. ASSUME NEW what, NEW v, Read(what, v) \/ Write(what, v) PROVE work.user.as.org = auth.org
  BY <1>5, AwaitedIsAuth DEF Read, Write
<1>6. CASE Searched
  <2>1. [view EXCEPT !.results = work.user.as.org] \in Views /\ Shown([view EXCEPT !.results = work.user.as.org], auth.org)
    BY <1>1, <1>2, <1>5, <1>6 DEF Searched, Views, Shown
  <2> QED BY <1>4, <1>6, <2>1 DEF Searched
<1>7. CASE Audited
  <2> DEFINE v == [view EXCEPT !.audit = <<auth.org, view.kind>>]
  <2>1. Read("audit", v)
    BY <1>5, <1>7 DEF Audited
  <2>2. v \in Views /\ Shown(v, auth.org)
    BY <1>1, <1>2 DEF Views, Shown
  <2> QED BY <1>4, <2>1, <2>2
<1>8. CASE Inspected
  <2>1. [view EXCEPT !.state = view.target] \in Views /\ Shown([view EXCEPT !.state = view.target], auth.org)
    BY <1>2 DEF Views, Shown
  <2> QED BY <1>4, <1>8, <2>1 DEF Inspected
<1>9. CASE SettingsSaved \/ Connected
  BY <1>2, <1>4, <1>9 DEF SettingsSaved, Connected
<1>10. CASE Withdrawn
  <2>1. [view EXCEPT !.ticket = Nothing] \in Views /\ Shown([view EXCEPT !.ticket = Nothing], auth.org)
    BY <1>1, <1>2 DEF Views, Shown
  <2> QED BY <1>4, <1>10, <2>1 DEF Withdrawn
<1>11. CASE Invited
  <2>1. PICK ticket \in {work.user.as.org, Nothing} : Write("invite", [view EXCEPT !.ticket = ticket, !.invite = Nothing])
    BY <1>11 DEF Invited
  <2>2. ticket \in {auth.org, Nothing}
    BY <1>5, <2>1
  <2>3. [view EXCEPT !.ticket = ticket, !.invite = Nothing] \in Views /\ Shown([view EXCEPT !.ticket = ticket, !.invite = Nothing], auth.org)
    BY <1>1, <1>2, <2>2 DEF Views, Shown
  <2> QED BY <1>4, <2>1, <2>3
<1>12. CASE Held
  <2> DEFINE v == [view EXCEPT !.pending = NoMember, !.state = view.pending, !.result = view.pending]
  <2>1. Write("hold", v)
    BY <1>12 DEF Held
  <2>2. v \in Views /\ Shown(v, auth.org)
    BY <1>2, <1>3 DEF Views, Shown
  <2> QED BY <1>4, <2>1, <2>2
<1>13. CASE Accepted
  <2>1. Awaits("user", "accept") /\ Next1("user") /\ UNCHANGED <<auth, view>> /\ tokens' \in Nat /\ cookie' \in Session(tokens')
    BY <1>1, <1>13 DEF Accepted
  <2>2. cookie' \in Sessions
    BY <2>1 DEF Session, Sessions
  <2> QED BY <1>1, <1>2, <2>1, <2>2, AwaitedIsAuth, AfterAnswer
<1>14. CASE LoggedOff
  <2>1. /\ Awaits("user", "logout") /\ Next1("user") /\ UNCHANGED tokens
        /\ cookie' = LoggedOut /\ auth' = LoggedOut /\ view' = Blank
    BY <1>14, BlankShown DEF LoggedOff
  <2> QED BY <1>1, <2>1, AwaitedIsAuth, AfterAnswer, BlankShown, IdlePiece
<1> QED BY <1>6, <1>7, <1>8, <1>9, <1>10, <1>11, <1>12, <1>13, <1>14 DEF Written

(* Who is no owner, or is one, is told so for the session that asked.       *)
LEMMA LoadStep ==
  ASSUME PageInv, NEW c \in {"boot", "user"}, SessionRead(c) \/ SelfRead(c) \/ ListsRead(c)
  PROVE  PageInv'
<1>1. cookie \in Sessions /\ auth \in Sessions /\ auth.org \in OrgOr /\ Nothing \in OrgOr /\ tokens \in Nat
  BY DEF PageInv, PageTyped, Sessions, OrgOr
<1>2. view \in Views /\ Shown(view, auth.org)
  BY ViewShown
<1>3. CASE SessionRead(c)
  <2>1. Awaits(c, "session") /\ UNCHANGED <<cookie, tokens>> /\ view' = Blank /\ Enter(c, cookie)
    BY <1>3, BlankShown DEF SessionRead
  <2> QED BY <1>1, <2>1, AwaitedIsAuth, Entered
<1>4. CASE SelfRead(c)
  <2>1. Awaits(c, "self") /\ UNCHANGED <<cookie, tokens>> /\ work[c].as = auth
    BY <1>4, AwaitedIsAuth DEF SelfRead
  <2>2. CASE Show([view EXCEPT !.me = auth.org]) /\ Next1(c)
    <3>1. [view EXCEPT !.me = auth.org] \in Views /\ Shown([view EXCEPT !.me = auth.org], auth.org)
      BY <1>1, <1>2 DEF Views, Shown
    <3> QED BY <1>1, <2>1, <2>2, <3>1, AwaitedIsAuth, AfterAnswer DEF Show
  <2>3. CASE Then(c, <<"lists">>, auth) /\ UNCHANGED <<auth, cap, view>>
    <3>1. <<"lists">> \in Todos \ {<<"switch">>}
      BY TodoNames DEF Answers
    <3> QED BY <1>1, <1>2, <2>1, <2>3, <3>1, AwaitedIsAuth, BeforeMore
  <2> QED BY <1>4, <2>1, <2>2, <2>3 DEF SelfRead
<1>5. CASE ListsRead(c)
  <2>1. Awaits(c, "lists") /\ UNCHANGED <<cookie, tokens>> /\ work[c].as = auth
    BY <1>5, AwaitedIsAuth DEF ListsRead
  <2>2. Show([view EXCEPT !.me = auth.org, !.lists = auth.org]) /\ Next1(c)
    BY <1>5, <2>1 DEF ListsRead
  <2>3. [view EXCEPT !.me = auth.org, !.lists = auth.org] \in Views /\ Shown([view EXCEPT !.me = auth.org, !.lists = auth.org], auth.org)
    BY <1>1, <1>2 DEF Views, Shown
  <2> QED BY <1>1, <2>1, <2>2, <2>3, AwaitedIsAuth, AfterAnswer DEF Show
<1> QED BY <1>3, <1>4, <1>5

(* Work that fails is over, and may have cleared the page.                  *)
LEMMA FailStep == PageInv /\ (OtherTab \/ Fails \/ LostAfterwards \/ BootFails) => PageInv'
<1> SUFFICES ASSUME PageInv, OtherTab \/ Fails \/ LostAfterwards \/ BootFails PROVE PageInv'
  OBVIOUS
<1>1. cookie \in Sessions /\ auth \in Sessions /\ work \in Works /\ tokens \in Nat
  BY DEF PageInv, PageTyped, Works
<1>2. view \in Views /\ Shown(view, auth.org)
  BY ViewShown
<1>3. ASSUME NEW v \in Nat, NEW o \in OrgOr, cookie' = [cookie EXCEPT !.version = v, !.org = o] PROVE cookie' \in Sessions
  BY <1>1, <1>3 DEF Sessions, OrgOr
<1>4. ASSUME cookie' \in Session(tokens'), tokens' \in Nat PROVE cookie' \in Sessions
  BY <1>4 DEF Session, Sessions
<1>5. CASE OtherTab
  <2>1. UNCHANGED <<auth, cap, view, work>>
    BY <1>5 DEF OtherTab
  <2>2. cookie' \in Sessions /\ tokens' \in Nat
    <3>1. CASE cookie' = LoggedOut /\ UNCHANGED tokens
      BY <1>1, <3>1, IdlePiece
    <3>2. CASE UNCHANGED tokens /\ \E o \in Orgs : cookie' = [cookie EXCEPT !.version = cookie.version + 1, !.org = o]
      <4>1. cookie.version + 1 \in Nat
        BY <1>1 DEF Sessions
      <4> QED BY <1>1, <1>3, <3>2, <4>1 DEF OrgOr
    <3>3. CASE tokens' = tokens + 1 /\ cookie' \in Session(tokens')
      BY <1>1, <1>4, <3>3
    <3> QED BY <1>5, <3>1, <3>2, <3>3 DEF OtherTab
  <2> QED BY <2>1, <2>2 DEF PageInv, PageTyped, OneCounts, AsAuth, BlankWhileSwitching, OneOrganizationShown
<1>6. ASSUME work' = [work EXCEPT !.user = Idle], work.user.todo # <<>>, auth' \in Sessions
      PROVE  work' \in Works /\ OneCounts' /\ AsAuth' /\ work'.user.todo # <<"switch">>
  <2>1. work'.boot = work.boot /\ work'.user = Idle /\ work' \in Works
    BY <1>1, <1>6, IdlePiece DEF Works
  <2>2. work.boot.todo = <<>> \/ work.boot.stale
    BY <1>6 DEF PageInv, OneCounts
  <2> QED BY <2>1, <2>2, IdlePiece DEF OneCounts, AsAuth
<1>7. CASE Fails
  <2>1. work.user.todo # <<>> /\ work' = [work EXCEPT !.user = Idle] /\ UNCHANGED <<cookie, tokens>>
    BY <1>7 DEF Fails, Busy
  <2>2. auth' \in Sessions /\ view' \in Views /\ Shown(view', auth'.org)
    BY <1>1, <1>2, <1>7, IdlePiece, BlankShown DEF Fails
  <2> QED BY <1>6, <2>1, <2>2, ShownItems DEF PageInv, PageTyped, BlankWhileSwitching, Works
<1>8. CASE LostAfterwards
  <2>1. work.user.todo # <<>> /\ work' = [work EXCEPT !.user = Idle] /\ UNCHANGED <<auth, view>>
    BY <1>8 DEF LostAfterwards, Busy
  <2>2. cookie' \in Sessions /\ tokens' \in Nat
    <3>1. CASE cookie' = [cookie EXCEPT !.version = cookie.version + 1, !.org = work.user.to] /\ UNCHANGED tokens
      <4>1. cookie.version + 1 \in Nat /\ work.user.to \in OrgOr
        BY <1>1 DEF Sessions, Works, Pieces
      <4> QED BY <1>1, <1>3, <3>1, <4>1
    <3>2. CASE cookie' = LoggedOut /\ UNCHANGED tokens
      BY <1>1, <3>2, IdlePiece
    <3>3. CASE tokens' = tokens + 1 /\ cookie' \in Session(tokens')
      BY <1>1, <1>4, <3>3
    <3> QED BY <1>8, <3>1, <3>2, <3>3 DEF LostAfterwards
  <2> QED BY <1>1, <1>2, <1>6, <2>1, <2>2, ShownItems DEF PageInv, PageTyped, BlankWhileSwitching, Works
<1>9. CASE BootFails
  <2>1. work' = [work EXCEPT !.boot = Idle] /\ UNCHANGED <<cookie, auth, view, tokens>>
    BY <1>9 DEF BootFails
  <2>2. work'.user = work.user /\ work'.boot = Idle /\ work' \in Works
    BY <1>1, <2>1, IdlePiece DEF Works
  <2> QED BY <2>1, <2>2, IdlePiece, ShownItems DEF PageInv, PageTyped, OneCounts, AsAuth, BlankWhileSwitching, Works
<1> QED BY <1>5, <1>7, <1>8, <1>9

LEMMA PageStep == PageInv /\ [PageNext]_pageVars => PageInv'
<1> SUFFICES ASSUME PageInv, [PageNext]_pageVars PROVE PageInv'
  OBVIOUS
<1>1. cookie \in Sessions /\ auth \in Sessions /\ tokens \in Nat /\ view \in Views /\ Shown(view, auth.org)
  BY ViewShown DEF PageInv, PageTyped
<1>2. CASE Booted
  <2>1. Awaits("boot", "capabilities") /\ UNCHANGED <<cookie, auth, view, tokens>>
    BY <1>2 DEF Booted
  <2>2. CASE Then("boot", Refreshing, auth)
    <3>1. Refreshing \in Todos \ {<<"switch">>}
      BY TodoNames DEF Answers
    <3> QED BY <1>1, <2>1, <2>2, <3>1, AwaitedIsAuth, BeforeMore
  <2>3. CASE Next1("boot")
    BY <1>1, <2>1, <2>3, AwaitedIsAuth, AfterAnswer
  <2> QED BY <1>2, <2>2, <2>3 DEF Booted
<1>3. CASE Login
  <2>1. /\ Awaits("user", "login") /\ tokens' = tokens + 1 /\ cookie' \in Session(tokens')
        /\ view' = Blank /\ Enter("user", cookie')
    BY <1>3, BlankShown DEF Login
  <2>2. tokens' \in Nat /\ cookie' \in Sessions
    BY <1>1, <2>1 DEF Session, Sessions
  <2>3. PICK s \in Sessions : s = cookie'
    BY <2>2
  <2> QED BY <2>1, <2>2, <2>3, AwaitedIsAuth, Entered
<1>4. CASE Switched
  <2>1. /\ Awaits("user", "switch") /\ UNCHANGED <<tokens, view>> /\ Enter("user", cookie')
        /\ cookie' = [cookie EXCEPT !.version = cookie.version + 1, !.org = work.user.to]
    BY <1>4 DEF Switched
  <2>2. cookie.version + 1 \in Nat /\ work.user.to \in OrgOr /\ work.user.todo \in Todos
    BY <1>1 DEF Sessions, PageInv, PageTyped, Pieces
  <2>3. cookie' \in Sessions
    BY <1>1, <2>1, <2>2 DEF Sessions, OrgOr
  <2>4. work.user.todo = <<"switch">>
    BY <2>1, <2>2, AwaitedIsAuth, TodoShape DEF Head1
  <2>5. view' = Blank
    BY <2>1, <2>4 DEF PageInv, BlankWhileSwitching
  <2>6. PICK s \in Sessions : s = cookie'
    BY <2>3
  <2> QED BY <1>1, <2>1, <2>3, <2>5, <2>6, AwaitedIsAuth, Entered
<1>5. ASSUME NEW c \in {"boot", "user"}, SessionRead(c) \/ SelfRead(c) \/ ListsRead(c) PROVE PageInv'
  BY <1>5, LoadStep
<1>6. CASE UNCHANGED pageVars
  BY <1>6 DEF pageVars, PageInv, PageTyped, OneCounts, AsAuth, BlankWhileSwitching, OneOrganizationShown
<1> QED BY <1>2, <1>3, <1>4, <1>5, <1>6, ClickStep, ChooseStep, AnswerStep, FailStep DEF PageNext

(* In whatever order answers, failures, switches and what other tabs do     *)
(* come, for any number of organizations, logins and switches: the page     *)
(* shows, and would retry, what is of the one organization it names.        *)
THEOREM OneOrganizationAlwaysShown == PageSpec => []OneOrganizationShown
<1>1. PageInv => OneOrganizationShown
  BY DEF PageInv
<1> QED BY <1>1, PageStart, PageStep, PTL DEF PageSpec
=============================================================================
