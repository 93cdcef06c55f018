--------------------------- MODULE DurableWorkflow ---------------------------
(***************************************************************************)
(* The experiment of spikes/ZT01-01: an operation is requested, started as  *)
(* a remote workflow through an outbox, decided, and applied by a worker    *)
(* that may be killed at any point and whose attempts are repeated while    *)
(* earlier ones may still be running. The workflow service is external: a   *)
(* workflow is started once per id, its attempts are handed out until one   *)
(* is answered, and what it knows survives.                                *)
(***************************************************************************)
EXTENDS Naturals, FiniteSets

CONSTANTS Specs,       \* spec_hash of what is asked for, and of what is decided
          MaxAttempts, \* attempts handed out, of all activities (5 each in the code)
          MaxSignals   \* signals sent

VARIABLES db,       \* the rows of one operation, and what was answered to whom
          dispatch, \* the dispatcher's place and the spec it was called with
          flow,     \* the remote workflow
          runs      \* attempts a worker is at: [pc, answer] of each number

durableVars == <<db, dispatch, flow, runs>>

Unset == "none"

\* no hash is the absence of one
ASSUME SpecsAssumption == Unset \notin Specs

Asleep == [pc |-> "idle", spec |-> Unset]
NoRun == [pc |-> "none", answer |-> Unset]
NotStartedFlow == [phase |-> "absent", spec |-> Unset, seen |-> 0, processed |-> 0, attempt |-> 0]

DurableInit ==
  /\ db = [spec |-> Unset, state |-> "none", outbox |-> {}, decision |-> Unset, effect |-> Unset, attempts |-> 0]
  /\ dispatch = Asleep /\ flow = NotStartedFlow /\ runs = [n \in 1..MaxAttempts |-> NoRun]

(***************************************************************************)
(* Transactions of the store. One that fails leaves nothing behind.         *)
(***************************************************************************)
Submit ==
  /\ db.spec = Unset /\ UNCHANGED <<dispatch, flow, runs>>
  /\ \E s \in Specs : db' = [db EXCEPT !.spec = s, !.state = "queued", !.outbox = {"start"}]

Decide(s, verdict) ==
  /\ db.spec = s /\ db.decision = Unset /\ db.state = "queued"
  /\ db' = [db EXCEPT !.decision = verdict] /\ UNCHANGED <<dispatch, flow, runs>>

\* mutant: the effect is written whether or not it may be
AppliedUndecided(s) == [db EXCEPT !.effect = s, !.state = "completed", !.outbox = @ \cup {"completed"}]

Applied(s) ==
  CASE db.decision = "allowed" -> [db EXCEPT !.effect = IF @ = Unset THEN s ELSE @, !.state = "completed", !.outbox = @ \cup {"completed"}]
    [] db.decision = "denied" -> [db EXCEPT !.state = "denied"]
    [] OTHER -> db

Answered(s) ==
  IF db.spec # s THEN "error"
  ELSE CASE db.decision = "allowed" -> "completed"
         [] db.decision = Unset -> "pending"
         [] OTHER -> "denied"

(***************************************************************************)
(* dispatch(): start the workflow, or find the one that was started, then   *)
(* say so. It is called again for as long as nobody said so.               *)
(***************************************************************************)
CallDispatch ==
  /\ dispatch.pc = "idle" /\ UNCHANGED <<db, flow, runs>>
  /\ \E s \in Specs : db.spec = s /\ dispatch' = [pc |-> "starting", spec |-> s]

StartFlow ==
  /\ dispatch.pc = "starting" /\ UNCHANGED <<db, runs>>
  /\ flow' = IF flow.phase = "absent" THEN [flow EXCEPT !.phase = "waiting", !.spec = dispatch.spec] ELSE flow
  /\ dispatch' \in {[dispatch EXCEPT !.pc = "marking"], Asleep}

Mark ==
  /\ dispatch.pc = "marking" /\ dispatch' = Asleep /\ UNCHANGED <<flow, runs>>
  /\ db' = [db EXCEPT !.outbox = @ \cup {"dispatched"}]

DispatcherDies == dispatch.pc # "idle" /\ dispatch' = Asleep /\ UNCHANGED <<db, flow, runs>>

(***************************************************************************)
(* The workflow. A signal only wakes it.                                   *)
(***************************************************************************)
Running == flow.phase \in {"waiting", "checking"}
Signal == Running /\ flow.seen < MaxSignals /\ flow' = [flow EXCEPT !.seen = @ + 1] /\ UNCHANGED <<db, dispatch, runs>>

(* An attempt is numbered over all activities, so old ones can be told.      *)
Wake ==
  /\ flow.phase = "waiting" /\ flow.seen > flow.processed /\ flow.attempt < MaxAttempts
  /\ flow' = [flow EXCEPT !.phase = "checking", !.processed = flow.seen, !.attempt = @ + 1]
  /\ UNCHANGED <<db, dispatch, runs>>

(* Five seconds passed, or the worker said it failed: another attempt.      *)
Retry ==
  /\ flow.phase = "checking" /\ flow.attempt < MaxAttempts
  /\ flow' = [flow EXCEPT !.attempt = @ + 1] /\ UNCHANGED <<db, dispatch, runs>>

(* It is cancelled, its attempts are used up, or its time is.               *)
Abandoned == Running /\ flow' = [flow EXCEPT !.phase = "failed"] /\ UNCHANGED <<db, dispatch, runs>>

(***************************************************************************)
(* The worker, and an attempt it was handed.                               *)
(***************************************************************************)
TakeUp(n) ==
  /\ flow.phase = "checking" /\ flow.attempt = n /\ runs[n] = NoRun /\ UNCHANGED <<db, dispatch, flow>>
  /\ runs' = [runs EXCEPT ![n].pc = "counting"]

Count(n) ==
  /\ runs[n].pc = "counting" /\ UNCHANGED <<dispatch, flow>>
  /\ db' = [db EXCEPT !.attempts = @ + 1]
  /\ runs' = [runs EXCEPT ![n].pc = "applying"]

Apply(n) ==
  /\ runs[n].pc = "applying" /\ UNCHANGED <<dispatch, flow>>
  /\ db' = IF Answered(flow.spec) = "error" THEN db ELSE Applied(flow.spec)
  /\ runs' = [runs EXCEPT ![n] = [pc |-> "answering", answer |-> Answered(flow.spec)]]

(* The answer counts if it is that of the attempt being awaited.            *)
Acknowledge(n) ==
  /\ runs[n].pc = "answering" /\ runs' = [runs EXCEPT ![n].pc = "over"] /\ UNCHANGED <<db, dispatch>>
  /\ flow' = IF flow.phase # "checking" \/ flow.attempt # n \/ runs[n].answer = "error" THEN flow
             ELSE [flow EXCEPT !.phase = IF runs[n].answer = "pending" THEN "waiting" ELSE runs[n].answer]

WorkerKilled ==
  /\ \E n \in DOMAIN runs : runs[n].pc \in {"counting", "applying", "answering"}
  /\ runs' = [n \in DOMAIN runs |-> IF runs[n].pc \in {"counting", "applying", "answering"}
                                     THEN [runs[n] EXCEPT !.pc = "over"] ELSE runs[n]]
  /\ UNCHANGED <<db, dispatch, flow>>

DurableNext ==
  \/ Submit \/ (\E s \in Specs, verdict \in {"allowed", "denied"} : Decide(s, verdict))
  \/ CallDispatch \/ StartFlow \/ Mark \/ DispatcherDies \/ Signal \/ Wake \/ Retry \/ Abandoned \/ WorkerKilled
  \/ \E n \in 1..MaxAttempts : TakeUp(n) \/ Count(n) \/ Apply(n) \/ Acknowledge(n)

(* Whoever is killed and whatever is repeated, the remote workflow never    *)
(* knows more than the database: it tells of an outcome that was committed, *)
(* and was decided; a dispatch that is ticked off was one. What is          *)
(* committed is one outcome, of the spec that was asked for.               *)
OutcomeIsCommitted ==
  /\ flow.phase \in {"completed", "denied"} => db.state = flow.phase
  /\ "dispatched" \in db.outbox => flow.phase # "absent"
  /\ flow.phase # "absent" => flow.spec = db.spec
  /\ db.effect # Unset <=> db.state = "completed"
  /\ db.state = "completed" <=> "completed" \in db.outbox
  /\ db.effect \in {Unset, db.spec}
  /\ db.state = "completed" => db.decision = "allowed"
  /\ db.state = "denied" => db.decision = "denied"
=============================================================================
