---------------------------- MODULE RuntimeStream ----------------------------
(***************************************************************************)
(* What a console learns of a run that happens elsewhere. A                 *)
(* RuntimeEventObserver takes events one by one and keeps the longest       *)
(* prefix it can vouch for; a RuntimeEventStreamReader feeds one from a     *)
(* byte stream it reads once. The source may repeat, reorder, omit or alter *)
(* events, send nonsense, cut the stream at any byte, or stay silent, and   *)
(* the caller may close what he reads at any moment.                       *)
(***************************************************************************)
EXTENDS Naturals, Sequences, FiniteSets

CONSTANTS Refs,         \* request, measurement and artifact ids
          Nobody,       \* the ref of an event that names none
          MaxSequence,  \* bound on the sequence numbers a source sends
          MaxEvents,    \* max_events
          MaxArtifacts  \* artifacts one observer remembers (64 in the code)

ASSUME SequenceAssumption == MaxSequence \in Nat

VARIABLES feeder,   \* "caller": events come one by one, "stream": from a reader
          obs,      \* the observer: its snapshot and the sets it keeps
          journal,  \* #events, in order
          stream,   \* the reader: [status, fault, partial: it holds bytes of an unfinished frame]
          highest   \* highest sequence number of a valid event the open observer was given

streamVars == <<feeder, obs, journal, stream, highest>>

Asking == {"waiting_input", "stop_requested", "tool_requested"}
Making == {"artifact_produced", "artifact_altered"}  \* the second: other contents under the same id
Naming == Asking \cup Making \cup {"input_accepted", "usage_reported"}
Plain == {"started", "cancelled", "succeeded", "failed", "failed_not_started", "unknown", "summary"}
Terminal == {"succeeded", "failed", "cancelled"}

Events == [kind : Naming, ref : Refs] \cup [kind : Plain, ref : {Nobody}]

Fresh == [sync |-> "contiguous", fault |-> "none", state |-> "awaiting_start", last |-> 0, gap |-> 0,
          model |-> FALSE, pending |-> Nobody, requests |-> {}, measured |-> {}, artifacts |-> {}]
Empty == [Fresh EXCEPT !.sync = "closed", !.state = "none"]

StreamInit ==
  /\ feeder \in {"caller", "stream"} /\ obs = Fresh /\ journal = <<>> /\ highest = 0
  /\ stream = [status |-> "idle", fault |-> "none", partial |-> FALSE]

(***************************************************************************)
(* The observer. An outcome is what one call of accept() leaves behind, and *)
(* whether the caller is told "rejected".                                  *)
(***************************************************************************)
(* transition(): may this event follow what has been reported? *)
Allowed(e) ==
  /\ obs.state \notin Terminal \cup {"unknown"}
  /\ e.kind \in Asking => e.ref \notin obs.requests
  /\ CASE e.kind = "started" -> obs.state = "awaiting_start"
       [] e.kind \in {"waiting_input", "tool_requested", "succeeded"} -> obs.state = "running"
       [] e.kind = "input_accepted" -> obs.state = "waiting_input" /\ obs.pending = e.ref
       [] e.kind = "stop_requested" -> obs.state # "stop_requested"
       [] e.kind = "cancelled" -> obs.state = "stop_requested"
       [] e.kind = "failed" -> obs.model
       [] e.kind = "failed_not_started" -> ~obs.model
       [] e.kind = "unknown" -> TRUE
       [] e.kind = "usage_reported" -> obs.state # "awaiting_start" /\ e.ref \notin obs.measured
       [] e.kind = "summary" -> obs.state \in {"running", "waiting_input"}
       [] e.kind \in Making ->
            /\ obs.state \in {"running", "waiting_input"}
            /\ IF \E a \in obs.artifacts : a.ref = e.ref THEN e \in obs.artifacts
               ELSE Cardinality(obs.artifacts) < MaxArtifacts

Reported(e) ==
  CASE e.kind \in {"started", "input_accepted"} -> "running"
    [] e.kind \in {"waiting_input", "stop_requested", "cancelled", "succeeded", "failed", "unknown"} -> e.kind
    [] e.kind = "failed_not_started" -> "failed"
    [] OTHER -> obs.state

Pending(e) ==
  IF e.kind = "waiting_input" THEN e.ref
  ELSE IF Reported(e) = "waiting_input" THEN obs.pending ELSE Nobody

\* mutant: the requests of tools are not remembered
ToolsForgotten(e) == obs.requests \cup {r \in {e.ref} : e.kind \in Asking \ {"tool_requested"}}

Remembered(e) == obs.requests \cup {r \in {e.ref} : e.kind \in Asking}

StillMissing(n) == IF n >= obs.gap THEN 0 ELSE obs.gap

Applied(e, n) ==
  [sync |-> IF e.kind = "unknown" THEN "inspect_required" ELSE IF StillMissing(n) > 0 THEN "replay_required" ELSE "contiguous",
   fault |-> IF e.kind = "unknown" THEN "outcome_unknown" ELSE "none",
   state |-> Reported(e), last |-> n, gap |-> StillMissing(n),
   model |-> obs.model \/ e.kind = "started", pending |-> Pending(e), requests |-> Remembered(e),
   measured |-> obs.measured \cup {r \in {e.ref} : e.kind = "usage_reported"},
   artifacts |-> obs.artifacts \cup {a \in {e} : e.kind \in Making}]

\* mutant: the latest gap replaces an earlier, longer one
GapToLatest(n) == n

GapTo(n) == IF n > obs.gap THEN n ELSE obs.gap

Quarantined(o, fault) ==
  IF o.sync \in {"inspect_required", "closed"} THEN o ELSE [o EXCEPT !.sync = "inspect_required", !.fault = fault]

Outcome(o, j, h, rejected) == [obs |-> o, journal |-> j, highest |-> h, rejected |-> rejected]
Refused(o, h) == Outcome(o, journal, h, TRUE)

(* accept() of a valid event with an id of its own and sequence number n. *)
New(e, n) ==
  LET seen == IF n > highest THEN n ELSE highest
  IN IF obs.sync = "closed" THEN Refused(obs, highest)
     ELSE IF obs.sync = "inspect_required" THEN Refused(obs, seen)
     ELSE IF n <= obs.last THEN Refused(Quarantined(obs, "sequence_conflict"), seen)
     ELSE IF n > obs.last + 1 THEN Refused([obs EXCEPT !.sync = "replay_required", !.gap = GapTo(n)], seen)
     ELSE IF ~Allowed(e) THEN Refused(Quarantined(obs, "invalid_transition"), seen)
     ELSE IF Len(journal) >= MaxEvents THEN Refused(Quarantined(obs, "capacity_exceeded"), seen)
     ELSE Outcome(Applied(e, n), Append(journal, e), seen, FALSE)

(* accept() of an event it holds: word for word, or other words under its id. *)
Again == {Outcome(obs, journal, highest, FALSE), Refused(Quarantined(obs, "event_conflict"), highest)}

(* accept() of what is no event of this run: a wrong shape, another run,    *)
(* attempt or provenance.                                                  *)
Unreadable == Refused(Quarantined(obs, "invalid_event"), highest)

Outcomes ==
  {New(e, n) : e \in Events, n \in 1..MaxSequence} \cup {Unreadable}
    \cup (IF journal = <<>> THEN {} ELSE Again)

Becomes(o) == obs' = o.obs /\ journal' = o.journal /\ highest' = o.highest
Disconnect(o) == Becomes([o EXCEPT !.obs = Quarantined(o.obs, "transport_lost")])
Unread == Outcome(obs, journal, highest, FALSE)
Forget == obs' = Empty /\ journal' = <<>> /\ UNCHANGED highest

CallerFeeds == feeder = "caller" /\ (\E o \in Outcomes : Becomes(o)) /\ UNCHANGED <<feeder, stream>>
CallerLoses == feeder = "caller" /\ Disconnect(Unread) /\ UNCHANGED <<feeder, stream>>
CallerCloses == feeder = "caller" /\ Forget /\ UNCHANGED <<feeder, stream>>

(***************************************************************************)
(* The reader.                                                             *)
(***************************************************************************)
Reads == feeder = "stream" /\ stream.status = "reading" /\ UNCHANGED feeder
At(status, fault) == stream' = [status |-> status, fault |-> fault, partial |-> FALSE]

(* read(): claims its source once; one that is no stream is a failure. *)
Read ==
  /\ feeder = "stream" /\ stream.status = "idle" /\ UNCHANGED feeder
  /\ \/ At("reading", "none") /\ Becomes(Unread)
     \/ At("inspect_required", "invalid_source") /\ Disconnect(Unread)

(* A chunk that ends within a frame. *)
Chunk == Reads /\ stream' = [stream EXCEPT !.partial = TRUE] /\ Becomes(Unread)

(* The end of a frame: the observer takes the event; what it rejects, or    *)
(* asks an inspection for, ends the stream.                                *)
Frame ==
  /\ Reads
  /\ \E o \in Outcomes :
       IF o.rejected \/ o.obs.sync = "inspect_required"
         THEN At("inspect_required", "observation_rejected") /\ Disconnect(o)
         ELSE At("reading", "none") /\ Becomes(o)

Fails(fault) == Reads /\ At("inspect_required", fault) /\ Disconnect(Unread)

(* No bytes, too many of them, or too many frames; text that is no JSON; a  *)
(* broken connection.                                                      *)
BadBytes == Fails("limit")
BadFrame == Fails("invalid_frame")
Lost == Fails("transport_lost")

EndsWell == ~stream.partial /\ obs.state \in Terminal

EndOfFile ==
  /\ Reads
  /\ IF EndsWell THEN At("ended", "none") /\ Becomes(Unread)
     ELSE At("inspect_required", IF stream.partial THEN "truncated_frame" ELSE "unexpected_eof") /\ Disconnect(Unread)

CloseStream == feeder = "stream" /\ At("closed", "none") /\ Forget /\ UNCHANGED feeder

StreamNext ==
  \/ CallerFeeds \/ CallerLoses \/ CallerCloses
  \/ Read \/ Chunk \/ Frame \/ BadBytes \/ BadFrame \/ Lost \/ EndOfFile \/ CloseStream

StreamSpec == StreamInit /\ [][StreamNext]_streamVars

(***************************************************************************)
(* Properties.                                                             *)
(***************************************************************************)
(* "contiguous" is a promise: nothing the observer was shown lies beyond    *)
(* what it has applied, whatever was repeated, reordered or left out. And a *)
(* stream has "ended" only when the run it told of had, and no byte was     *)
(* left over: a cut stream is never an end.                                *)
ContiguousMeansComplete ==
  /\ obs.sync = "contiguous" => highest = obs.last /\ obs.last = Len(journal)
  /\ stream.status = "ended" => obs.sync = "contiguous" /\ obs.state \in Terminal /\ ~stream.partial

Ending == Terminal \cup {"unknown", "failed_not_started"}
NeedsARun == {"started", "succeeded", "waiting_input", "input_accepted", "tool_requested"}
Turns == {"waiting_input", "input_accepted", "stop_requested"}

MayComeBefore(a, b) ==
  /\ a.kind \notin Ending
  /\ a.kind \in Asking /\ b.kind \in Asking => a.ref # b.ref
  /\ a.kind = "stop_requested" => b.kind \notin NeedsARun

(* j[i] asked what an event after the first n of j is the answer to.        *)
LastAsked(j, i, n, ref) ==
  /\ j[i].kind = "waiting_input" /\ j[i].ref = ref
  /\ \A k \in (i + 1)..n : j[k].kind \notin Turns

Justified(j, n, e) ==
  /\ \A i \in 1..n : MayComeBefore(j[i], e)
  /\ e.kind \in {"input_accepted", "succeeded", "waiting_input"} => n > 0 /\ j[1].kind = "started"
  /\ e.kind = "cancelled" => \E i \in 1..n : j[i].kind = "stop_requested"
  /\ e.kind = "input_accepted" => \E i \in 1..n : LastAsked(j, i, n, e.ref)

(* The journal is the story of one run, whatever order the events came in:  *)
(* nothing follows its end, no request is made twice, an answer accepts the *)
(* question last asked and not yet answered or overtaken by a stop, and a   *)
(* run is cancelled only after it was asked to stop.                       *)
JournalIsOneRun == \A n \in DOMAIN journal : Justified(journal, n - 1, journal[n])
=============================================================================
