---------------------------- MODULE Runtime_proofs ----------------------------
(***************************************************************************)
(* What RuntimeEventObserver and RuntimeEventStreamReader promise, for runs *)
(* of any length and any set of ids; all or nothing, for any number of     *)
(* producers, artifacts and bytes; and what the inspection of a directory  *)
(* passes, for a plan of any length.                                       *)
(***************************************************************************)
EXTENDS RuntimeStream, RuntimeInputs, RuntimeInspection, SequenceTheorems, TLAPS

(* Observation. *)

Sync == {"contiguous", "replay_required", "inspect_required", "closed"}
State == {"awaiting_start", "running", "waiting_input", "stop_requested", "unknown", "none"} \cup Terminal
Fault == {"none", "transport_lost", "sequence_conflict", "invalid_transition", "capacity_exceeded", "event_conflict",
          "invalid_event", "outcome_unknown"}
StreamFault == {"none", "invalid_source", "observation_rejected", "limit", "invalid_frame", "transport_lost",
                "truncated_frame", "unexpected_eof"}
Observer ==
  [sync : Sync, fault : Fault, state : State, last : Nat, gap : Nat, model : BOOLEAN, pending : Refs \cup {Nobody},
   requests : SUBSET Refs, measured : SUBSET Refs, artifacts : SUBSET Events]

(***************************************************************************)
(* Counted: what an observer has applied, and what it was shown beyond.     *)
(***************************************************************************)
Counted(o, j, h) ==
  /\ o.sync = "contiguous" => o.gap = 0
  /\ o.sync \in {"contiguous", "replay_required"} =>
       /\ o.last = Len(j)
       /\ \/ o.gap = 0 /\ h = o.last
          \/ o.gap > o.last /\ h = o.gap

(***************************************************************************)
(* Told: what the observer remembers of its journal.                       *)
(***************************************************************************)
Told(o, j) ==
  /\ o.state \in {"awaiting_start", "none"} => j = <<>>
  /\ o.state = "none" => o.sync = "closed"
  /\ o.state \in {"running", "waiting_input"} => j # <<>> /\ j[1].kind = "started"
  /\ o.state \in {"awaiting_start", "running", "waiting_input", "stop_requested"} =>
       \A i \in 1..Len(j) : j[i].kind \notin Ending
  /\ o.state \in {"awaiting_start", "running", "waiting_input"} =>
       \A i \in 1..Len(j) : j[i].kind # "stop_requested"
  /\ o.state = "stop_requested" => \E i \in 1..Len(j) : j[i].kind = "stop_requested"
  /\ o.state = "waiting_input" => \E i \in 1..Len(j) : LastAsked(j, i, Len(j), o.pending)
  /\ \A i \in 1..Len(j) : j[i].kind \in Asking => j[i].ref \in o.requests

OneRun(j) == \A n \in DOMAIN j : Justified(j, n - 1, j[n])

Good(o, j, h) ==
  /\ o \in Observer /\ j \in Seq(Events) /\ h \in Nat
  /\ Counted(o, j, h) /\ Told(o, j) /\ OneRun(j)

(* A reader goes on only while nothing is missing. *)
Fed ==
  /\ feeder \in {"caller", "stream"}
  /\ stream \in [status : {"idle", "reading", "ended", "inspect_required", "closed"}, fault : StreamFault, partial : BOOLEAN]
  /\ feeder = "caller" => stream.status = "idle"
  /\ feeder = "stream" /\ stream.status \in {"idle", "reading", "ended"} => obs.sync = "contiguous"
  /\ stream.status = "ended" => obs.state \in Terminal /\ ~stream.partial

StreamInv == Good(obs, journal, highest) /\ Fed

-----------------------------------------------------------------------------
(* What is quarantined is as good as it was. *)
LEMMA QuarantinedGood ==
  ASSUME NEW o, NEW j, NEW h, NEW fault \in Fault, Good(o, j, h)
  PROVE  /\ Good(Quarantined(o, fault), j, h)
         /\ Quarantined(o, fault).sync \in {"inspect_required", "closed"}
<1>1. CASE o.sync \in {"inspect_required", "closed"}
  BY <1>1 DEF Quarantined, Good
<1>2. CASE o.sync \notin {"inspect_required", "closed"}
  <2> DEFINE q == [o EXCEPT !.sync = "inspect_required", !.fault = fault]
  <2>1. Quarantined(o, fault) = q
    BY <1>2 DEF Quarantined
  <2>2. /\ q \in Observer /\ q.sync = "inspect_required" /\ q.state = o.state
        /\ q.pending = o.pending /\ q.requests = o.requests
    BY DEF Good, Observer, Sync, Fault
  <2>3. Counted(q, j, h)
    BY <2>2 DEF Counted
  <2>4. Told(q, j)
    BY <1>2, <2>2 DEF Good, Told
  <2> QED
    BY <2>1, <2>2, <2>3, <2>4 DEF Good
<1> QED
  BY <1>1, <1>2

LEMMA FreshGood == Good(Fresh, <<>>, 0)
<1>1. Fresh \in Observer
  BY DEF Fresh, Observer, Sync, State, Fault
<1>2. Counted(Fresh, <<>>, 0)
  BY DEF Counted, Fresh
<1>3. Told(Fresh, <<>>)
  BY DEF Told, Fresh, Terminal
<1>4. OneRun(<<>>)
  BY DEF OneRun
<1> QED
  BY <1>1, <1>2, <1>3, <1>4 DEF Good

LEMMA EmptyGood == ASSUME NEW h \in Nat PROVE Good(Empty, <<>>, h)
<1>1. Fresh \in Observer
  BY DEF Fresh, Observer, Sync, State, Fault
<1>2. Empty \in Observer /\ Empty.sync = "closed" /\ Empty.state = "none" /\ Empty.requests = Fresh.requests
  BY <1>1 DEF Empty, Observer, Sync, State
<1>3. Counted(Empty, <<>>, h)
  BY <1>2 DEF Counted
<1>4. Told(Empty, <<>>)
  BY <1>2 DEF Told
<1>5. OneRun(<<>>)
  BY DEF OneRun
<1> QED
  BY <1>2, <1>3, <1>4, <1>5 DEF Good

(***************************************************************************)
(* An event that is applied.                                               *)
(***************************************************************************)
LEMMA EventKinds ==
  ASSUME NEW e \in Events
  PROVE  /\ e.kind \in Naming \cup Plain
         /\ e.kind \in Naming => e.ref \in Refs
         /\ e.kind \in Asking \cup Making \cup {"input_accepted", "usage_reported"} <=> e.kind \in Naming
  BY DEF Events, Naming, Plain, Asking, Making

(* transition(), by what an event needs of the state. *)
LEMMA Needs ==
  ASSUME NEW e \in Events, Allowed(e)
  PROVE  /\ obs.state \notin Terminal \cup {"unknown"}
         /\ e.kind \in Asking => e.ref \notin obs.requests
         /\ e.kind = "started" => obs.state = "awaiting_start"
         /\ e.kind \in {"waiting_input", "tool_requested", "succeeded"} => obs.state = "running"
         /\ e.kind = "input_accepted" => obs.state = "waiting_input" /\ obs.pending = e.ref
         /\ e.kind = "cancelled" => obs.state = "stop_requested"
         /\ e.kind \in Making \cup {"summary"} => obs.state \in {"running", "waiting_input"}
         /\ e.kind = "usage_reported" => obs.state # "awaiting_start"
<1>1. obs.state \notin Terminal \cup {"unknown"} /\ (e.kind \in Asking => e.ref \notin obs.requests)
  BY DEF Allowed
<1>2. e.kind = "started" => obs.state = "awaiting_start"
  BY DEF Allowed, Asking, Making
<1>3. e.kind \in {"waiting_input", "tool_requested", "succeeded"} => obs.state = "running"
  BY DEF Allowed, Asking, Making
<1>4. e.kind = "input_accepted" => obs.state = "waiting_input" /\ obs.pending = e.ref
  BY DEF Allowed, Asking, Making
<1>5. e.kind = "cancelled" => obs.state = "stop_requested"
  BY DEF Allowed, Asking, Making
<1>6. e.kind \in Making \cup {"summary"} => obs.state \in {"running", "waiting_input"}
  BY DEF Allowed, Asking, Making
<1>7. e.kind = "usage_reported" => obs.state # "awaiting_start"
  BY DEF Allowed, Asking, Making
<1> QED
  BY <1>1, <1>2, <1>3, <1>4, <1>5, <1>6, <1>7

(* What an allowed event may not follow is not in the journal. *)
LEMMA AllowedJustified ==
  ASSUME Good(obs, journal, highest), NEW e \in Events, Allowed(e)
  PROVE  Justified(journal, Len(journal), e)
<1>1. obs.state \in {"awaiting_start", "running", "waiting_input", "stop_requested", "none"}
  BY Needs DEF Good, Observer, State
<1>2. \A i \in 1..Len(journal) : MayComeBefore(journal[i], e)
  <2>1. \A i \in 1..Len(journal) : journal[i].kind \notin Ending
    BY <1>1 DEF Good, Told
  <2>2. \A i \in 1..Len(journal) : journal[i].kind \in Asking /\ e.kind \in Asking => journal[i].ref # e.ref
    BY Needs DEF Good, Told
  <2>3. e.kind \in NeedsARun => \A i \in 1..Len(journal) : journal[i].kind # "stop_requested"
    BY Needs DEF Good, Told, NeedsARun
  <2> QED
    BY <2>1, <2>2, <2>3 DEF MayComeBefore
<1>3. e.kind \in {"input_accepted", "succeeded", "waiting_input"} => Len(journal) > 0 /\ journal[1].kind = "started"
  BY Needs DEF Good, Told
<1>4. e.kind = "cancelled" => \E i \in 1..Len(journal) : journal[i].kind = "stop_requested"
  BY Needs DEF Good, Told
<1>5. e.kind = "input_accepted" => \E i \in 1..Len(journal) : LastAsked(journal, i, Len(journal), e.ref)
  BY Needs DEF Good, Told
<1> QED
  BY <1>2, <1>3, <1>4, <1>5 DEF Justified

(* The journal with one more event. *)
LEMMA Longer ==
  ASSUME NEW j \in Seq(Events), NEW e \in Events
  PROVE  /\ Append(j, e) \in Seq(Events) /\ Len(Append(j, e)) = Len(j) + 1 /\ Append(j, e) # <<>>
         /\ DOMAIN Append(j, e) = 1..Len(j) + 1 /\ DOMAIN j = 1..Len(j) /\ Len(j) \in Nat
         /\ \A i \in 1..Len(j) : Append(j, e)[i] = j[i]
         /\ Append(j, e)[Len(j) + 1] = e
  OBVIOUS

LEMMA StillOneRun ==
  ASSUME NEW j \in Seq(Events), NEW e \in Events, OneRun(j), Justified(j, Len(j), e)
  PROVE  OneRun(Append(j, e))
<1> DEFINE k == Append(j, e)
<1>1. ASSUME NEW n \in 1..Len(j) + 1
      PROVE  Justified(k, n - 1, k[n])
  <2>1. Justified(j, n - 1, k[n])
    <3>1. CASE n = Len(j) + 1
      BY <3>1, Longer
    <3>2. CASE n \in 1..Len(j)
      BY <3>2, Longer DEF OneRun
    <3> QED
      BY <3>1, <3>2, Longer
  <2>2. \A i \in 1..n - 1 : k[i] = j[i]
    BY Longer
  <2>3. \A i \in 1..n - 1 : LastAsked(j, i, n - 1, k[n].ref) => LastAsked(k, i, n - 1, k[n].ref)
    BY <2>2, Longer DEF LastAsked
  <2> HIDE DEF k
  <2> QED
    BY <2>1, <2>2, <2>3, Longer DEF Justified
<1> QED
  BY <1>1, Longer DEF OneRun

LEMMA AppliedTyped ==
  ASSUME obs \in Observer, NEW e \in Events, Allowed(e), NEW n \in Nat
  PROVE  Applied(e, n) \in Observer
<1>1. Reported(e) \in State /\ Pending(e) \in Refs \cup {Nobody}
  BY EventKinds DEF Reported, Pending, Observer, State, Terminal, Naming, Asking
<1>2. Remembered(e) \in SUBSET Refs
  BY EventKinds DEF Remembered, Observer, Naming
<1>3. StillMissing(n) \in Nat
  BY DEF StillMissing, Observer
<1>4. obs.measured \cup {r \in {e.ref} : e.kind = "usage_reported"} \in SUBSET Refs
  BY EventKinds DEF Observer, Naming
<1>5. obs.artifacts \cup {a \in {e} : e.kind \in Making} \in SUBSET Events
  BY DEF Observer
<1>6. (obs.model \/ e.kind = "started") \in BOOLEAN
  BY DEF Observer
<1> QED
  BY <1>1, <1>2, <1>3, <1>4, <1>5, <1>6 DEF Applied, Observer, Sync, Fault

LEMMA AppliedCounted ==
  ASSUME obs \in Observer, journal \in Seq(Events), highest \in Nat, Counted(obs, journal, highest),
         obs.sync \in {"contiguous", "replay_required"}, NEW e \in Events
  PROVE  LET n == obs.last + 1
         IN Counted(Applied(e, n), Append(journal, e), IF n > highest THEN n ELSE highest)
<1> DEFINE n == obs.last + 1
           o == Applied(e, n)
<1>1. o.last = n /\ o.gap = StillMissing(n) /\ (o.sync = "contiguous" => ~(StillMissing(n) > 0))
  BY DEF Applied
<1>2. Len(Append(journal, e)) = n
  BY Longer DEF Counted
<1>3. obs.last \in Nat /\ obs.gap \in Nat
  BY DEF Observer
<1> QED
  BY <1>1, <1>2, <1>3 DEF Counted, StillMissing

LEMMA AppliedTold ==
  ASSUME Good(obs, journal, highest), obs.sync # "closed", NEW e \in Events, Allowed(e), NEW n \in Nat
  PROVE  Told(Applied(e, n), Append(journal, e))
<1> DEFINE k == Append(journal, e)
           o == Applied(e, n)
<1>0. /\ o.state = Reported(e) /\ o.pending = Pending(e) /\ o.requests = Remembered(e)
      /\ journal \in Seq(Events) /\ obs \in Observer /\ Told(obs, journal)
      /\ e.kind \in Naming \cup Plain
  BY EventKinds DEF Applied, Good
<1>1. obs.state \in {"awaiting_start", "running", "waiting_input", "stop_requested"}
  BY Needs, <1>0 DEF Observer, State, Told
<1>2. /\ Len(k) = Len(journal) + 1 /\ Len(journal) \in Nat /\ k # <<>> /\ k[Len(k)] = e
      /\ \A i \in 1..Len(journal) : k[i] = journal[i]
  BY <1>0, Longer
<1> HIDE DEF k, o
<1>3. Reported(e) \notin {"awaiting_start", "none"}
  BY <1>0, <1>1, Needs DEF Reported, Naming, Plain, Asking, Making
<1>4. Reported(e) \in {"running", "waiting_input"} => k[1].kind = "started"
  <2>1. CASE e.kind = "started"
    BY <2>1, <1>0, <1>1, <1>2, Needs DEF Told
  <2>2. CASE e.kind # "started"
    <3>1. Reported(e) \in {"running", "waiting_input"} => obs.state \in {"running", "waiting_input"}
      BY <2>2, Needs DEF Reported
    <3>2. obs.state \in {"running", "waiting_input"} => Len(journal) > 0 /\ journal[1].kind = "started"
      BY <1>0 DEF Told
    <3> QED
      BY <3>1, <3>2, <1>2
  <2> QED
    BY <2>1, <2>2
<1>5. Reported(e) \in {"running", "waiting_input", "stop_requested"} => e.kind \notin Ending
  BY DEF Reported, Ending, Terminal
<1>6. \A i \in 1..Len(journal) : journal[i].kind \notin Ending
  BY <1>0, <1>1 DEF Told
<1>7. Reported(e) \in {"running", "waiting_input"} =>
        e.kind # "stop_requested" /\ \A i \in 1..Len(journal) : journal[i].kind # "stop_requested"
  BY <1>0, <1>1, Needs DEF Told, Reported
<1>8. Reported(e) = "stop_requested" => \E i \in 1..Len(k) : k[i].kind = "stop_requested"
  <2>1. CASE e.kind = "stop_requested"
    BY <2>1, <1>2
  <2>2. CASE e.kind # "stop_requested"
    <3>1. Reported(e) = "stop_requested" => obs.state = "stop_requested"
      BY <2>2 DEF Reported
    <3> QED
      BY <3>1, <1>0, <1>2 DEF Told
  <2> QED
    BY <2>1, <2>2
<1>9. Reported(e) = "waiting_input" => \E i \in 1..Len(k) : LastAsked(k, i, Len(k), Pending(e))
  <2>1. CASE e.kind = "waiting_input"
    BY <2>1, <1>2 DEF LastAsked, Pending
  <2>2. CASE e.kind # "waiting_input" /\ Reported(e) = "waiting_input"
    <3>1. obs.state = "waiting_input" /\ Pending(e) = obs.pending /\ e.kind \notin Turns
      BY <2>2 DEF Reported, Pending, Turns
    <3>2. PICK i \in 1..Len(journal) : LastAsked(journal, i, Len(journal), obs.pending)
      BY <3>1, <1>0 DEF Told
    <3>3. \A x \in (i + 1)..Len(k) : k[x].kind \notin Turns
      <4>1. \A x \in (i + 1)..Len(journal) : journal[x].kind \notin Turns
        BY <3>2 DEF LastAsked
      <4>2. \A x \in (i + 1)..Len(k) : x = Len(k) \/ (x \in (i + 1)..Len(journal) /\ x \in 1..Len(journal))
        BY <1>2
      <4> QED
        BY <4>1, <4>2, <3>1, <1>2
    <3> QED
      BY <3>1, <3>2, <3>3, <1>2 DEF LastAsked
  <2> QED
    BY <2>1, <2>2
<1>10. \A i \in 1..Len(k) : k[i].kind \in Asking => k[i].ref \in Remembered(e)
  <2>1. \A i \in 1..Len(journal) : journal[i].kind \in Asking => journal[i].ref \in obs.requests
    BY <1>0 DEF Told
  <2> QED
    BY <2>1, <1>2 DEF Remembered
<1>11. \A i \in 1..Len(k) : i = Len(k) \/ (i \in 1..Len(journal) /\ k[i] = journal[i])
  BY <1>2
<1>12. /\ o.state \in {"awaiting_start", "none"} => k = <<>>
       /\ o.state = "none" => o.sync = "closed"
       /\ o.state \in {"running", "waiting_input"} => k # <<>> /\ k[1].kind = "started"
  BY <1>0, <1>2, <1>3, <1>4
<1>13. /\ o.state \in {"awaiting_start", "running", "waiting_input", "stop_requested"} =>
            \A i \in 1..Len(k) : k[i].kind \notin Ending
       /\ o.state \in {"awaiting_start", "running", "waiting_input"} =>
            \A i \in 1..Len(k) : k[i].kind # "stop_requested"
  BY <1>0, <1>2, <1>3, <1>5, <1>6, <1>7, <1>11
<1>14. Told(o, k)
  BY <1>0, <1>8, <1>9, <1>10, <1>12, <1>13 DEF Told
<1> QED
  BY <1>14 DEF o, k

(* What an event that is applied leaves behind, and what every call does.   *)
LEMMA NewGood ==
  ASSUME Good(obs, journal, highest), NEW e \in Events, NEW n \in Nat
  PROVE  Good(New(e, n).obs, New(e, n).journal, New(e, n).highest)
<1> DEFINE seen == IF n > highest THEN n ELSE highest
<1>0. /\ obs \in Observer /\ journal \in Seq(Events) /\ highest \in Nat /\ seen \in Nat
      /\ Counted(obs, journal, highest) /\ Told(obs, journal) /\ OneRun(journal)
  BY DEF Good
<1>1. obs.sync \in {"inspect_required", "closed"} => Good(obs, journal, seen)
  BY <1>0 DEF Good, Counted
<1>2. ASSUME NEW f \in Fault, obs.sync \in {"contiguous", "replay_required"}
      PROVE  Good(Quarantined(obs, f), journal, seen)
  <2>1. Quarantined(obs, f) = [obs EXCEPT !.sync = "inspect_required", !.fault = f]
    BY <1>2 DEF Quarantined
  <2>2. Good(Quarantined(obs, f), journal, highest)
    BY <1>2, QuarantinedGood
  <2>3. Quarantined(obs, f).sync = "inspect_required"
    BY <2>1, <1>0 DEF Observer
  <2> QED
    BY <2>2, <2>3, <1>0 DEF Good, Counted
<1>3. ASSUME obs.sync \in {"contiguous", "replay_required"}, n > obs.last + 1
      PROVE  Good([obs EXCEPT !.sync = "replay_required", !.gap = GapTo(n)], journal, seen)
  <2> DEFINE g == [obs EXCEPT !.sync = "replay_required", !.gap = GapTo(n)]
  <2>1. GapTo(n) \in Nat
    BY <1>0 DEF GapTo, Observer
  <2>2. /\ g \in Observer /\ g.sync = "replay_required" /\ g.gap = GapTo(n) /\ g.last = obs.last
        /\ g.state = obs.state /\ g.pending = obs.pending /\ g.requests = obs.requests
    BY <1>0, <2>1 DEF Observer, Sync
  <2> HIDE DEF g
  <2>3. Counted(g, journal, seen)
    BY <1>0, <1>3, <2>2 DEF Counted, GapTo, Observer
  <2>4. Told(g, journal)
    BY <1>0, <1>3, <2>2 DEF Told
  <2>5. Good(g, journal, seen)
    BY <1>0, <2>2, <2>3, <2>4 DEF Good
  <2> QED
    BY <2>5 DEF g
<1>4. ASSUME obs.sync \in {"contiguous", "replay_required"}, n = obs.last + 1, Allowed(e)
      PROVE  Good(Applied(e, n), Append(journal, e), seen)
  <2>1. Applied(e, n) \in Observer
    BY <1>0, <1>4, AppliedTyped
  <2>2. Counted(Applied(e, n), Append(journal, e), seen)
    BY <1>0, <1>4, AppliedCounted
  <2>3. Told(Applied(e, n), Append(journal, e))
    BY <1>4, AppliedTold
  <2>4. OneRun(Append(journal, e)) /\ Append(journal, e) \in Seq(Events)
    BY <1>0, <1>4, AllowedJustified, StillOneRun, Longer
  <2> QED
    BY <1>0, <2>1, <2>2, <2>3, <2>4 DEF Good
<1>5. obs.sync \in Sync /\ obs.last \in Nat
  BY <1>0 DEF Observer
<1> DEFINE N == New(e, n)
<1>6. CASE obs.sync = "closed"
  BY <1>6 DEF New, Refused, Outcome
<1>7. CASE obs.sync = "inspect_required"
  BY <1>1, <1>7 DEF New, Refused, Outcome
<1>8. CASE obs.sync \in {"contiguous", "replay_required"}
  <2>1. CASE n <= obs.last
    BY <1>2, <1>8, <2>1 DEF New, Refused, Outcome, Fault
  <2>2. CASE n > obs.last + 1
    BY <1>3, <1>5, <1>8, <2>2 DEF New, Refused, Outcome
  <2>3. CASE n = obs.last + 1
    <3>1. CASE ~Allowed(e)
      BY <1>2, <1>5, <1>8, <2>3, <3>1 DEF New, Refused, Outcome, Fault
    <3>2. CASE Allowed(e) /\ Len(journal) >= MaxEvents
      BY <1>2, <1>5, <1>8, <2>3, <3>2 DEF New, Refused, Outcome, Fault
    <3>3. CASE Allowed(e) /\ ~(Len(journal) >= MaxEvents)
      BY <1>4, <1>5, <1>8, <2>3, <3>3 DEF New, Refused, Outcome
    <3> QED
      BY <3>1, <3>2, <3>3
  <2> QED
    BY <1>5, <2>1, <2>2, <2>3
<1> QED
  BY <1>5, <1>6, <1>7, <1>8 DEF Sync

LEMMA OutcomesGood ==
  ASSUME Good(obs, journal, highest), NEW o \in Outcomes
  PROVE  Good(o.obs, o.journal, o.highest)
<1>1. CASE o \in {New(e, n) : e \in Events, n \in 1..MaxSequence}
  <2>1. PICK e \in Events, n \in 1..MaxSequence : o = New(e, n)
    BY <1>1
  <2> QED
    BY <2>1, NewGood
<1>2. CASE o = Unreadable
  BY <1>2, QuarantinedGood DEF Unreadable, Refused, Outcome, Fault
<1>3. CASE o \in Again
  BY <1>3, QuarantinedGood DEF Again, Refused, Outcome, Fault
<1> QED
  BY <1>1, <1>2, <1>3 DEF Outcomes

(* What is neither rejected nor asks for an inspection leaves nothing out.  *)
LEMMA AcceptedContiguous ==
  ASSUME Good(obs, journal, highest), obs.sync = "contiguous", NEW o \in Outcomes,
         ~o.rejected, o.obs.sync # "inspect_required"
  PROVE  o.obs.sync = "contiguous"
<1>0. obs.gap = 0 /\ obs.last \in Nat /\ highest = obs.last
  BY DEF Good, Counted, Observer
<1>1. CASE o \in {New(e, n) : e \in Events, n \in 1..MaxSequence}
  <2>1. PICK e \in Events, n \in 1..MaxSequence : o = New(e, n)
    BY <1>1
  <2>2. o.obs = Applied(e, n)
    BY <2>1 DEF New, Refused, Outcome
  <2>3. ~(StillMissing(n) > 0)
    BY <1>0 DEF StillMissing
  <2> QED
    BY <2>2, <2>3 DEF Applied
<1>2. CASE o = Unreadable
  BY <1>2 DEF Unreadable, Refused, Outcome
<1>3. CASE o \in Again
  BY <1>3 DEF Again, Refused, Outcome
<1> QED
  BY <1>1, <1>2, <1>3 DEF Outcomes

-----------------------------------------------------------------------------
(* Every step keeps what the observer was left with good. *)
LEMMA BecomesGood ==
  ASSUME NEW o, Good(o.obs, o.journal, o.highest), Becomes(o)
  PROVE  Good(obs, journal, highest)'
  BY DEF Becomes

LEMMA DisconnectGood ==
  ASSUME NEW o, Good(o.obs, o.journal, o.highest), Disconnect(o),
         o = [obs |-> o.obs, journal |-> o.journal, highest |-> o.highest, rejected |-> o.rejected]
  PROVE  Good(obs, journal, highest)'
<1>1. /\ obs' = Quarantined(o.obs, "transport_lost")
      /\ journal' = o.journal /\ highest' = o.highest
  BY DEF Disconnect, Becomes
<1>2. Good(Quarantined(o.obs, "transport_lost"), o.journal, o.highest)
  BY QuarantinedGood DEF Fault
<1> QED
  BY <1>1, <1>2

LEMMA OutcomeShape ==
  ASSUME NEW o \in Outcomes
  PROVE  o = [obs |-> o.obs, journal |-> o.journal, highest |-> o.highest, rejected |-> o.rejected]
<1>1. CASE o \in {New(e, n) : e \in Events, n \in 1..MaxSequence}
  <2>1. PICK e \in Events, n \in 1..MaxSequence : o = New(e, n)
    BY <1>1
  <2> QED
    BY <2>1 DEF New, Refused, Outcome
<1>2. CASE o = Unreadable
  BY <1>2 DEF Unreadable, Refused, Outcome
<1>3. CASE o \in Again
  BY <1>3 DEF Again, Refused, Outcome
<1> QED
  BY <1>1, <1>2, <1>3 DEF Outcomes

LEMMA UnreadGood ==
  ASSUME Good(obs, journal, highest)
  PROVE  /\ Becomes(Unread) => Good(obs, journal, highest)' /\ obs' = obs
         /\ Disconnect(Unread) => Good(obs, journal, highest)'
<1>1. Becomes(Unread) => obs' = obs /\ journal' = journal /\ highest' = highest
  BY DEF Becomes, Unread, Outcome
<1>2. Disconnect(Unread) =>
        obs' = Quarantined(obs, "transport_lost") /\ journal' = journal /\ highest' = highest
  BY DEF Disconnect, Becomes, Unread, Outcome
<1>3. Good(Quarantined(obs, "transport_lost"), journal, highest)
  BY QuarantinedGood DEF Fault
<1> QED
  BY <1>1, <1>2, <1>3

LEMMA ForgetGood == ASSUME Good(obs, journal, highest), Forget PROVE Good(obs, journal, highest)'
<1>1. Good(Empty, <<>>, highest)
  BY EmptyGood DEF Good
<1> QED
  BY <1>1 DEF Forget

(* The invariant holds of every behaviour. *)
LEMMA StreamInvInit == StreamInit => StreamInv
<1> SUFFICES ASSUME StreamInit PROVE StreamInv
  OBVIOUS
<1>1. Good(obs, journal, highest)
  BY FreshGood DEF StreamInit
<1>2. Fed
  BY DEF StreamInit, Fed, StreamFault, Fresh
<1> QED
  BY <1>1, <1>2 DEF StreamInv

LEMMA StreamInvNext == StreamInv /\ [StreamNext]_streamVars => StreamInv'
<1> SUFFICES ASSUME StreamInv, [StreamNext]_streamVars PROVE StreamInv'
  OBVIOUS
<1>0. Good(obs, journal, highest) /\ Fed
  BY DEF StreamInv
<1>1. CASE CallerFeeds
  <2>1. PICK o \in Outcomes : Becomes(o)
    BY <1>1 DEF CallerFeeds
  <2>2. Good(obs, journal, highest)'
    BY <1>0, <2>1, OutcomesGood, BecomesGood
  <2>3. Fed'
    BY <1>0, <1>1 DEF CallerFeeds, Fed
  <2> QED
    BY <2>2, <2>3 DEF StreamInv
<1>2. CASE CallerLoses
  <2>1. Good(obs, journal, highest)'
    BY <1>0, <1>2, UnreadGood DEF CallerLoses
  <2>2. Fed'
    BY <1>0, <1>2 DEF CallerLoses, Fed
  <2> QED
    BY <2>1, <2>2 DEF StreamInv
<1>3. CASE CallerCloses
  <2>1. Good(obs, journal, highest)'
    BY <1>0, <1>3, ForgetGood DEF CallerCloses
  <2>2. Fed'
    BY <1>0, <1>3 DEF CallerCloses, Fed
  <2> QED
    BY <2>1, <2>2 DEF StreamInv
<1>4. CASE Read
  <2>1. Good(obs, journal, highest)'
    BY <1>0, <1>4, UnreadGood DEF Read
  <2>2. feeder = "stream" /\ feeder' = feeder /\ obs.sync = "contiguous"
    BY <1>0, <1>4 DEF Read, Fed
  <2>3. CASE At("reading", "none") /\ Becomes(Unread)
    <3>1. obs' = obs
      BY <1>0, <2>3, UnreadGood
    <3> QED
      BY <2>1, <2>2, <2>3, <3>1 DEF Fed, At, StreamFault, StreamInv
  <2>4. CASE At("inspect_required", "invalid_source")
    BY <2>1, <2>2, <2>4 DEF Fed, At, StreamFault, StreamInv
  <2> QED
    BY <1>4, <2>3, <2>4 DEF Read
<1>5. CASE Chunk
  <2>1. Good(obs, journal, highest)'
    BY <1>0, <1>5, UnreadGood DEF Chunk
  <2>2. Fed'
    BY <1>0, <1>5, UnreadGood DEF Chunk, Reads, Fed, StreamFault
  <2> QED
    BY <2>1, <2>2 DEF StreamInv
<1>6. CASE Frame
  <2>1. PICK o \in Outcomes :
          IF o.rejected \/ o.obs.sync = "inspect_required"
            THEN At("inspect_required", "observation_rejected") /\ Disconnect(o)
            ELSE At("reading", "none") /\ Becomes(o)
    BY <1>6 DEF Frame
  <2>2. Good(o.obs, o.journal, o.highest)
    BY <1>0, OutcomesGood
  <2>3. CASE o.rejected \/ o.obs.sync = "inspect_required"
    <3>1. At("inspect_required", "observation_rejected") /\ Disconnect(o)
      BY <2>1, <2>3
    <3>2. Good(obs, journal, highest)'
      BY <2>2, <3>1, OutcomeShape, DisconnectGood
    <3>3. Fed'
      BY <1>0, <1>6, <3>1 DEF Frame, Reads, At, Fed, StreamFault
    <3> QED
      BY <3>2, <3>3 DEF StreamInv
  <2>4. CASE ~(o.rejected \/ o.obs.sync = "inspect_required")
    <3>1. At("reading", "none") /\ Becomes(o)
      BY <2>1, <2>4
    <3>2. Good(obs, journal, highest)'
      BY <2>2, <3>1, BecomesGood
    <3>3. obs.sync = "contiguous"
      BY <1>0, <1>6 DEF Frame, Reads, Fed
    <3>4. obs'.sync = "contiguous"
      BY <1>0, <2>4, <3>1, <3>3, AcceptedContiguous DEF Becomes
    <3>5. Fed'
      BY <1>0, <1>6, <3>1, <3>4 DEF Frame, Reads, At, Fed, StreamFault
    <3> QED
      BY <3>2, <3>5 DEF StreamInv
  <2> QED
    BY <2>3, <2>4
<1>7. ASSUME NEW fault \in StreamFault, Fails(fault)
      PROVE  StreamInv'
  <2>1. Good(obs, journal, highest)'
    BY <1>0, <1>7, UnreadGood DEF Fails
  <2>2. Fed'
    BY <1>0, <1>7 DEF Fails, Reads, At, Fed
  <2> QED
    BY <2>1, <2>2 DEF StreamInv
<1>8. CASE BadBytes \/ BadFrame \/ Lost
  BY <1>7, <1>8 DEF BadBytes, BadFrame, Lost, StreamFault
<1>9. CASE EndOfFile
  <2>1. Good(obs, journal, highest)'
    BY <1>0, <1>9, UnreadGood DEF EndOfFile
  <2>2. CASE EndsWell
    <3>1. obs' = obs /\ At("ended", "none") /\ Reads
      BY <1>0, <1>9, <2>2, UnreadGood DEF EndOfFile
    <3>2. Fed'
      BY <1>0, <2>2, <3>1 DEF EndsWell, Reads, At, Fed, StreamFault
    <3> QED
      BY <2>1, <3>2 DEF StreamInv
  <2>3. CASE ~EndsWell
    <3>1. PICK fault \in StreamFault : At("inspect_required", fault)
      BY <1>9, <2>3 DEF EndOfFile, StreamFault
    <3>2. Fed'
      BY <1>0, <1>9, <3>1 DEF EndOfFile, Reads, At, Fed
    <3> QED
      BY <2>1, <3>2 DEF StreamInv
  <2> QED
    BY <2>2, <2>3
<1>10. CASE CloseStream
  <2>1. Good(obs, journal, highest)'
    BY <1>0, <1>10, ForgetGood DEF CloseStream
  <2>2. Fed'
    BY <1>0, <1>10 DEF CloseStream, At, Fed, StreamFault
  <2> QED
    BY <2>1, <2>2 DEF StreamInv
<1>11. CASE UNCHANGED streamVars
  BY <1>0, <1>11 DEF StreamInv, streamVars, Good, Counted, Told, OneRun, Justified, LastAsked, Fed
<1> QED
  BY <1>1, <1>2, <1>3, <1>4, <1>5, <1>6, <1>8, <1>9, <1>10, <1>11 DEF StreamNext

LEMMA StreamInvariant == StreamSpec => []StreamInv
  BY StreamInvInit, StreamInvNext, PTL DEF StreamSpec

(* "contiguous" is a promise, and so is an end: nothing the observer was    *)
(* shown lies beyond what it has applied, and a stream ends only with the   *)
(* run it told of, whatever the source sends and however long.              *)
THEOREM ContiguousIsComplete == StreamSpec => []ContiguousMeansComplete
<1>1. StreamInv => ContiguousMeansComplete
  BY DEF StreamInv, Fed, Good, Counted, Observer, ContiguousMeansComplete
<1> QED
  BY <1>1, StreamInvariant, PTL

(* The journal tells the story of one run, of any length.                  *)
THEOREM JournalTellsOneRun == StreamSpec => []JournalIsOneRun
<1>1. StreamInv => JournalIsOneRun
  BY DEF StreamInv, Good, OneRun, JournalIsOneRun
<1> QED
  BY <1>1, StreamInvariant, PTL

-----------------------------------------------------------------------------
(* Inputs. *)

InputsSpec == InputsInit /\ [][InputsNext]_inputVars

Readers ==
  [status : {"idle", "reading", "checking", "matched", "rejected", "taken", "closed"}, got : Nat, sound : BOOLEAN, holds : BOOLEAN]
Past == {"awaiting_bytes", "reading_bytes", "ready", "taken"}

InputsTyped ==
  /\ owner \in {"bundle", "handoff"} /\ chosen \in Inputs
  /\ bundle \in {"idle", "awaiting_producers", "awaiting_artifacts", "reading_artifacts", "ready", "taken", "rejected", "closed"}
  /\ producer \in [Producers -> {"idle", "observing", "matched", "closed"}]
  /\ handoff \in [Producers -> {"idle", "observing", "rejected", "closed"} \cup Past]
  /\ told \in [Producers -> {"idle", "reading", "closed"} \cup Endings]
  /\ reader \in [Inputs -> Readers]
  /\ returned \subseteq Producers /\ heard \subseteq Producers

(* Who got past a stream's end was told of a match; whose digest was        *)
(* checked is what was declared.                                           *)
Matches ==
  /\ \A p \in Producers : handoff[p] \in Past \/ producer[p] = "matched" => told[p] = "match"
  /\ \A i \in Inputs : reader[i].status = "matched" => reader[i].sound

Still(i) == reader[i].status = "closed" /\ ~reader[i].holds

(* An owner alone with one producer listens to no other.                    *)
AloneInv ==
  /\ returned \subseteq {Maker} /\ \A p \in Producers : producer[p] # "matched" /\ (told[p] = "reading" => p = Maker)
  /\ handoff[Maker] \in {"rejected", "closed"} => Still(chosen)
  /\ handoff[Maker] = "ready" => reader[chosen].status = "matched"
  /\ DOMAIN delivered # {} => handoff[Maker] \in {"taken", "closed"}

(* A bundle that is stopped listens to nobody, and one that handed over     *)
(* takes up nothing.                                                       *)
BundledInv ==
  /\ Stopped => (\A i \in Inputs : Still(i)) /\ (\A p \in Producers : told[p] # "reading")
  /\ bundle \in {"taken", "rejected", "closed"} => \A p \in Producers : handoff[p] = "closed"
  /\ DOMAIN delivered # {} => bundle \in {"taken", "rejected", "closed"}

Given ==
  /\ DOMAIN delivered \in {{}, Mine}
  /\ \A i \in DOMAIN delivered : delivered[i] /\ told[Source[i]] = "match"

InputsInv ==
  /\ InputsTyped /\ Matches /\ Given
  /\ owner = "handoff" => AloneInv
  /\ owner = "bundle" => BundledInv

-----------------------------------------------------------------------------
LEMMA InputsStart == InputsInit => InputsInv
<1> SUFFICES ASSUME InputsInit PROVE InputsInv
  OBVIOUS
<1> USE InputsAssumption
<1>1. NewReader \in Readers /\ NewReader.status = "idle"
  BY DEF NewReader, Readers
<1>2. InputsTyped
  BY <1>1 DEF InputsInit, InputsTyped
<1>3. Matches
  BY <1>1 DEF InputsInit, Matches, Past
<1>4. DOMAIN delivered = {}
  BY DEF InputsInit
<1>5. Given
  BY <1>4 DEF Given
<1>6. AloneInv /\ BundledInv
  BY <1>4 DEF InputsInit, AloneInv, BundledInv, Stopped, Maker
<1> QED BY <1>2, <1>3, <1>5, <1>6 DEF InputsInv

(* A reader's own step leaves those alone that rest.                       *)
LEMMA ReaderMoves ==
  ASSUME InputsInv, NEW i \in Inputs, Arrives(i) \/ Breaks(i) \/ Ends(i) \/ Digest(i)
  PROVE  /\ reader' \in [Inputs -> Readers]
         /\ \A j \in Inputs : reader'[j].status = "matched" => reader'[j].sound
         /\ \A j \in Inputs : reader[j].status \notin {"reading", "checking"} => reader'[j] = reader[j]
         /\ UNCHANGED <<owner, chosen, bundle, producer, handoff, told, returned, heard, delivered>>
<1>1. reader \in [Inputs -> Readers] /\ reader[i] \in Readers /\ \A j \in Inputs : reader[j].status = "matched" => reader[j].sound
  BY DEF InputsInv, InputsTyped, Matches
<1>2. UNCHANGED <<owner, chosen, bundle, producer, handoff, told, returned, heard, delivered>>
  BY DEF Arrives, Breaks, Ends, Digest, OwnerStays, Unmoved
<1>3. Rejected(reader[i]) \in Readers /\ Rejected(reader[i]).status = "rejected"
  BY <1>1 DEF Rejected, Readers
<1>4. SUFFICES \E r \in Readers : /\ reader' = [reader EXCEPT ![i] = r] /\ (r.status = "matched" => r.sound)
                                  /\ reader[i].status \in {"reading", "checking"}
  BY <1>1, <1>2, <1>4
<1>5. CASE Arrives(i)
  <2>1. PICK k \in 0..Size, right \in BOOLEAN : reader' = [reader EXCEPT ![i] = Gathered(reader[i], k, right)]
    BY <1>5 DEF Arrives
  <2>2. reader[i].got + k \in Nat
    BY <1>1, InputsAssumption DEF Readers
  <2>3. (reader[i].sound /\ (right \/ k = 0)) \in BOOLEAN
    OBVIOUS
  <2>4. Gathered(reader[i], k, right) \in Readers /\ Gathered(reader[i], k, right).status # "matched"
    <3>1. CASE reader[i].got + k > Size
      BY <1>3, <3>1 DEF Gathered
    <3>2. CASE ~(reader[i].got + k > Size)
      <4>1. Gathered(reader[i], k, right) = [reader[i] EXCEPT !.got = reader[i].got + k, !.sound = reader[i].sound /\ (right \/ k = 0)]
        BY <3>2 DEF Gathered
      <4> QED BY <1>1, <1>5, <2>2, <2>3, <4>1 DEF Readers, Arrives
    <3> QED BY <3>1, <3>2
  <2> QED BY <1>5, <2>1, <2>4 DEF Arrives
<1>6. CASE Breaks(i)
  BY <1>3, <1>6 DEF Breaks
<1>7. CASE Ends(i)
  <2>1. [reader[i] EXCEPT !.status = "checking"] \in Readers /\ [reader[i] EXCEPT !.status = "checking"].status = "checking"
    BY <1>1 DEF Readers
  <2> QED BY <1>3, <1>7, <2>1 DEF Ends
<1>8. CASE Digest(i)
  <2> DEFINE r == IF reader[i].sound THEN [reader[i] EXCEPT !.status = "matched"] ELSE Rejected(reader[i])
  <2>1. r \in Readers /\ (r.status = "matched" => r.sound)
    BY <1>1, <1>3 DEF Readers
  <2>2. reader' = [reader EXCEPT ![i] = r] /\ reader[i].status = "checking"
    BY <1>8 DEF Digest
  <2> QED BY <2>1, <2>2
<1> QED BY <1>5, <1>6, <1>7, <1>8

(* Closing readers and reports undoes no match.                            *)
LEMMA ClosedReaders ==
  ASSUME InputsInv, NEW I \in SUBSET Inputs
  PROVE  /\ CloseReaders(I) \in [Inputs -> Readers]
         /\ \A i \in Inputs : CloseReaders(I)[i] = IF i \in I THEN ClosedReader ELSE reader[i]
         /\ ClosedReader.status = "closed" /\ ~ClosedReader.holds
  BY DEF CloseReaders, ClosedReader, NewReader, Readers, InputsInv, InputsTyped

LEMMA ClosedTold ==
  ASSUME InputsInv, NEW P \in SUBSET Producers
  PROVE  /\ ClosedReports(P) \in [Producers -> {"idle", "reading", "closed"} \cup Endings]
         /\ \A p \in Producers : /\ told[p] = "match" => ClosedReports(P)[p] = "match"
                                 /\ p \in P => ClosedReports(P)[p] # "reading"
                                 /\ p \notin P => ClosedReports(P)[p] = told[p]
  BY DEF ClosedReports, InputsInv, InputsTyped, Endings
(* What stays when neither the owner nor what was given changes.            *)
LEMMA GivenStays ==
  ASSUME InputsInv, UNCHANGED <<owner, chosen, delivered>>, \A p \in Producers : told[p] = "match" => told'[p] = "match"
  PROVE  Given'
<1>1. DOMAIN delivered \subseteq Inputs
  BY DEF InputsInv, InputsTyped, Given, Mine
<1>2. \A i \in DOMAIN delivered : Source[i] \in Producers
  BY <1>1, InputsAssumption
<1> QED BY <1>2 DEF InputsInv, Given, Mine

LEMMA MakerProduces == InputsInv => Maker \in Producers /\ chosen \in Inputs
  BY InputsAssumption DEF InputsInv, InputsTyped, Maker

(* Everything is closed.                                                   *)
LEMMA RejectedInv ==
  ASSUME InputsInv, owner = "bundle", UNCHANGED <<owner, chosen, delivered>>, ClearOwned, bundle' \in {"rejected", "closed"},
         returned' \subseteq Producers, heard' \subseteq Producers
  PROVE  InputsInv'
<1>1. reader' = CloseReaders(Inputs) /\ told' = ClosedReports(Producers)
  BY DEF ClearOwned, ToClose
<1>2. /\ producer' \in [Producers -> {"closed"}] /\ handoff' \in [Producers -> {"closed"}]
      /\ \A p \in Producers : producer'[p] = "closed" /\ handoff'[p] = "closed"
  BY DEF ClearOwned
<1>3. reader' \in [Inputs -> Readers] /\ \A i \in Inputs : reader'[i].status = "closed" /\ ~reader'[i].holds
  BY <1>1, ClosedReaders
<1>4. /\ told' \in [Producers -> {"idle", "reading", "closed"} \cup Endings]
      /\ \A p \in Producers : told'[p] # "reading" /\ (told[p] = "match" => told'[p] = "match")
  BY <1>1, ClosedTold
<1>5. InputsTyped'
  BY <1>2, <1>3, <1>4 DEF InputsInv, InputsTyped
<1>6. Matches'
  BY <1>2, <1>3 DEF Matches, Past
<1>7. Given'
  BY <1>4, GivenStays
<1>8. BundledInv'
  BY <1>2, <1>3, <1>4 DEF BundledInv, Still
<1> QED BY <1>5, <1>6, <1>7, <1>8 DEF InputsInv

LEMMA SharedSteps == InputsInv /\ (ReaderStep \/ StreamEnds \/ HandoffHears) => InputsInv'
<1> SUFFICES ASSUME InputsInv, ReaderStep \/ StreamEnds \/ HandoffHears PROVE InputsInv'
  OBVIOUS
<1>1. CASE ReaderStep
  <2>1. PICK i \in Inputs : Arrives(i) \/ Breaks(i) \/ Ends(i) \/ Digest(i)
    BY <1>1 DEF ReaderStep
  <2>2. /\ reader' \in [Inputs -> Readers]
        /\ \A j \in Inputs : reader'[j].status = "matched" => reader'[j].sound
        /\ \A j \in Inputs : reader[j].status \notin {"reading", "checking"} => reader'[j] = reader[j]
        /\ UNCHANGED <<owner, chosen, bundle, producer, handoff, told, returned, heard, delivered>>
    BY <2>1, ReaderMoves
  <2>3. InputsTyped' /\ Matches'
    BY <2>2 DEF InputsInv, InputsTyped, Matches
  <2>4. Given'
    BY <2>2 DEF InputsInv, Given, Mine
  <2>5. owner = "handoff" => AloneInv'
    BY <2>2, MakerProduces DEF InputsInv, AloneInv, Still, Maker
  <2>6. owner = "bundle" => BundledInv'
    BY <2>2 DEF InputsInv, BundledInv, Still, Stopped
  <2> QED BY <2>2, <2>3, <2>4, <2>5, <2>6 DEF InputsInv
<1>2. CASE StreamEnds
  <2>1. PICK p \in Producers, e \in Endings :
          told[p] = "reading" /\ told' = [told EXCEPT ![p] = e] /\ returned' = returned \cup {p}
    BY <1>2 DEF StreamEnds
  <2>2. UNCHANGED <<owner, chosen, bundle, producer, handoff, reader, heard, delivered>>
    BY <1>2 DEF StreamEnds, Unmoved
  <2>3. told' \in [Producers -> {"idle", "reading", "closed"} \cup Endings]
    BY <2>1 DEF InputsInv, InputsTyped
  <2>4. \A q \in Producers : (told[q] = "match" => told'[q] = "match") /\ (told'[q] = "reading" => told[q] = "reading")
    BY <2>1 DEF InputsInv, InputsTyped, Endings
  <2>5. InputsTyped'
    BY <2>1, <2>2, <2>3 DEF InputsInv, InputsTyped
  <2>6. Matches'
    BY <2>2, <2>4 DEF InputsInv, Matches
  <2>7. Given'
    BY <2>2, <2>4, GivenStays
  <2>8. owner = "handoff" => AloneInv'
    BY <2>1, <2>2, <2>4 DEF InputsInv, AloneInv, Still, Maker
  <2>9. owner = "bundle" => BundledInv'
    BY <2>1, <2>2, <2>4 DEF InputsInv, BundledInv, Still, Stopped
  <2> QED BY <2>2, <2>5, <2>6, <2>7, <2>8, <2>9 DEF InputsInv
<1>3. CASE HandoffHears
  <2>1. PICK p \in Producers :
          /\ p \in returned /\ handoff[p] \in {"observing", "closed"}
          /\ handoff' = [handoff EXCEPT ![p] = IF handoff[p] = "closed" THEN "closed" ELSE Heeds(told[p])]
          /\ returned' = returned \ {p} /\ heard' = heard \cup {q \in {p} : owner = "bundle"}
          /\ reader' = IF owner = "handoff" /\ handoff'[p] = "rejected" THEN CloseReaders({chosen}) ELSE reader
    BY <1>3 DEF HandoffHears
  <2>2. UNCHANGED <<owner, chosen, bundle, producer, told, delivered>>
    BY <1>3 DEF HandoffHears, Unmoved
  <2>3. /\ \A q \in Producers : q # p => handoff'[q] = handoff[q]
        /\ handoff[p] = "closed" => handoff'[p] = "closed"
        /\ handoff[p] # "closed" => handoff'[p] = Heeds(told[p])
        /\ Heeds(told[p]) \in {"awaiting_bytes", "rejected"} /\ (Heeds(told[p]) = "awaiting_bytes" => told[p] = "match")
        /\ handoff' \in [Producers -> {"idle", "observing", "rejected", "closed"} \cup Past]
    BY <2>1 DEF InputsInv, InputsTyped, Heeds, Past
  <2>4. /\ reader' \in [Inputs -> Readers]
        /\ \A i \in Inputs : reader'[i] = reader[i] \/ (reader'[i].status = "closed" /\ ~reader'[i].holds)
        /\ owner = "bundle" => reader' = reader
        /\ owner = "handoff" /\ handoff'[p] = "rejected" => reader'[chosen].status = "closed" /\ ~reader'[chosen].holds
    <3>1. {chosen} \in SUBSET Inputs /\ reader \in [Inputs -> Readers]
      BY DEF InputsInv, InputsTyped
    <3> QED BY <2>1, <3>1, ClosedReaders
  <2>5. InputsTyped'
    BY <2>1, <2>2, <2>3, <2>4 DEF InputsInv, InputsTyped
  <2>6. Matches'
    BY <2>2, <2>3, <2>4 DEF InputsInv, Matches, Past
  <2>7. Given'
    BY <2>2 DEF InputsInv, Given, Mine
  <2>8. owner = "handoff" => AloneInv'
    <3> SUFFICES ASSUME owner = "handoff" PROVE AloneInv'
      OBVIOUS
    <3>1. p = Maker /\ UNCHANGED Maker /\ AloneInv
      BY <2>1, <2>2 DEF InputsInv, AloneInv, Maker
    <3>2. CASE handoff[p] = "closed"
      <4>1. handoff' = handoff /\ reader'[chosen] \in Readers /\ reader'[chosen].status = "closed" /\ ~reader'[chosen].holds
        BY <2>1, <2>3, <2>4, <3>1, <3>2 DEF AloneInv, Still, InputsInv, InputsTyped
      <4> QED BY <2>1, <2>2, <3>1, <3>2, <4>1 DEF AloneInv, Still
    <3>3. CASE handoff[p] = "observing"
      <4>1. DOMAIN delivered = {}
        BY <3>1, <3>3 DEF AloneInv
      <4> QED BY <2>1, <2>2, <2>3, <2>4, <3>1, <3>3, <4>1 DEF AloneInv, Still
    <3> QED BY <2>1, <3>2, <3>3
  <2>9. owner = "bundle" => BundledInv'
    <3> SUFFICES ASSUME owner = "bundle" PROVE BundledInv'
      OBVIOUS
    <3> QED BY <2>2, <2>3, <2>4 DEF InputsInv, BundledInv, Still, Stopped
  <2> QED BY <2>2, <2>5, <2>6, <2>7, <2>8, <2>9 DEF InputsInv
<1> QED BY <1>1, <1>2, <1>3
(* The step of an owner with one producer: what it makes of its handoff, of *)
(* its reader and of its report.                                           *)
AloneMove(h, t, r) ==
  /\ h \in {"idle", "observing", "rejected", "closed"} \cup Past /\ handoff' = [handoff EXCEPT ![Maker] = h]
  /\ t \in {"idle", "reading", "closed"} \cup Endings /\ told' = [told EXCEPT ![Maker] = t]
  /\ r \in Readers /\ reader' = [reader EXCEPT ![chosen] = r] /\ (r.status = "matched" => r.sound)
  /\ h \in Past => t = "match"
  /\ h = "ready" => r.status = "matched"
  /\ h \in {"rejected", "closed"} => r.status = "closed" /\ ~r.holds
  /\ DOMAIN delivered' # {} => h \in {"taken", "closed"}

LEMMA AloneKeeps ==
  ASSUME InputsInv, Alone, NEW h, NEW t, NEW r, AloneMove(h, t, r)
  PROVE  InputsTyped' /\ Matches' /\ AloneInv'
<1> USE DEF AloneMove
<1>1. UNCHANGED <<owner, chosen, bundle, producer, returned, heard>> /\ UNCHANGED Maker /\ owner = "handoff"
  BY DEF Alone, Unmoved, Maker
<1>2. Maker \in Producers /\ chosen \in Inputs
  BY MakerProduces
<1>3. InputsTyped'
  BY <1>1, <1>2 DEF InputsInv, InputsTyped
<1>4. /\ handoff'[Maker] = h /\ told'[Maker] = t /\ reader'[chosen] = r
      /\ \A p \in Producers : p # Maker => handoff'[p] = handoff[p] /\ told'[p] = told[p]
      /\ \A i \in Inputs : i # chosen => reader'[i] = reader[i]
  BY <1>2 DEF InputsInv, InputsTyped
<1>5. \A p \in Producers : producer[p] # "matched"
  BY <1>1 DEF InputsInv, AloneInv
<1>6. Matches'
  <2>1. \A p \in Producers : handoff'[p] \in Past => told'[p] = "match"
    BY <1>4 DEF InputsInv, Matches
  <2>2. \A i \in Inputs : reader'[i].status = "matched" => reader'[i].sound
    BY <1>4 DEF InputsInv, Matches
  <2> QED BY <1>1, <1>5, <2>1, <2>2 DEF Matches
<1>7. AloneInv'
  BY <1>1, <1>4 DEF InputsInv, AloneInv, Still
<1> QED BY <1>3, <1>6, <1>7

LEMMA AloneSteps ==
  InputsInv /\ (HandoffObserve \/ HandoffRead \/ HandoffGoesOn \/ HandoffTake \/ HandoffClose) => InputsInv'
<1> SUFFICES ASSUME InputsInv, HandoffObserve \/ HandoffRead \/ HandoffGoesOn \/ HandoffTake \/ HandoffClose PROVE InputsInv'
  OBVIOUS
<1>1. Alone /\ owner = "handoff" /\ UNCHANGED <<owner, chosen>> /\ AloneInv
  BY DEF HandoffObserve, HandoffRead, HandoffGoesOn, HandoffTake, HandoffClose, Alone, Unmoved, InputsInv
<1>2. Maker \in Producers /\ chosen \in Inputs /\ Source[chosen] = Maker
  BY MakerProduces DEF Maker
<1>3. /\ reader \in [Inputs -> Readers] /\ reader[chosen] \in Readers /\ (reader[chosen].status = "matched" => reader[chosen].sound)
      /\ told \in [Producers -> {"idle", "reading", "closed"} \cup Endings] /\ told[Maker] \in {"idle", "reading", "closed"} \cup Endings
      /\ handoff[Maker] \in Past => told[Maker] = "match"
  BY <1>2 DEF InputsInv, InputsTyped, Matches
<1>4. UNCHANGED reader => reader' = [reader EXCEPT ![chosen] = reader[chosen]]
  BY <1>3
<1>5. UNCHANGED told => told' = [told EXCEPT ![Maker] = told[Maker]]
  BY <1>3
<1>6. CloseReaders({chosen}) = [reader EXCEPT ![chosen] = ClosedReader] /\ ClosedReader \in Readers
      /\ ClosedReader.status = "closed" /\ ~ClosedReader.holds
  BY <1>3 DEF CloseReaders, ClosedReader, NewReader, Readers
<1>7. CASE HandoffObserve
  <2>1. /\ handoff[Maker] = "idle" /\ handoff' = [handoff EXCEPT ![Maker] = "observing"]
        /\ told' = [told EXCEPT ![Maker] = "reading"] /\ UNCHANGED <<reader, delivered>>
    BY <1>7 DEF HandoffObserve
  <2>2. DOMAIN delivered = {}
    BY <1>1, <2>1 DEF AloneInv
  <2>3. InputsTyped' /\ Matches' /\ AloneInv'
    <3>1. AloneMove("observing", "reading", reader[chosen])
      BY <1>3, <1>4, <2>1, <2>2 DEF AloneMove, Past, Endings
    <3> QED BY <1>1, <3>1, AloneKeeps
  <2>4. Given'
    BY <2>1, <2>2 DEF Given
  <2> QED BY <1>1, <2>3, <2>4 DEF InputsInv
<1>8. CASE HandoffRead
  <2>1. PICK r \in Opened(reader[chosen]) : reader' = [reader EXCEPT ![chosen] = r]
    BY <1>8 DEF HandoffRead
  <2>2. /\ handoff[Maker] = "awaiting_bytes" /\ handoff' = [handoff EXCEPT ![Maker] = "reading_bytes"]
        /\ UNCHANGED <<told, delivered>>
    BY <1>8 DEF HandoffRead
  <2>3. r \in Readers /\ r.status # "matched"
    BY <1>3, <2>1 DEF Opened, Readers
  <2>4. DOMAIN delivered = {}
    BY <1>1, <2>2 DEF AloneInv
  <2>5. told[Maker] = "match"
    BY <1>3, <2>2 DEF Past
  <2>6. InputsTyped' /\ Matches' /\ AloneInv'
    <3>1. AloneMove("reading_bytes", "match", r)
      BY <1>3, <1>5, <2>1, <2>2, <2>3, <2>4, <2>5 DEF AloneMove, Past, Endings
    <3> QED BY <1>1, <3>1, AloneKeeps
  <2>7. Given'
    BY <2>2, <2>4 DEF Given
  <2> QED BY <1>1, <2>6, <2>7 DEF InputsInv
<1>9. CASE HandoffGoesOn
  <2>1. handoff[Maker] = "reading_bytes" /\ UNCHANGED <<told, delivered>>
    BY <1>9 DEF HandoffGoesOn
  <2>2. DOMAIN delivered = {} /\ told[Maker] = "match"
    BY <1>1, <1>3, <2>1 DEF AloneInv, Past
  <2>3. InputsTyped' /\ Matches' /\ AloneInv'
    <3>1. CASE reader[chosen].status = "matched"
      <4>1. handoff' = [handoff EXCEPT ![Maker] = "ready"] /\ UNCHANGED reader
        BY <1>9, <3>1 DEF HandoffGoesOn
      <4>2. AloneMove("ready", "match", reader[chosen])
        BY <1>3, <1>4, <1>5, <2>1, <2>2, <3>1, <4>1 DEF AloneMove, Past, Endings
      <4> QED BY <1>1, <4>2, AloneKeeps
    <3>2. CASE reader[chosen].status # "matched"
      <4>1. handoff' = [handoff EXCEPT ![Maker] = "rejected"] /\ reader' = [reader EXCEPT ![chosen] = ClosedReader]
        BY <1>6, <1>9, <3>2 DEF HandoffGoesOn
      <4>2. AloneMove("rejected", "match", ClosedReader)
        BY <1>5, <1>6, <2>1, <2>2, <4>1 DEF AloneMove, Past, Endings
      <4> QED BY <1>1, <4>2, AloneKeeps
    <3> QED BY <3>1, <3>2
  <2>4. Given'
    BY <2>1, <2>2 DEF Given
  <2> QED BY <1>1, <2>3, <2>4 DEF InputsInv
<1>10. CASE HandoffTake
  <2> DEFINE r == [reader[chosen] EXCEPT !.status = "taken", !.holds = FALSE]
  <2>1. /\ handoff[Maker] = "ready" /\ handoff' = [handoff EXCEPT ![Maker] = "taken"] /\ UNCHANGED told
        /\ reader' = [reader EXCEPT ![chosen] = r] /\ delivered' = [i \in {chosen} |-> reader[i].sound]
    BY <1>10 DEF HandoffTake, Taken
  <2>2. r \in Readers /\ r.status = "taken"
    BY <1>3 DEF Readers
  <2>3. told[Maker] = "match" /\ reader[chosen].sound
    BY <1>1, <1>3, <2>1 DEF AloneInv, Past
  <2>4. InputsTyped' /\ Matches' /\ AloneInv'
    <3>1. AloneMove("taken", "match", r)
      BY <1>5, <2>1, <2>2, <2>3 DEF AloneMove, Past, Endings
    <3> QED BY <1>1, <3>1, AloneKeeps
  <2>5. Given'
    BY <1>1, <1>2, <2>1, <2>3 DEF Given, Mine
  <2> QED BY <1>1, <2>4, <2>5 DEF InputsInv
<1>11. CASE HandoffClose
  <2> DEFINE t == IF told[Maker] \in {"idle", "reading"} THEN "closed" ELSE told[Maker]
  <2>1. /\ handoff' = [handoff EXCEPT ![Maker] = "closed"] /\ told' = ClosedReports({Maker})
        /\ reader' = [reader EXCEPT ![chosen] = ClosedReader] /\ UNCHANGED delivered
    BY <1>6, <1>11 DEF HandoffClose
  <2>2. ClosedReports({Maker}) = [told EXCEPT ![Maker] = t] /\ t \in {"idle", "reading", "closed"} \cup Endings
    BY <1>2, <1>3 DEF ClosedReports
  <2>3. InputsTyped' /\ Matches' /\ AloneInv'
    <3>1. AloneMove("closed", t, ClosedReader)
      BY <1>1, <1>6, <2>1, <2>2 DEF AloneMove, Past, Endings, AloneInv
    <3> QED BY <1>1, <3>1, AloneKeeps
  <2>4. Given'
    <3>1. \A p \in Producers : told[p] = "match" => told'[p] = "match"
      BY <1>2, <2>1, ClosedTold
    <3> QED BY <1>1, <2>1, <3>1, GivenStays
  <2> QED BY <1>1, <2>3, <2>4 DEF InputsInv
<1> QED BY <1>7, <1>8, <1>9, <1>10, <1>11
LEMMA BundleSteps ==
  InputsInv /\ (Begin \/ ObserveProducer \/ BundleHears \/ ReadArtifact \/ BundleGoesOn \/ TakeAll \/ Close) => InputsInv'
<1> SUFFICES ASSUME InputsInv, Begin \/ ObserveProducer \/ BundleHears \/ ReadArtifact \/ BundleGoesOn \/ TakeAll \/ Close
             PROVE  InputsInv'
  OBVIOUS
<1>1. owner = "bundle" /\ UNCHANGED <<owner, chosen>> /\ BundledInv
  BY DEF Begin, ObserveProducer, BundleHears, ReadArtifact, BundleGoesOn, TakeAll, Close, Bundled, Unmoved, InputsInv
<1>2. SUFFICES InputsTyped' /\ Matches' /\ Given' /\ BundledInv'
  BY <1>1 DEF InputsInv
<1>3. ASSUME ClearOwned, UNCHANGED delivered, bundle' \in {"rejected", "closed"}, returned' \subseteq Producers, heard' \subseteq Producers
      PROVE  InputsTyped' /\ Matches' /\ Given' /\ BundledInv'
  BY <1>1, <1>3, RejectedInv DEF InputsInv
<1>4. CASE Begin
  BY <1>1, <1>4 DEF Begin, InputsInv, InputsTyped, Matches, Given, Mine, BundledInv, Stopped, Still
<1>5. CASE ObserveProducer
  <2>1. PICK p \in Producers :
          /\ producer[p] = "idle" /\ producer' = [producer EXCEPT ![p] = "observing"]
          /\ handoff' = [handoff EXCEPT ![p] = "observing"] /\ told' = [told EXCEPT ![p] = "reading"]
    BY <1>5 DEF ObserveProducer
  <2>2. bundle = "awaiting_producers" /\ UNCHANGED <<bundle, reader, returned, heard, delivered>>
    BY <1>5 DEF ObserveProducer
  <2>3. DOMAIN delivered = {}
    BY <1>1, <2>2 DEF BundledInv
  <2>4. InputsTyped'
    BY <1>1, <2>1, <2>2 DEF InputsInv, InputsTyped
  <2>5. Matches'
    BY <2>1, <2>2 DEF InputsInv, InputsTyped, Matches, Past
  <2>6. Given' /\ BundledInv'
    BY <2>2, <2>3 DEF Given, BundledInv, Stopped
  <2> QED BY <2>4, <2>5, <2>6
<1>6. CASE BundleHears
  <2>1. PICK p \in Producers :
          /\ p \in heard /\ heard' = heard \ {p}
          /\ CASE Stopped -> UNCHANGED <<bundle, producer, handoff, told, reader>>
               [] ~Stopped /\ handoff[p] # "awaiting_bytes" -> Reject
               [] ~Stopped /\ handoff[p] = "awaiting_bytes" ->
                    /\ producer' = [producer EXCEPT ![p] = "matched"]
                    /\ bundle' = IF \A q \in Producers : producer'[q] = "matched" THEN "awaiting_artifacts" ELSE bundle
                    /\ UNCHANGED <<handoff, told, reader>>
    BY <1>6 DEF BundleHears
  <2>2. UNCHANGED <<returned, delivered>> /\ returned' \subseteq Producers /\ heard' \subseteq Producers
    BY <1>6, <2>1 DEF BundleHears, InputsInv, InputsTyped
  <2>3. CASE Stopped
    <3>1. UNCHANGED <<bundle, producer, handoff, told, reader>>
      BY <2>1, <2>3
    <3> QED BY <1>1, <2>2, <3>1 DEF InputsInv, InputsTyped, Matches, Given, Mine, BundledInv, Stopped, Still
  <2>4. CASE ~Stopped /\ handoff[p] # "awaiting_bytes"
    <3>1. Reject
      BY <2>1, <2>4
    <3> QED BY <1>3, <2>2, <3>1 DEF Reject
  <2>5. CASE ~Stopped /\ handoff[p] = "awaiting_bytes"
    <3>1. /\ producer' = [producer EXCEPT ![p] = "matched"] /\ UNCHANGED <<handoff, told, reader>>
          /\ bundle' \in {"awaiting_artifacts", bundle}
      BY <2>1, <2>5
    <3>2. told[p] = "match" /\ bundle \notin {"taken", "rejected", "closed"}
      BY <1>1, <2>5 DEF InputsInv, Matches, Past, BundledInv
    <3>3. InputsTyped'
      BY <1>1, <2>2, <3>1 DEF InputsInv, InputsTyped
    <3>4. Matches'
      BY <3>1, <3>2 DEF InputsInv, InputsTyped, Matches
    <3>5. Given' /\ BundledInv'
      BY <1>1, <2>2, <3>1, <3>2 DEF InputsInv, Given, Mine, BundledInv, Stopped
    <3> QED BY <3>3, <3>4, <3>5
  <2> QED BY <2>3, <2>4, <2>5
<1>7. CASE ReadArtifact
  <2>0. PICK i \in Inputs : \E r \in Opened(reader[i]) : reader' = [reader EXCEPT ![i] = r]
    BY <1>7 DEF ReadArtifact
  <2>1. PICK r \in Opened(reader[i]) : reader' = [reader EXCEPT ![i] = r]
    BY <2>0
  <2>2. /\ bundle \in {"awaiting_artifacts", "reading_artifacts"} /\ bundle' = "reading_artifacts"
        /\ UNCHANGED <<producer, handoff, told, returned, heard, delivered>>
    BY <1>7 DEF ReadArtifact
  <2>3. r \in Readers /\ r.status # "matched"
    BY <2>1 DEF Opened, Readers, InputsInv, InputsTyped
  <2>4. InputsTyped'
    BY <1>1, <2>1, <2>2, <2>3 DEF InputsInv, InputsTyped
  <2>5. Matches'
    BY <2>1, <2>2, <2>3 DEF InputsInv, InputsTyped, Matches
  <2>6. Given' /\ BundledInv'
    BY <1>1, <2>2 DEF InputsInv, Given, Mine, BundledInv, Stopped
  <2> QED BY <2>4, <2>5, <2>6
<1>8. CASE BundleGoesOn
  <2>1. bundle = "reading_artifacts" /\ UNCHANGED <<returned, heard, delivered>>
    BY <1>8 DEF BundleGoesOn
  <2>2. CASE Reject
    BY <1>3, <2>1, <2>2 DEF Reject, InputsInv, InputsTyped
  <2>3. CASE bundle' = "ready" /\ UNCHANGED <<producer, handoff, told, reader>>
    BY <1>1, <2>1, <2>3 DEF InputsInv, InputsTyped, Matches, Given, Mine, BundledInv, Stopped
  <2> QED BY <1>8, <2>2, <2>3 DEF BundleGoesOn
<1>9. CASE TakeAll
  <2>1. bundle = "ready" /\ UNCHANGED <<returned, heard>>
    BY <1>9 DEF TakeAll
  <2>2. CASE \A i \in Inputs : producer[Source[i]] = "matched" /\ reader[i].status = "matched"
    <3>1. /\ bundle' = "taken" /\ delivered' = [i \in Inputs |-> reader[i].sound]
          /\ reader' = [i \in Inputs |-> [reader[i] EXCEPT !.status = "taken", !.holds = FALSE]]
          /\ handoff' = [p \in Producers |-> "closed"] /\ told' = ClosedReports(Producers) /\ UNCHANGED producer
      BY <1>9, <2>2 DEF TakeAll, Taken
    <3>2. \A i \in Inputs : reader[i].sound /\ Source[i] \in Producers /\ told[Source[i]] = "match"
      BY <2>2, InputsAssumption DEF InputsInv, Matches
    <3>3. /\ told' \in [Producers -> {"idle", "reading", "closed"} \cup Endings]
          /\ \A p \in Producers : told'[p] # "reading" /\ (told[p] = "match" => told'[p] = "match")
      BY <3>1, ClosedTold
    <3>4. reader' \in [Inputs -> Readers] /\ \A i \in Inputs : reader'[i].status = "taken"
      BY <3>1 DEF InputsInv, InputsTyped, Readers
    <3>5. InputsTyped'
      BY <1>1, <2>1, <3>1, <3>3, <3>4 DEF InputsInv, InputsTyped
    <3>6. Matches'
      BY <3>1, <3>3, <3>4 DEF InputsInv, Matches, Past
    <3>7. Given'
      BY <1>1, <3>1, <3>2, <3>3 DEF Given, Mine
    <3>8. BundledInv'
      BY <3>1 DEF BundledInv, Stopped
    <3> QED BY <3>5, <3>6, <3>7, <3>8
  <2>3. CASE ~(\A i \in Inputs : producer[Source[i]] = "matched" /\ reader[i].status = "matched")
    <3>1. Reject /\ UNCHANGED delivered
      BY <1>9, <2>3 DEF TakeAll
    <3> QED BY <1>3, <2>1, <3>1 DEF Reject, InputsInv, InputsTyped
  <2> QED BY <2>2, <2>3
<1>10. CASE Close
  BY <1>3, <1>10 DEF Close, InputsInv, InputsTyped
<1> QED BY <1>4, <1>5, <1>6, <1>7, <1>8, <1>9, <1>10

LEMMA InputsStep == InputsInv /\ [InputsNext]_inputVars => InputsInv'
<1>1. InputsInv /\ UNCHANGED inputVars => InputsInv'
  BY DEF inputVars, InputsInv, InputsTyped, Matches, Given, Mine, AloneInv, BundledInv, Stopped, Still, Maker
<1> QED BY <1>1, SharedSteps, AloneSteps, BundleSteps DEF InputsNext

(* Whatever overlaps, fails or is closed in between, for any number of      *)
(* producers and artifacts of any size: the caller is given every declared  *)
(* input or none, each byte for byte what was declared and from a producer  *)
(* that told of it and ended well; what is not given is not kept.          *)
THEOREM AlwaysAllOrNothing == InputsSpec => []AllOrNothing
<1>1. InputsInv => AllOrNothing
  <2> SUFFICES ASSUME InputsInv PROVE AllOrNothing
    OBVIOUS
  <2>1. NothingKept
    BY DEF InputsInv, InputsTyped, AloneInv, BundledInv, Still, NothingKept, Mine
  <2> QED BY <2>1 DEF InputsInv, Given, AllOrNothing
<1> QED BY <1>1, InputsStart, InputsStep, PTL DEF InputsSpec

(***************************************************************************)
(* The inspection: what is looked at last is as it was when it was looked   *)
(* at first, and what is seen of a file never comes back once it changed.   *)
(***************************************************************************)
InspectionSpec == InspectionInit /\ [][InspectionNext]_inspectionVars

Looks == {"stat_root", "stat_handle", "stat_name"}
Kinds == Looks \cup {"lstat", "open", "read", "begin", "all_read"}
Steps == [do : Kinds, file : Files]
Is(step, do, f) == step = [do |-> do, file |-> f]

(* r is s followed by t.                                                    *)
Joins(r, s, t) ==
  /\ Len(r) = Len(s) + Len(t)
  /\ \A i \in 1..Len(s) : r[i] = s[i]
  /\ \A i \in 1..Len(t) : r[Len(s) + i] = t[i]

(* Where in the inspection its parts are.                                   *)
N == Len(Evidence)
BeginAt == 11 + 6 * N
AllReadAt == 12 + 10 * N

LEMMA OfEvidence ==
  /\ N \in Nat /\ Plan \in Files /\ ToSet(Evidence) \subseteq Files /\ Plan \notin ToSet(Evidence)
  /\ \A m \in 1..N : Evidence[m] \in ToSet(Evidence)
  /\ \A f \in ToSet(Evidence) : \E m \in 1..N : f = Evidence[m]
  BY EvidenceAssumption DEF N, Files, ToSet

LEMMA TwoSteps ==
  ASSUME NEW s \in Kinds, NEW t \in Kinds, NEW f \in Files
  PROVE  /\ Do(<<s, t>>, f) \in Seq(Steps) /\ Len(Do(<<s, t>>, f)) = 2
         /\ Is(Do(<<s, t>>, f)[1], s, f) /\ Is(Do(<<s, t>>, f)[2], t, f)
<1> DEFINE a == [do |-> s, file |-> f]
           b == [do |-> t, file |-> f]
<1>1. Do(<<s, t>>, f) = <<a, b>>
  BY DEF Do
<1>2. a \in Steps /\ b \in Steps /\ Is(a, s, f) /\ Is(b, t, f)
  BY DEF Steps, Is
<1> HIDE DEF a, b
<1>3. <<a, b>> \in Seq(Steps) /\ Len(<<a, b>>) = 2 /\ <<a, b>>[1] = a /\ <<a, b>>[2] = b
  BY <1>2
<1> QED BY <1>1, <1>2, <1>3, Zenon

LEMMA OneStep ==
  ASSUME NEW s \in Kinds, NEW f \in Files
  PROVE  Do(<<s>>, f) \in Seq(Steps) /\ Len(Do(<<s>>, f)) = 1 /\ Is(Do(<<s>>, f)[1], s, f)
<1> DEFINE a == [do |-> s, file |-> f]
<1>1. Do(<<s>>, f) = <<a>>
  BY DEF Do
<1>2. a \in Steps /\ Is(a, s, f)
  BY DEF Steps, Is
<1> HIDE DEF a
<1>3. <<a>> \in Seq(Steps) /\ Len(<<a>>) = 1 /\ <<a>>[1] = a
  BY <1>2
<1> QED BY <1>1, <1>2, <1>3, Zenon

LEMMA VerifySteps ==
  ASSUME NEW f \in Files
  PROVE  /\ Verify(f) \in Seq(Steps) /\ Len(Verify(f)) = 2
         /\ Is(Verify(f)[1], "stat_handle", f) /\ Is(Verify(f)[2], "stat_name", f)
  BY TwoSteps DEF Verify, Kinds, Looks

LEMMA RootStep == CheckRoot \in Seq(Steps) /\ Len(CheckRoot) = 1 /\ Is(CheckRoot[1], "stat_root", Plan)
  BY OneStep, OfEvidence DEF CheckRoot, Kinds, Looks

LEMMA StepByStep ==
  ASSUME NEW S, NEW n \in Nat, NEW s \in [1..n -> S]
  PROVE  s \in Seq(S) /\ Len(s) = n
  OBVIOUS

LEMMA Joined ==
  ASSUME NEW S, NEW s \in Seq(S), NEW t \in Seq(S)
  PROVE  s \o t \in Seq(S) /\ Joins(s \o t, s, t)
  BY ConcatProperties DEF Joins

LEMMA AcquireSteps ==
  ASSUME NEW f \in Files
  PROVE  /\ Acquire(f) \in Seq(Steps) /\ Len(Acquire(f)) = 6 /\ Is(Acquire(f)[2], "lstat", f)
         /\ \A k \in 1..6 : Acquire(f)[k].do \in Looks \/ (Acquire(f)[k].do \in {"lstat", "open"} /\ Acquire(f)[k].file = f)
<1> DEFINE V == Verify(f)
           L == Do(<<"lstat", "open">>, f)
           A == CheckRoot \o L
           B == A \o V
           C == B \o CheckRoot
<1>1. L \in Seq(Steps) /\ Len(L) = 2 /\ Is(L[1], "lstat", f) /\ Is(L[2], "open", f)
  BY TwoSteps DEF Kinds
<1>2. V \in Seq(Steps) /\ Len(V) = 2 /\ Is(V[1], "stat_handle", f) /\ Is(V[2], "stat_name", f)
  BY VerifySteps
<1>3. Acquire(f) = C
  BY DEF Acquire
<1> HIDE DEF L, V
<1>4. A \in Seq(Steps) /\ Joins(A, CheckRoot, L)
  BY <1>1, RootStep, Joined
<1> HIDE DEF A
<1>5. B \in Seq(Steps) /\ Joins(B, A, V)
  BY <1>2, <1>4, Joined
<1> HIDE DEF B
<1>6. C \in Seq(Steps) /\ Joins(C, B, CheckRoot)
  BY <1>5, RootStep, Joined
<1> HIDE DEF C
<1>7. Len(A) = 3 /\ A[1] = CheckRoot[1] /\ A[2] = L[1] /\ A[3] = L[2]
  BY <1>1, <1>4, RootStep DEF Joins
<1>8. Len(B) = 5 /\ B[1] = A[1] /\ B[2] = A[2] /\ B[3] = A[3] /\ B[4] = V[1] /\ B[5] = V[2]
  BY <1>2, <1>5, <1>7 DEF Joins
<1>9. Len(C) = 6 /\ C[1] = B[1] /\ C[2] = B[2] /\ C[3] = B[3] /\ C[4] = B[4] /\ C[5] = B[5] /\ C[6] = CheckRoot[1]
  BY <1>6, <1>8, RootStep DEF Joins
<1>10. /\ Is(C[1], "stat_root", Plan) /\ Is(C[2], "lstat", f) /\ Is(C[3], "open", f)
       /\ Is(C[4], "stat_handle", f) /\ Is(C[5], "stat_name", f) /\ Is(C[6], "stat_root", Plan)
  BY <1>1, <1>2, <1>7, <1>8, <1>9, RootStep
<1>11. \A k \in 1..6 : k \in {1, 2, 3, 4, 5, 6}
  OBVIOUS
<1>12. \A k \in {1, 2, 3, 4, 5, 6} : C[k].do \in Looks \/ (C[k].do \in {"lstat", "open"} /\ C[k].file = f)
  BY <1>10 DEF Is, Looks
<1> QED BY <1>3, <1>6, <1>9, <1>10, <1>11, <1>12

LEMMA StreamSteps ==
  ASSUME NEW f \in Files
  PROVE  /\ Stream(f) \in Seq(Steps) /\ Len(Stream(f)) = 4 /\ Is(Stream(f)[1], "read", f)
         /\ \A k \in 1..4 : Stream(f)[k].do \in Looks \cup {"read"} /\ Stream(f)[k].file = f
<1> DEFINE V == Verify(f)
           L == Do(<<"read", "read">>, f)
           C == L \o V
<1>1. L \in Seq(Steps) /\ Len(L) = 2 /\ Is(L[1], "read", f) /\ Is(L[2], "read", f)
  BY TwoSteps DEF Kinds
<1>2. V \in Seq(Steps) /\ Len(V) = 2 /\ Is(V[1], "stat_handle", f) /\ Is(V[2], "stat_name", f)
  BY VerifySteps
<1>3. Stream(f) = C
  BY DEF Stream
<1> HIDE DEF L, V
<1>4. C \in Seq(Steps) /\ Joins(C, L, V)
  BY <1>1, <1>2, Joined
<1> HIDE DEF C
<1>5. Len(C) = 4 /\ C[1] = L[1] /\ C[2] = L[2] /\ C[3] = V[1] /\ C[4] = V[2]
  BY <1>1, <1>2, <1>4 DEF Joins
<1>6. Is(C[1], "read", f) /\ Is(C[2], "read", f) /\ Is(C[3], "stat_handle", f) /\ Is(C[4], "stat_name", f)
  BY <1>1, <1>2, <1>5
<1>7. \A k \in 1..4 : k \in {1, 2, 3, 4}
  OBVIOUS
<1>8. \A k \in {1, 2, 3, 4} : C[k].do \in Looks \cup {"read"} /\ C[k].file = f
  BY <1>6 DEF Is, Looks
<1> QED BY <1>3, <1>4, <1>5, <1>6, <1>7, <1>8

(* Position i of the parts of n steps, and where the first of a part is.    *)
LEMMA PartOf ==
  ASSUME NEW n \in {2, 4, 6}, NEW len \in Nat, NEW i \in 1..(n * len)
  PROVE  1 + ((i - 1) \div n) \in 1..len /\ 1 + ((i - 1) % n) \in 1..n
<1>1. CASE n = 2
  BY <1>1
<1>2. CASE n = 4
  BY <1>2
<1>3. CASE n = 6
  BY <1>3
<1> QED BY <1>1, <1>2, <1>3

LEMMA StepOfPart ==
  ASSUME NEW n \in {2, 4, 6}, NEW len \in Nat, NEW m \in 1..len, NEW k \in 1..n
  PROVE  LET i == n * (m - 1) + k
         IN  i \in 1..(n * len) /\ 1 + ((i - 1) \div n) = m /\ 1 + ((i - 1) % n) = k
<1>1. CASE n = 2
  BY <1>1
<1>2. CASE n = 4
  BY <1>2
<1>3. CASE n = 6
  BY <1>3
<1> QED BY <1>1, <1>2, <1>3

LEMMA AcquireAll ==
  LET S == All(Acquire, 6, Evidence)
  IN  /\ S \in Seq(Steps) /\ Len(S) = 6 * N
      /\ \A i \in 1..(6 * N) : S[i].do \in Looks \/ (S[i].do \in {"lstat", "open"} /\ S[i].file \in ToSet(Evidence))
      /\ \A f \in ToSet(Evidence) : \E i \in 1..(6 * N) : Is(S[i], "lstat", f)
<1> DEFINE S == All(Acquire, 6, Evidence)
<1>1. N \in Nat /\ 6 * N \in Nat
  BY OfEvidence
<1>2. S = [i \in 1..(6 * N) |-> Acquire(Evidence[1 + ((i - 1) \div 6)])[1 + ((i - 1) % 6)]]
  BY DEF All, N
<1> HIDE DEF S
<1>3. ASSUME NEW i \in 1..(6 * N)
      PROVE  S[i] \in Steps /\ (S[i].do \in Looks \/ (S[i].do \in {"lstat", "open"} /\ S[i].file \in ToSet(Evidence)))
  <2> DEFINE m == 1 + ((i - 1) \div 6)
             k == 1 + ((i - 1) % 6)
  <2>1. m \in 1..N /\ k \in 1..6
    BY <1>1, PartOf
  <2>2. S[i] = Acquire(Evidence[m])[k]
    BY <1>2
  <2> HIDE DEF m, k
  <2>3. Evidence[m] \in ToSet(Evidence) /\ Evidence[m] \in Files
    BY <2>1, OfEvidence
  <2> DEFINE A == Acquire(Evidence[m])
  <2>4. /\ A \in Seq(Steps) /\ Len(A) = 6
        /\ \A l \in 1..6 : A[l].do \in Looks \/ (A[l].do \in {"lstat", "open"} /\ A[l].file = Evidence[m])
    BY <2>3, AcquireSteps
  <2> HIDE DEF A
  <2>5. A[k] \in Steps
    BY <2>1, <2>4, ElementOfSeq
  <2> QED BY <2>1, <2>2, <2>3, <2>4, <2>5 DEF A
<1>4. ASSUME NEW f \in ToSet(Evidence) PROVE \E i \in 1..(6 * N) : Is(S[i], "lstat", f)
  <2>1. PICK m \in 1..N : f = Evidence[m]
    BY OfEvidence
  <2> DEFINE i == 6 * (m - 1) + 2
  <2>2. i \in 1..(6 * N) /\ 1 + ((i - 1) \div 6) = m /\ 1 + ((i - 1) % 6) = 2
    BY <1>1, StepOfPart
  <2>3. S[i] = Acquire(f)[2]
    BY <1>2, <2>1, <2>2
  <2>4. Is(Acquire(f)[2], "lstat", f)
    BY OfEvidence, AcquireSteps
  <2> QED BY <2>2, <2>3, <2>4
<1>5. S \in Seq(Steps) /\ Len(S) = 6 * N
  <2>1. S \in [1..(6 * N) -> Steps]
    BY <1>2, <1>3
  <2> QED BY <1>1, <2>1, StepByStep
<1> QED BY <1>3, <1>4, <1>5 DEF S

LEMMA StreamAll ==
  LET S == All(Stream, 4, Evidence)
  IN  /\ S \in Seq(Steps) /\ Len(S) = 4 * N
      /\ \A i \in 1..(4 * N) : S[i].do \in Looks \cup {"read"}
      /\ \A f \in ToSet(Evidence) : \E i \in 1..(4 * N) : Is(S[i], "read", f)
<1> DEFINE S == All(Stream, 4, Evidence)
<1>1. N \in Nat /\ 4 * N \in Nat
  BY OfEvidence
<1>2. S = [i \in 1..(4 * N) |-> Stream(Evidence[1 + ((i - 1) \div 4)])[1 + ((i - 1) % 4)]]
  BY DEF All, N
<1> HIDE DEF S
<1>3. ASSUME NEW i \in 1..(4 * N)
      PROVE  S[i] \in Steps /\ S[i].do \in Looks \cup {"read"}
  <2> DEFINE m == 1 + ((i - 1) \div 4)
             k == 1 + ((i - 1) % 4)
  <2>1. m \in 1..N /\ k \in 1..4
    BY <1>1, PartOf
  <2>2. S[i] = Stream(Evidence[m])[k]
    BY <1>2
  <2> HIDE DEF m, k
  <2>3. Evidence[m] \in Files
    BY <2>1, OfEvidence
  <2> DEFINE A == Stream(Evidence[m])
  <2>4. A \in Seq(Steps) /\ Len(A) = 4 /\ \A l \in 1..4 : A[l].do \in Looks \cup {"read"}
    BY <2>3, StreamSteps
  <2> HIDE DEF A
  <2>5. A[k] \in Steps
    BY <2>1, <2>4, ElementOfSeq
  <2> QED BY <2>1, <2>2, <2>4, <2>5 DEF A
<1>4. ASSUME NEW f \in ToSet(Evidence) PROVE \E i \in 1..(4 * N) : Is(S[i], "read", f)
  <2>1. PICK m \in 1..N : f = Evidence[m]
    BY OfEvidence
  <2> DEFINE i == 4 * (m - 1) + 1
  <2>2. i \in 1..(4 * N) /\ 1 + ((i - 1) \div 4) = m /\ 1 + ((i - 1) % 4) = 1
    BY <1>1, StepOfPart
  <2>3. S[i] = Stream(f)[1]
    BY <1>2, <2>1, <2>2
  <2>4. Is(Stream(f)[1], "read", f)
    BY OfEvidence, StreamSteps
  <2> QED BY <2>2, <2>3, <2>4
<1>5. S \in Seq(Steps) /\ Len(S) = 4 * N
  <2>1. S \in [1..(4 * N) -> Steps]
    BY <1>2, <1>3
  <2> QED BY <1>1, <2>1, StepByStep
<1> QED BY <1>3, <1>4, <1>5 DEF S

LEMMA VerifyAll ==
  LET S == All(Verify, 2, <<Plan>> \o Evidence)
  IN  /\ S \in Seq(Steps) /\ Len(S) = 2 * (N + 1)
      /\ \A i \in 1..(2 * (N + 1)) : S[i].do \in Looks
      /\ \A f \in Files : \E i \in 1..(2 * (N + 1)) : Is(S[i], "stat_handle", f)
<1> DEFINE E == <<Plan>> \o Evidence
           S == All(Verify, 2, E)
<1>1. N \in Nat /\ N + 1 \in Nat /\ 2 * (N + 1) \in Nat
  BY OfEvidence
<1>2. Len(E) = N + 1 /\ E[1] = Plan /\ \A m \in 1..N : E[1 + m] = Evidence[m]
  <2>1. <<Plan>> \in Seq(Files) /\ Len(<<Plan>>) = 1 /\ <<Plan>>[1] = Plan
    BY OfEvidence
  <2>2. Evidence \in Seq(Files)
    BY OfEvidence, EvidenceAssumption
  <2>3. Joins(E, <<Plan>>, Evidence)
    BY <2>1, <2>2, Joined
  <2> HIDE DEF E
  <2> QED BY <1>1, <2>1, <2>3 DEF Joins, N
<1>3. S = [i \in 1..(2 * (N + 1)) |-> Verify(E[1 + ((i - 1) \div 2)])[1 + ((i - 1) % 2)]]
  BY <1>2 DEF All
<1> HIDE DEF S, E
<1>4. ASSUME NEW i \in 1..(2 * (N + 1)) PROVE S[i] \in Steps /\ S[i].do \in Looks
  <2> DEFINE m == 1 + ((i - 1) \div 2)
             k == 1 + ((i - 1) % 2)
  <2>1. m \in 1..(N + 1) /\ k \in 1..2
    BY <1>1, PartOf
  <2>2. S[i] = Verify(E[m])[k]
    BY <1>3
  <2> HIDE DEF m, k
  <2>3. E[m] \in Files
    <3>1. CASE m = 1
      BY <1>2, <3>1, OfEvidence
    <3>2. CASE m # 1
      <4>1. m - 1 \in 1..N /\ 1 + (m - 1) = m
        BY <1>1, <2>1, <3>2
      <4> QED BY <1>2, <4>1, OfEvidence
    <3> QED BY <3>1, <3>2
  <2> DEFINE A == Verify(E[m])
  <2>4. A \in Seq(Steps) /\ Len(A) = 2 /\ Is(A[1], "stat_handle", E[m]) /\ Is(A[2], "stat_name", E[m])
    BY <2>3, VerifySteps
  <2> HIDE DEF A
  <2>5. A[k] \in Steps /\ k \in {1, 2}
    <3>1. k \in 1..2 /\ 1..2 = {1, 2}
      BY <2>1
    <3>2. A[k] \in Steps
      BY <2>1, <2>4, ElementOfSeq
    <3> QED BY <3>1, <3>2
  <2>6. A[k].do \in Looks
    BY <2>4, <2>5 DEF Is, Looks
  <2> QED BY <2>2, <2>5, <2>6 DEF A
<1>5. ASSUME NEW f \in Files PROVE \E i \in 1..(2 * (N + 1)) : Is(S[i], "stat_handle", f)
  <2>1. PICK m \in 1..(N + 1) : f = E[m]
    <3>1. CASE f = Plan
      BY <1>1, <1>2, <3>1
    <3>2. CASE f # Plan
      <4>1. PICK l \in 1..N : f = Evidence[l]
        BY <3>2, OfEvidence DEF Files
      <4> QED BY <1>1, <1>2, <4>1
    <3> QED BY <3>1, <3>2
  <2> DEFINE i == 2 * (m - 1) + 1
  <2>2. i \in 1..(2 * (N + 1)) /\ 1 + ((i - 1) \div 2) = m /\ 1 + ((i - 1) % 2) = 1
    BY <1>1, StepOfPart
  <2>3. S[i] = Verify(f)[1]
    BY <1>3, <2>1, <2>2
  <2>4. Is(Verify(f)[1], "stat_handle", f)
    BY VerifySteps
  <2> QED BY <2>2, <2>3, <2>4
<1>6. S \in Seq(Steps) /\ Len(S) = 2 * (N + 1)
  <2>1. S \in [1..(2 * (N + 1)) -> Steps]
    BY <1>3, <1>4
  <2> QED BY <1>1, <2>1, StepByStep
<1> QED BY <1>4, <1>5, <1>6 DEF S, E


(* The inspection, part by part.                                            *)
Layout ==
  /\ Inspection \in Seq(Steps) /\ Len(Inspection) = AllReadAt + 2 * N + 3
  /\ \A i \in 1..6 : Inspection[i].do \in Looks \cup {"lstat", "open"}
  /\ \A i \in 7..10 : Inspection[i].do \in Looks \cup {"read"} /\ Inspection[i].file = Plan
  /\ \A i \in 11..(BeginAt - 1) :
       Inspection[i].do \in Looks \/ (Inspection[i].do \in {"lstat", "open"} /\ Inspection[i].file \in ToSet(Evidence))
  /\ Inspection[BeginAt].do = "begin"
  /\ \A i \in (BeginAt + 1)..(AllReadAt - 1) : Inspection[i].do \in Looks \cup {"read"}
  /\ Inspection[AllReadAt].do = "all_read"
  /\ \A i \in (AllReadAt + 1)..Len(Inspection) : Inspection[i].do \in Looks

EachIsSeenTwice ==
  \A f \in Files :
    /\ \E i \in 1..(BeginAt - 1) : Is(Inspection[i], "lstat", f)
    /\ \E i \in 1..(AllReadAt - 1) : Is(Inspection[i], "read", f)
    /\ \E i \in (AllReadAt + 1)..Len(Inspection) : Is(Inspection[i], "stat_handle", f)

LEMMA LaidOut == Layout /\ EachIsSeenTwice
<1> DEFINE A == Acquire(Plan)
           B == Stream(Plan)
           C == All(Acquire, 6, Evidence)
           D == Do(<<"begin">>, Plan)
           E == All(Stream, 4, Evidence)
           F == Do(<<"all_read">>, Plan)
           G == All(Verify, 2, <<Plan>> \o Evidence)
           AB == A \o B
           AC == AB \o C
           AD == AC \o D
           AE == AD \o E
           AF == AE \o F
           GR == G \o CheckRoot
           AG == AF \o GR
<1>0. N \in Nat /\ Plan \in Files
  BY OfEvidence
<1>1. Inspection = AG
  BY DEF Inspection, VerifyAgain
<1>a. /\ A \in Seq(Steps) /\ Len(A) = 6 /\ Is(A[2], "lstat", Plan)
      /\ \A i \in 1..6 : A[i].do \in Looks \cup {"lstat", "open"}
  BY <1>0, AcquireSteps
<1>b. /\ B \in Seq(Steps) /\ Len(B) = 4 /\ Is(B[1], "read", Plan)
      /\ \A i \in 1..4 : B[i].do \in Looks \cup {"read"} /\ B[i].file = Plan
  BY <1>0, StreamSteps
<1>c. /\ C \in Seq(Steps) /\ Len(C) = 6 * N
      /\ \A i \in 1..(6 * N) : C[i].do \in Looks \/ (C[i].do \in {"lstat", "open"} /\ C[i].file \in ToSet(Evidence))
      /\ \A f \in ToSet(Evidence) : \E i \in 1..(6 * N) : Is(C[i], "lstat", f)
  BY AcquireAll
<1>d. D \in Seq(Steps) /\ Len(D) = 1 /\ Is(D[1], "begin", Plan)
  BY <1>0, OneStep DEF Kinds
<1>e. /\ E \in Seq(Steps) /\ Len(E) = 4 * N
      /\ \A i \in 1..(4 * N) : E[i].do \in Looks \cup {"read"}
      /\ \A f \in ToSet(Evidence) : \E i \in 1..(4 * N) : Is(E[i], "read", f)
  BY StreamAll
<1>f. F \in Seq(Steps) /\ Len(F) = 1 /\ Is(F[1], "all_read", Plan)
  BY <1>0, OneStep DEF Kinds
<1>g. /\ G \in Seq(Steps) /\ Len(G) = 2 * (N + 1)
      /\ \A i \in 1..(2 * (N + 1)) : G[i].do \in Looks
      /\ \A f \in Files : \E i \in 1..(2 * (N + 1)) : Is(G[i], "stat_handle", f)
  BY VerifyAll
<1> HIDE DEF A, B, C, D, E, F, G
<1>2. AB \in Seq(Steps) /\ Joins(AB, A, B)
  BY <1>a, <1>b, Joined
<1> HIDE DEF AB
<1>3. AC \in Seq(Steps) /\ Joins(AC, AB, C)
  BY <1>c, <1>2, Joined
<1> HIDE DEF AC
<1>4. AD \in Seq(Steps) /\ Joins(AD, AC, D)
  BY <1>d, <1>3, Joined
<1> HIDE DEF AD
<1>5. AE \in Seq(Steps) /\ Joins(AE, AD, E)
  BY <1>e, <1>4, Joined
<1> HIDE DEF AE
<1>6. AF \in Seq(Steps) /\ Joins(AF, AE, F)
  BY <1>f, <1>5, Joined
<1> HIDE DEF AF
<1>7. GR \in Seq(Steps) /\ Joins(GR, G, CheckRoot)
  BY <1>g, RootStep, Joined
<1> HIDE DEF GR
<1>8. AG \in Seq(Steps) /\ Joins(AG, AF, GR)
  BY <1>6, <1>7, Joined
<1> HIDE DEF AG
<1>9. Len(AB) = 10 /\ (\A i \in 1..6 : AB[i] = A[i]) /\ \A i \in 7..10 : AB[i] = B[i - 6]
  <2>1. Len(AB) = 10 /\ (\A i \in 1..6 : AB[i] = A[i]) /\ \A i \in 1..4 : AB[6 + i] = B[i]
    BY <1>a, <1>b, <1>2 DEF Joins
  <2>2. \A i \in 7..10 : i - 6 \in 1..4 /\ 6 + (i - 6) = i
    OBVIOUS
  <2> QED BY <2>1, <2>2
<1>10. Len(AC) = 10 + 6 * N /\ (\A i \in 1..10 : AC[i] = AB[i]) /\ \A i \in 1..(6 * N) : AC[10 + i] = C[i]
  BY <1>0, <1>c, <1>3, <1>9 DEF Joins
<1>11. Len(AD) = BeginAt /\ (\A i \in 1..(BeginAt - 1) : AD[i] = AC[i]) /\ AD[BeginAt] = D[1]
  <2>1. Len(AD) = 10 + 6 * N + 1 /\ (\A i \in 1..(10 + 6 * N) : AD[i] = AC[i]) /\ \A i \in 1..1 : AD[10 + 6 * N + i] = D[i]
    BY <1>0, <1>d, <1>4, <1>10 DEF Joins
  <2> QED BY <1>0, <2>1 DEF BeginAt
<1>12. /\ Len(AE) = AllReadAt - 1 /\ (\A i \in 1..BeginAt : AE[i] = AD[i])
       /\ \A i \in 1..(4 * N) : AE[BeginAt + i] = E[i]
  <2>1. /\ Len(AE) = BeginAt + 4 * N /\ (\A i \in 1..BeginAt : AE[i] = AD[i])
        /\ \A i \in 1..(4 * N) : AE[BeginAt + i] = E[i]
    BY <1>e, <1>5, <1>11 DEF Joins
  <2>2. BeginAt + 4 * N = AllReadAt - 1
    BY <1>0 DEF BeginAt, AllReadAt
  <2> QED BY <2>1, <2>2
<1>13. Len(AF) = AllReadAt /\ (\A i \in 1..(AllReadAt - 1) : AF[i] = AE[i]) /\ AF[AllReadAt] = F[1]
  <2>1. Len(AF) = AllReadAt - 1 + 1 /\ (\A i \in 1..(AllReadAt - 1) : AF[i] = AE[i]) /\ \A i \in 1..1 : AF[AllReadAt - 1 + i] = F[i]
    BY <1>f, <1>6, <1>12 DEF Joins
  <2> QED BY <1>0, <2>1 DEF AllReadAt
<1>14. /\ Len(GR) = 2 * N + 3 /\ GR[2 * N + 3] = CheckRoot[1]
       /\ \A i \in 1..(2 * (N + 1)) : GR[i] = G[i]
  <2>1. Len(GR) = 2 * (N + 1) + 1 /\ (\A i \in 1..(2 * (N + 1)) : GR[i] = G[i]) /\ \A i \in 1..1 : GR[2 * (N + 1) + i] = CheckRoot[i]
    BY <1>g, <1>7, RootStep DEF Joins
  <2>2. 2 * (N + 1) + 1 = 2 * N + 3
    BY <1>0
  <2> QED BY <2>1, <2>2
<1>15. \A i \in 1..(2 * N + 3) : GR[i].do \in Looks
  <2>1. GR[2 * N + 3].do \in Looks
    <3>1. Is(CheckRoot[1], "stat_root", Plan)
      BY RootStep
    <3> QED BY <1>14, <3>1 DEF Is, Looks
  <2>2. \A i \in 1..(2 * N + 3) : i = 2 * N + 3 \/ i \in 1..(2 * (N + 1))
    BY <1>0
  <2> QED BY <1>g, <1>14, <2>1, <2>2
<1>16. /\ Len(AG) = AllReadAt + (2 * N + 3) /\ (\A i \in 1..AllReadAt : AG[i] = AF[i])
       /\ \A i \in 1..(2 * N + 3) : AG[AllReadAt + i] = GR[i]
  BY <1>8, <1>13, <1>14 DEF Joins
<1>17. /\ \A i \in 1..10 : AG[i] = AB[i]
       /\ \A i \in 1..(6 * N) : AG[10 + i] = C[i]
       /\ AG[BeginAt] = D[1] /\ AG[AllReadAt] = F[1]
       /\ \A i \in 1..(4 * N) : AG[BeginAt + i] = E[i]
  <2>1. /\ \A i \in 1..(AllReadAt - 1) : AG[i] = AE[i]
        /\ AG[AllReadAt] = F[1]
    BY <1>0, <1>13, <1>16 DEF AllReadAt
  <2>2. \A i \in 1..BeginAt : i \in 1..(AllReadAt - 1)
    BY <1>0 DEF BeginAt, AllReadAt
  <2>3. \A i \in 1..BeginAt : AG[i] = AD[i]
    BY <1>12, <2>1, <2>2
  <2>4. \A i \in 1..(BeginAt - 1) : AG[i] = AC[i] /\ i \in 1..BeginAt
    BY <1>0, <1>11, <2>3 DEF BeginAt
  <2>5. AG[BeginAt] = D[1]
    BY <1>0, <1>11, <2>3 DEF BeginAt
  <2>6. \A i \in 1..(4 * N) : BeginAt + i \in 1..(AllReadAt - 1)
    BY <1>0 DEF BeginAt, AllReadAt
  <2>7. \A i \in 1..10 : i \in 1..(BeginAt - 1)
    BY <1>0 DEF BeginAt
  <2>8. \A i \in 1..(6 * N) : 10 + i \in 1..(BeginAt - 1)
    BY <1>0 DEF BeginAt
  <2> QED BY <1>10, <1>12, <2>1, <2>4, <2>5, <2>6, <2>7, <2>8
<1>18. \A i \in 1..6 : AG[i] = A[i]
  BY <1>9, <1>17
<1>19. \A i \in 7..10 : AG[i] = B[i - 6]
  BY <1>9, <1>17
<1>20. Layout
  <2>1. AG \in Seq(Steps) /\ Len(AG) = AllReadAt + 2 * N + 3
    BY <1>0, <1>8, <1>16 DEF AllReadAt
  <2>2. \A i \in 1..6 : AG[i].do \in Looks \cup {"lstat", "open"}
    BY <1>a, <1>18
  <2>3. \A i \in 7..10 : AG[i].do \in Looks \cup {"read"} /\ AG[i].file = Plan
    <3>1. \A i \in 7..10 : i - 6 \in 1..4
      OBVIOUS
    <3> QED BY <1>b, <1>19, <3>1
  <2>4. \A i \in 11..(BeginAt - 1) : AG[i].do \in Looks \/ (AG[i].do \in {"lstat", "open"} /\ AG[i].file \in ToSet(Evidence))
    <3>1. \A i \in 11..(BeginAt - 1) : i - 10 \in 1..(6 * N) /\ 10 + (i - 10) = i
      BY <1>0 DEF BeginAt
    <3>2. \A i \in 11..(BeginAt - 1) : AG[i] = C[i - 10]
      BY <1>17, <3>1
    <3> QED BY <1>c, <3>1, <3>2
  <2>5. AG[BeginAt].do = "begin" /\ AG[AllReadAt].do = "all_read"
    BY <1>d, <1>f, <1>17 DEF Is
  <2>6. \A i \in (BeginAt + 1)..(AllReadAt - 1) : AG[i].do \in Looks \cup {"read"}
    <3>1. \A i \in (BeginAt + 1)..(AllReadAt - 1) : i - BeginAt \in 1..(4 * N) /\ BeginAt + (i - BeginAt) = i
      BY <1>0 DEF BeginAt, AllReadAt
    <3>2. \A i \in (BeginAt + 1)..(AllReadAt - 1) : AG[i] = E[i - BeginAt]
      BY <1>17, <3>1
    <3> QED BY <1>e, <3>1, <3>2
  <2>7. \A i \in (AllReadAt + 1)..Len(AG) : AG[i].do \in Looks
    <3>1. \A i \in (AllReadAt + 1)..Len(AG) : i - AllReadAt \in 1..(2 * N + 3) /\ AllReadAt + (i - AllReadAt) = i
      BY <1>0, <2>1 DEF AllReadAt
    <3>2. \A i \in (AllReadAt + 1)..Len(AG) : AG[i] = GR[i - AllReadAt]
      BY <1>16, <3>1
    <3> QED BY <1>15, <3>1, <3>2
  <2> QED BY <1>1, <2>1, <2>2, <2>3, <2>4, <2>5, <2>6, <2>7 DEF Layout
<1>21. ASSUME NEW f \in Files PROVE \E i \in 1..(BeginAt - 1) : Is(AG[i], "lstat", f)
  <2>1. CASE f = Plan
    <3>1. AG[2] = A[2] /\ 2 \in 1..(BeginAt - 1)
      BY <1>0, <1>18 DEF BeginAt
    <3> QED BY <1>a, <2>1, <3>1
  <2>2. CASE f # Plan
    <3>1. PICK i \in 1..(6 * N) : Is(C[i], "lstat", f)
      BY <1>c, <2>2 DEF Files
    <3>2. 10 + i \in 1..(BeginAt - 1) /\ AG[10 + i] = C[i]
      BY <1>0, <1>17 DEF BeginAt
    <3> QED BY <3>1, <3>2
  <2> QED BY <2>1, <2>2
<1>22. ASSUME NEW f \in Files PROVE \E i \in 1..(AllReadAt - 1) : Is(AG[i], "read", f)
  <2>1. CASE f = Plan
    <3>1. AG[7] = B[1] /\ 7 \in 1..(AllReadAt - 1)
      BY <1>0, <1>19 DEF AllReadAt
    <3> QED BY <1>b, <2>1, <3>1
  <2>2. CASE f # Plan
    <3>1. PICK i \in 1..(4 * N) : Is(E[i], "read", f)
      BY <1>e, <2>2 DEF Files
    <3>2. BeginAt + i \in 1..(AllReadAt - 1) /\ AG[BeginAt + i] = E[i]
      BY <1>0, <1>17 DEF BeginAt, AllReadAt
    <3> QED BY <3>1, <3>2
  <2> QED BY <2>1, <2>2
<1>23. ASSUME NEW f \in Files PROVE \E i \in (AllReadAt + 1)..Len(AG) : Is(AG[i], "stat_handle", f)
  <2>1. PICK i \in 1..(2 * (N + 1)) : Is(G[i], "stat_handle", f)
    BY <1>g
  <2>2. AllReadAt + i \in (AllReadAt + 1)..Len(AG) /\ i \in 1..(2 * N + 3)
    BY <1>0, <1>16 DEF AllReadAt
  <2>3. AG[AllReadAt + i] = G[i]
    BY <1>14, <1>16, <2>2
  <2> QED BY <2>1, <2>2, <2>3
<1> QED BY <1>1, <1>20, <1>21, <1>22, <1>23 DEF EachIsSeenTwice

(* What the proof of a step needs of the layout.                            *)
LEMMA Order ==
  /\ BeginAt \in Nat /\ AllReadAt \in Nat /\ 10 < BeginAt /\ BeginAt < AllReadAt /\ AllReadAt < Len(Inspection) /\ Len(Inspection) \in Nat
  /\ \A i \in 1..Len(Inspection) : Inspection[i] \in Steps
  /\ \A i \in 1..Len(Inspection) :
       /\ (Inspection[i].do = "begin") <=> (i = BeginAt)
       /\ (Inspection[i].do = "all_read") <=> (i = AllReadAt)
       /\ Inspection[i].do = "read" => i < AllReadAt
       /\ Inspection[i].do \in {"lstat", "open"} =>
            i < BeginAt /\ \A j \in 1..(i - 1) : Inspection[j].do = "read" => Inspection[j].file # Inspection[i].file
<1>1. N \in Nat /\ Layout /\ Plan \notin ToSet(Evidence)
  BY OfEvidence, LaidOut
<1>2. BeginAt \in Nat /\ AllReadAt \in Nat /\ 10 < BeginAt /\ BeginAt < AllReadAt /\ AllReadAt < Len(Inspection) /\ Len(Inspection) \in Nat
  BY <1>1 DEF Layout, BeginAt, AllReadAt
<1>3. \A i \in 1..Len(Inspection) : Inspection[i] \in Steps
  BY <1>1, ElementOfSeq DEF Layout
<1>4. \A i \in 1..Len(Inspection) :
        \/ i \in 1..6 \/ i \in 7..10 \/ i \in 11..(BeginAt - 1) \/ i = BeginAt \/ i \in (BeginAt + 1)..(AllReadAt - 1)
        \/ i = AllReadAt \/ i \in (AllReadAt + 1)..Len(Inspection)
  BY <1>2
<1>5. ASSUME NEW i \in 1..Len(Inspection)
      PROVE  /\ (Inspection[i].do = "begin") <=> (i = BeginAt)
             /\ (Inspection[i].do = "all_read") <=> (i = AllReadAt)
             /\ Inspection[i].do = "read" => i < AllReadAt
             /\ Inspection[i].do \in {"lstat", "open"} => i < BeginAt
  <2>1. CASE i \in 1..6
    <3>1. Inspection[i].do \in Looks \cup {"lstat", "open"}
      BY <1>1, <2>1 DEF Layout
    <3>2. i < BeginAt /\ i < AllReadAt
      BY <1>2, <2>1
    <3> QED BY <3>1, <3>2 DEF Looks
  <2>2. CASE i \in 7..10
    BY <1>1, <1>2, <2>2 DEF Layout, Looks
  <2>3. CASE i \in 11..(BeginAt - 1)
    <3>1. Inspection[i].do \in Looks \cup {"lstat", "open"}
      BY <1>1, <2>3 DEF Layout
    <3>2. i < BeginAt /\ i < AllReadAt
      BY <1>2, <2>3
    <3> QED BY <3>1, <3>2 DEF Looks
  <2>4. CASE i = BeginAt
    BY <1>1, <1>2, <2>4 DEF Layout
  <2>5. CASE i \in (BeginAt + 1)..(AllReadAt - 1)
    <3>1. Inspection[i].do \in Looks \cup {"read"}
      BY <1>1, <2>5 DEF Layout
    <3>2. BeginAt < i /\ i < AllReadAt
      BY <1>2, <2>5
    <3> QED BY <3>1, <3>2 DEF Looks
  <2>6. CASE i = AllReadAt
    BY <1>1, <1>2, <2>6 DEF Layout
  <2>7. CASE i \in (AllReadAt + 1)..Len(Inspection)
    BY <1>1, <1>2, <2>7 DEF Layout, Looks
  <2> QED BY <1>4, <2>1, <2>2, <2>3, <2>4, <2>5, <2>6, <2>7
<1>6. ASSUME NEW i \in 1..Len(Inspection), Inspection[i].do \in {"lstat", "open"},
             NEW j \in 1..(i - 1), Inspection[j].do = "read"
      PROVE  Inspection[j].file # Inspection[i].file
  <2>1. i < BeginAt /\ j < i
    BY <1>5, <1>6
  <2>2. i \in 1..6 \/ i \in 7..10 \/ i \in 11..(BeginAt - 1)
    BY <1>2, <1>4, <2>1
  <2>3. CASE i \in 1..6
    <3>1. j \in 1..6
      BY <2>1, <2>3
    <3> QED BY <1>1, <1>6, <3>1 DEF Layout, Looks
  <2>4. CASE i \in 7..10
    BY <1>1, <1>6, <2>4 DEF Layout, Looks
  <2>5. CASE i \in 11..(BeginAt - 1)
    <3>1. Inspection[i].file \in ToSet(Evidence)
      BY <1>1, <1>6, <2>5 DEF Layout, Looks
    <3>2. j \in 1..6 \/ j \in 7..10 \/ j \in 11..(BeginAt - 1)
      BY <1>2, <2>1
    <3>3. j \in 7..10
      BY <1>1, <1>6, <3>2 DEF Layout, Looks
    <3> QED BY <1>1, <3>1, <3>3 DEF Layout
  <2> QED BY <2>2, <2>3, <2>4, <2>5
<1> QED BY <1>2, <1>3, <1>5, <1>6

Stats == [gen : Nat, ver : Nat]
(* Of what a name ever bore, a is no later than b.                          *)
Older(a, b) == a.gen < b.gen \/ (a.gen = b.gen /\ a.ver <= b.ver)

LEMMA OlderIsAnOrder ==
  /\ \A a \in Stats : Older(a, a)
  /\ \A a, b \in Stats : Older(a, b) /\ Older(b, a) => a = b
  /\ \A a, b, c \in Stats : Older(a, b) /\ Older(b, c) => Older(a, c)
<1>1. \A a \in Stats : Older(a, a)
  BY DEF Stats, Older
<1>2. ASSUME NEW a \in Stats, NEW b \in Stats, Older(a, b), Older(b, a) PROVE a = b
  <2>1. a.gen = b.gen /\ a.ver = b.ver
    BY <1>2 DEF Stats, Older
  <2> QED BY <2>1 DEF Stats
<1>3. ASSUME NEW a \in Stats, NEW b \in Stats, NEW c \in Stats, Older(a, b), Older(b, c) PROVE Older(a, c)
  BY <1>3 DEF Stats, Older
<1> QED BY <1>1, <1>2, <1>3

InspectionTypes ==
  /\ disk \in [Files -> Stats] /\ root \in Nat /\ at \in Nat \ {0} /\ signal \in {"none", "cancelled", "timed_out"}
  /\ record \in [Files -> Stats] /\ handle \in [Files -> Nat] /\ read \in [Files -> SUBSET Stats]

Had(do, f) == \E i \in 1..Len(Inspection) : i < at /\ Is(Inspection[i], do, f)

(* What was seen of a file is what its name bore then, in this order.       *)
SeenInOrder ==
  \A f \in Files :
    /\ disk[f].gen > 0 /\ handle[f] <= disk[f].gen /\ Older(record[f], disk[f])
    /\ at > BeginAt => Older(record[f], begun[f]) /\ Older(begun[f], disk[f])
    /\ at > AllReadAt => Older(begun[f], done[f]) /\ Older(done[f], disk[f])
    /\ \A v \in read[f] :
         \/ v = NoStat /\ handle[f] < disk[f].gen
         \/ Older(record[f], v) /\ Older(v, disk[f])

Bundle ==
  /\ at > BeginAt => begun \in [Files -> Stats]
  /\ at > AllReadAt => done \in [Files -> Stats]

SeenWhenSteppedOn ==
  \A f \in Files :
    /\ Had("lstat", f) => record[f].gen > 0
    /\ Had("read", f) <=> read[f] # {}

(* What a file was looked at for again is what it has been all along.       *)
Settled(f) == record[f] = begun[f] /\ begun[f] = done[f] /\ read[f] = {record[f]}
SettledWhenSeenAgain ==
  \A i \in (AllReadAt + 1)..Len(Inspection) : \A f \in Files :
    i < at /\ Is(Inspection[i], "stat_handle", f) => Settled(f)

PassedAtTheEnd == report = "passed" => at > Len(Inspection) /\ signal = "none" /\ \A f \in Files : handle[f] = 0

SnapshotInv ==
  InspectionTypes /\ SeenInOrder /\ Bundle /\ SeenWhenSteppedOn /\ SettledWhenSeenAgain /\ PassedAtTheEnd

LEMMA InspectionStart == InspectionInit => SnapshotInv
<1> SUFFICES ASSUME InspectionInit PROVE SnapshotInv
  OBVIOUS
<1> USE DEF InspectionInit
<1>1. InspectionTypes
  BY DEF InspectionTypes, Stats, NoStat
<1>2. SeenInOrder
  BY Order DEF SeenInOrder, Older, NoStat
<1>3. Bundle /\ SettledWhenSeenAgain /\ PassedAtTheEnd
  BY Order DEF Bundle, SettledWhenSeenAgain, PassedAtTheEnd
<1>4. SeenWhenSteppedOn
  BY DEF SeenWhenSteppedOn, Had
<1> QED BY <1>1, <1>2, <1>3, <1>4 DEF SnapshotInv

(* A call of the system: whatever it looks at, it changes nothing.          *)
LEMMA InspectionStep == SnapshotInv /\ Step => SnapshotInv'
<1> SUFFICES ASSUME SnapshotInv, Step PROVE SnapshotInv'
  OBVIOUS
<1> DEFINE do == Now.do
           g == Now.file
<1>1. at \in 1..Len(Inspection) /\ report = "none" /\ Now = Inspection[at] /\ Now \in Steps /\ do \in Kinds /\ g \in Files
  <2>1. at \in 1..Len(Inspection) /\ report = "none" /\ Now = Inspection[at]
    BY DEF Step, Running, Now
  <2>2. Now \in Steps
    BY <2>1, Order
  <2> QED BY <2>1, <2>2 DEF Steps
<1>2. /\ do = "begin" <=> at = BeginAt
      /\ do = "all_read" <=> at = AllReadAt
      /\ do = "read" => at < AllReadAt
      /\ do \in {"lstat", "open"} => at < BeginAt /\ \A j \in 1..(at - 1) : Inspection[j].do = "read" => Inspection[j].file # g
  BY <1>1, Order
<1>3. BeginAt \in Nat /\ AllReadAt \in Nat /\ 10 < BeginAt /\ BeginAt < AllReadAt /\ AllReadAt < Len(Inspection) /\ Len(Inspection) \in Nat
  BY Order
<1>4. /\ at' = at + 1 /\ disk' = disk /\ root' = root /\ report' = report /\ signal' = signal
      /\ (do = "lstat" /\ record' = [record EXCEPT ![g] = disk[g]]) \/ (do # "lstat" /\ record' = record)
      /\ (do = "open" /\ handle' = [handle EXCEPT ![g] = disk[g].gen]) \/ (do # "open" /\ handle' = handle)
      /\ (do = "read" /\ read' = [read EXCEPT ![g] = read[g] \cup {Held(g)}]) \/ (do # "read" /\ read' = read)
      /\ (do = "begin" /\ begun' = disk) \/ (do # "begin" /\ begun' = begun)
      /\ (do = "all_read" /\ done' = disk) \/ (do # "all_read" /\ done' = done)
  BY DEF Step, Named
<1>5. /\ disk \in [Files -> Stats] /\ root \in Nat /\ at \in Nat \ {0} /\ signal \in {"none", "cancelled", "timed_out"}
      /\ record \in [Files -> Stats] /\ handle \in [Files -> Nat] /\ read \in [Files -> SUBSET Stats]
  BY DEF SnapshotInv, InspectionTypes
<1>6. SeenInOrder /\ Bundle /\ SeenWhenSteppedOn /\ SettledWhenSeenAgain /\ PassedAtTheEnd
  BY DEF SnapshotInv
<1>7. /\ disk[g] \in Stats /\ disk[g].gen \in Nat /\ NoStat \in Stats /\ Held(g) \in Stats
      /\ (handle[g] = disk[g].gen /\ Held(g) = disk[g]) \/ (handle[g] # disk[g].gen /\ Held(g) = NoStat)
  BY <1>1, <1>5 DEF Held, Stats, NoStat
<1>8. ASSUME do \in {"lstat", "open"} PROVE read[g] = {}
  <2>1. \A i \in 1..Len(Inspection) : ~(i < at /\ Is(Inspection[i], "read", g))
    BY <1>1, <1>2, <1>8 DEF Is
  <2>2. ~Had("read", g)
    BY <2>1 DEF Had
  <2> QED BY <1>1, <1>6, <2>2 DEF SeenWhenSteppedOn
<1>9. InspectionTypes'
  <2>1. disk' \in [Files -> Stats] /\ root' \in Nat /\ at' \in Nat \ {0} /\ signal' \in {"none", "cancelled", "timed_out"}
    BY <1>4, <1>5
  <2>2. record' \in [Files -> Stats]
    BY <1>4, <1>5, <1>7
  <2>3. handle' \in [Files -> Nat]
    BY <1>4, <1>5, <1>7
  <2>4. read' \in [Files -> SUBSET Stats]
    BY <1>4, <1>5, <1>7
  <2> QED BY <2>1, <2>2, <2>3, <2>4 DEF InspectionTypes
<1>10. Bundle'
  BY <1>2, <1>3, <1>4, <1>5, <1>6 DEF Bundle
<1>11. SeenInOrder'
  <2> SUFFICES ASSUME NEW f \in Files
               PROVE  /\ disk[f].gen > 0 /\ handle'[f] <= disk[f].gen /\ Older(record'[f], disk[f])
                      /\ at' > BeginAt => Older(record'[f], begun'[f]) /\ Older(begun'[f], disk[f])
                      /\ at' > AllReadAt => Older(begun'[f], done'[f]) /\ Older(done'[f], disk[f])
                      /\ \A v \in read'[f] :
                           \/ v = NoStat /\ handle'[f] < disk[f].gen
                           \/ Older(record'[f], v) /\ Older(v, disk[f])
    BY <1>4 DEF SeenInOrder
  <2>1. /\ disk[f] \in Stats /\ disk[f].gen \in Nat /\ record[f] \in Stats /\ handle[f] \in Nat /\ Older(disk[f], disk[f])
    BY <1>5, OlderIsAnOrder DEF Stats
  <2>2. /\ disk[f].gen > 0 /\ handle[f] <= disk[f].gen /\ Older(record[f], disk[f])
        /\ at > BeginAt => Older(record[f], begun[f]) /\ Older(begun[f], disk[f])
        /\ at > AllReadAt => Older(begun[f], done[f]) /\ Older(done[f], disk[f])
        /\ \A v \in read[f] :
             \/ v = NoStat /\ handle[f] < disk[f].gen
             \/ Older(record[f], v) /\ Older(v, disk[f])
    BY <1>6 DEF SeenInOrder
  <2>3. handle'[f] <= disk[f].gen
    BY <1>1, <1>4, <1>5, <2>1, <2>2
  <2>4. Older(record'[f], disk[f])
    BY <1>1, <1>4, <1>5, <2>1, <2>2
  <2>5. at' > BeginAt => Older(record'[f], begun'[f]) /\ Older(begun'[f], disk[f])
    <3>1. CASE do = "begin"
      BY <1>4, <2>1, <2>2, <3>1
    <3>2. CASE do # "begin"
      <4>1. at' > BeginAt => at > BeginAt
        BY <1>2, <1>3, <1>4, <1>5, <3>2
      <4>2. at > BeginAt => do # "lstat"
        BY <1>2, <1>3, <1>5
      <4> QED BY <1>4, <2>2, <3>2, <4>1, <4>2
    <3> QED BY <3>1, <3>2
  <2>6. at' > AllReadAt => Older(begun'[f], done'[f]) /\ Older(done'[f], disk[f])
    <3>1. CASE do = "all_read"
      <4>1. at > BeginAt /\ begun' = begun /\ done' = disk
        BY <1>2, <1>3, <1>4, <1>5, <3>1
      <4> QED BY <2>1, <2>2, <4>1
    <3>2. CASE do # "all_read"
      <4>1. at' > AllReadAt => at > AllReadAt
        BY <1>2, <1>3, <1>4, <1>5, <3>2
      <4>2. at > AllReadAt => do # "begin"
        BY <1>2, <1>3, <1>5
      <4> QED BY <1>4, <2>2, <3>2, <4>1, <4>2
    <3> QED BY <3>1, <3>2
  <2>7. ASSUME NEW v \in read'[f]
        PROVE  \/ v = NoStat /\ handle'[f] < disk[f].gen
               \/ Older(record'[f], v) /\ Older(v, disk[f])
    <3>1. CASE do \in {"lstat", "open"}
      <4>1. read' = read
        BY <1>4, <3>1
      <4>2. f # g
        BY <1>8, <2>7, <3>1, <4>1
      <4>3. handle'[f] = handle[f] /\ record'[f] = record[f]
        BY <1>1, <1>4, <1>5, <4>2
      <4> QED BY <2>2, <2>7, <4>1, <4>3
    <3>2. CASE do = "read"
      <4>1. handle' = handle /\ record' = record /\ read' = [read EXCEPT ![g] = read[g] \cup {Held(g)}]
        BY <1>4, <3>2
      <4>2. CASE v \in read[f]
        BY <2>2, <4>1, <4>2
      <4>3. CASE v \notin read[f]
        <5>1. f = g /\ v = Held(f)
          BY <1>1, <1>5, <2>7, <4>1, <4>3
        <5>2. CASE handle[f] = disk[f].gen
          <6>1. v = disk[f]
            BY <1>7, <5>1, <5>2
          <6> QED BY <2>1, <2>2, <4>1, <6>1
        <5>3. CASE handle[f] # disk[f].gen
          <6>1. v = NoStat /\ handle[f] < disk[f].gen
            BY <1>7, <2>1, <2>2, <5>1, <5>3
          <6> QED BY <4>1, <6>1
        <5> QED BY <5>2, <5>3
      <4> QED BY <4>2, <4>3
    <3>3. CASE do \notin {"lstat", "open", "read"}
      <4>1. handle' = handle /\ record' = record /\ read' = read
        BY <1>4, <3>3
      <4> QED BY <2>2, <2>7, <4>1
    <3> QED BY <3>1, <3>2, <3>3
  <2> QED BY <2>2, <2>3, <2>4, <2>5, <2>6, <2>7
<1>12. SeenWhenSteppedOn'
  <2> SUFFICES ASSUME NEW f \in Files
               PROVE  (Had("lstat", f)' => record'[f].gen > 0) /\ (Had("read", f)' <=> read'[f] # {})
    BY DEF SeenWhenSteppedOn
  <2>1. \A kind : Had(kind, f)' <=> Had(kind, f) \/ (do = kind /\ g = f)
    <3>1. \A i \in 1..Len(Inspection) : i < at' <=> (i < at \/ i = at)
      BY <1>3, <1>4, <1>5
    <3>2. Now = [do |-> do, file |-> g]
      BY <1>1 DEF Steps
    <3>3. ASSUME NEW kind PROVE Is(Inspection[at], kind, f) <=> (do = kind /\ g = f)
      BY <1>1, <3>2 DEF Is
    <3> QED BY <1>1, <3>1, <3>3 DEF Had
  <2>2. (Had("lstat", f) => record[f].gen > 0) /\ (Had("read", f) <=> read[f] # {}) /\ disk[f].gen > 0
    BY <1>6 DEF SeenWhenSteppedOn, SeenInOrder
  <2>3. Had("lstat", f)' => record'[f].gen > 0
    BY <1>1, <1>4, <1>5, <2>1, <2>2
  <2>4. Had("read", f)' <=> read'[f] # {}
    <3>1. read'[f] # {} <=> (read[f] # {} \/ (do = "read" /\ g = f))
      BY <1>1, <1>4, <1>5
    <3>2. Had("read", f)' <=> Had("read", f) \/ (do = "read" /\ g = f)
      BY <2>1
    <3> QED BY <2>2, <3>1, <3>2
  <2> QED BY <2>3, <2>4
<1>13. SettledWhenSeenAgain'
  <2> SUFFICES ASSUME NEW i \in (AllReadAt + 1)..Len(Inspection), NEW f \in Files, i < at', Is(Inspection[i], "stat_handle", f)
               PROVE  Settled(f)'
    BY DEF SettledWhenSeenAgain
  <2>1. at > AllReadAt /\ at > BeginAt
    BY <1>3, <1>4, <1>5
  <2>2. record' = record /\ begun' = begun /\ done' = done /\ read' = read
    BY <1>2, <1>3, <1>4, <1>5, <2>1
  <2>3. Settled(f)
    <3>1. CASE i < at
      BY <1>6, <3>1 DEF SettledWhenSeenAgain
    <3>2. CASE ~(i < at)
      <4>1. i = at
        BY <1>3, <1>4, <1>5, <3>2
      <4>2. do = "stat_handle" /\ g = f
        BY <1>1, <4>1 DEF Is
      <4>3. Held(f) = record[f]
        BY <4>2 DEF Step, Passes
      <4>4. Had("lstat", f) /\ Had("read", f)
        <5>1. EachIsSeenTwice
          BY LaidOut
        <5>2. PICK j \in 1..(BeginAt - 1) : Is(Inspection[j], "lstat", f)
          BY <5>1 DEF EachIsSeenTwice
        <5>3. PICK k \in 1..(AllReadAt - 1) : Is(Inspection[k], "read", f)
          BY <5>1 DEF EachIsSeenTwice
        <5>4. j \in 1..Len(Inspection) /\ j < at /\ k \in 1..Len(Inspection) /\ k < at
          BY <1>3, <1>5, <2>1
        <5> QED BY <5>2, <5>3, <5>4 DEF Had
      <4>5. record[f].gen > 0 /\ read[f] # {}
        BY <1>6, <4>4 DEF SeenWhenSteppedOn
      <4>6. record[f] # NoStat
        BY <4>5 DEF NoStat
      <4>7. record[f] = disk[f] /\ handle[f] = disk[f].gen
        BY <1>7, <4>2, <4>3, <4>6
      <4>8. begun[f] \in Stats /\ done[f] \in Stats /\ record[f] \in Stats /\ disk[f] \in Stats /\ read[f] \subseteq Stats
        BY <1>5, <1>6, <2>1 DEF Bundle
      <4>9. /\ Older(record[f], begun[f]) /\ Older(begun[f], disk[f]) /\ Older(begun[f], done[f]) /\ Older(done[f], disk[f])
            /\ \A v \in read[f] : (v = NoStat /\ handle[f] < disk[f].gen) \/ (Older(record[f], v) /\ Older(v, disk[f]))
        BY <1>6, <2>1 DEF SeenInOrder
      <4>10. begun[f] = record[f]
        BY <4>7, <4>8, <4>9, OlderIsAnOrder
      <4>11. done[f] = record[f]
        BY <4>7, <4>8, <4>9, <4>10, OlderIsAnOrder
      <4>12. \A v \in read[f] : v = record[f]
        <5>1. ~(handle[f] < disk[f].gen)
          BY <1>5, <4>7, <4>8 DEF Stats
        <5> QED BY <4>7, <4>8, <4>9, <5>1, OlderIsAnOrder
      <4> QED BY <4>5, <4>10, <4>11, <4>12 DEF Settled
    <3> QED BY <3>1, <3>2
  <2> QED BY <2>2, <2>3 DEF Settled
<1>14. PassedAtTheEnd'
  BY <1>1, <1>4 DEF PassedAtTheEnd
<1> QED BY <1>9, <1>10, <1>11, <1>12, <1>13, <1>14 DEF SnapshotInv

(* What other programs do only makes what a name bears later.               *)
LEMMA InspectionChange ==
  ASSUME SnapshotInv, Other, root' \in Nat, disk' \in [Files -> Stats],
         \A f \in Files : Older(disk[f], disk'[f])
  PROVE  SnapshotInv'
<1>1. /\ at' = at /\ record' = record /\ handle' = handle /\ read' = read /\ signal' = signal /\ report' = report
      /\ begun' = begun /\ done' = done /\ report = "none"
  BY DEF Other
<1>2. /\ disk \in [Files -> Stats] /\ at \in Nat \ {0} /\ signal \in {"none", "cancelled", "timed_out"}
      /\ record \in [Files -> Stats] /\ handle \in [Files -> Nat] /\ read \in [Files -> SUBSET Stats]
  BY DEF SnapshotInv, InspectionTypes
<1>3. SeenInOrder /\ Bundle /\ BeginAt \in Nat /\ AllReadAt \in Nat /\ BeginAt < AllReadAt
  BY Order DEF SnapshotInv
<1>4. InspectionTypes'
  BY <1>1, <1>2 DEF InspectionTypes
<1>5. Bundle' /\ SettledWhenSeenAgain' /\ PassedAtTheEnd'
  BY <1>1 DEF SnapshotInv, Bundle, SettledWhenSeenAgain, Settled, PassedAtTheEnd
<1>6. SeenWhenSteppedOn'
  BY <1>1 DEF SnapshotInv, SeenWhenSteppedOn, Had
<1>7. SeenInOrder'
  <2> SUFFICES ASSUME NEW f \in Files
               PROVE  /\ disk'[f].gen > 0 /\ handle[f] <= disk'[f].gen /\ Older(record[f], disk'[f])
                      /\ at > BeginAt => Older(record[f], begun[f]) /\ Older(begun[f], disk'[f])
                      /\ at > AllReadAt => Older(begun[f], done[f]) /\ Older(done[f], disk'[f])
                      /\ \A v \in read[f] :
                           \/ v = NoStat /\ handle[f] < disk'[f].gen
                           \/ Older(record[f], v) /\ Older(v, disk'[f])
    BY <1>1 DEF SeenInOrder
  <2>1. disk[f] \in Stats /\ disk'[f] \in Stats /\ record[f] \in Stats /\ handle[f] \in Nat /\ read[f] \subseteq Stats
    BY <1>2
  <2>2. /\ disk[f].gen > 0 /\ handle[f] <= disk[f].gen /\ Older(record[f], disk[f])
        /\ at > BeginAt => Older(record[f], begun[f]) /\ Older(begun[f], disk[f])
        /\ at > AllReadAt => Older(begun[f], done[f]) /\ Older(done[f], disk[f])
        /\ \A v \in read[f] :
             \/ v = NoStat /\ handle[f] < disk[f].gen
             \/ Older(record[f], v) /\ Older(v, disk[f])
    BY <1>3 DEF SeenInOrder
  <2>3. \A a \in Stats : Older(a, disk[f]) => Older(a, disk'[f])
    BY <2>1, OlderIsAnOrder
  <2>4. disk[f].gen \in Nat /\ disk'[f].gen \in Nat /\ disk[f].gen <= disk'[f].gen
    BY <2>1 DEF Older, Stats
  <2>5. (at > BeginAt => begun[f] \in Stats) /\ (at > AllReadAt => done[f] \in Stats)
    BY <1>3 DEF Bundle
  <2>6. disk'[f].gen > 0 /\ handle[f] <= disk'[f].gen /\ (handle[f] < disk[f].gen => handle[f] < disk'[f].gen)
    BY <2>1, <2>2, <2>4
  <2> QED BY <2>1, <2>2, <2>3, <2>5, <2>6
<1> QED BY <1>4, <1>5, <1>6, <1>7 DEF SnapshotInv

(* The handles are closed and a report is given.                            *)
LEMMA InspectionEnd ==
  ASSUME SnapshotInv, NEW passed \in BOOLEAN, GiveReport(passed), passed => at > Len(Inspection)
  PROVE  SnapshotInv'
<1>1. /\ handle' = [f \in Files |-> 0] /\ report' = Verdict(passed)
      /\ disk' = disk /\ root' = root /\ at' = at /\ record' = record /\ read' = read /\ signal' = signal
      /\ begun' = begun /\ done' = done
  BY DEF GiveReport
<1>2. /\ disk \in [Files -> Stats] /\ at \in Nat \ {0} /\ signal \in {"none", "cancelled", "timed_out"}
      /\ record \in [Files -> Stats] /\ handle \in [Files -> Nat] /\ read \in [Files -> SUBSET Stats] /\ root \in Nat
  BY DEF SnapshotInv, InspectionTypes
<1>3. InspectionTypes'
  BY <1>1, <1>2 DEF InspectionTypes
<1>4. Bundle' /\ SettledWhenSeenAgain'
  BY <1>1 DEF SnapshotInv, Bundle, SettledWhenSeenAgain, Settled
<1>5. SeenWhenSteppedOn'
  BY <1>1 DEF SnapshotInv, SeenWhenSteppedOn, Had
<1>6. PassedAtTheEnd'
  <2>1. report' = "passed" => signal = "none" /\ passed
    BY <1>1, <1>2 DEF Verdict
  <2> QED BY <1>1, <2>1 DEF PassedAtTheEnd
<1>7. SeenInOrder'
  <2>1. \A f \in Files : disk[f].gen \in Nat /\ disk[f].gen > 0 /\ handle'[f] = 0
    BY <1>1, <1>2 DEF SnapshotInv, SeenInOrder, Stats
  <2> QED BY <1>1, <2>1 DEF SnapshotInv, SeenInOrder
<1> QED BY <1>3, <1>4, <1>5, <1>6, <1>7 DEF SnapshotInv

LEMMA InspectionSteps == SnapshotInv /\ [InspectionNext]_inspectionVars => SnapshotInv'
<1> SUFFICES ASSUME SnapshotInv, [InspectionNext]_inspectionVars PROVE SnapshotInv'
  OBVIOUS
<1>1. disk \in [Files -> Stats] /\ root \in Nat
  BY DEF SnapshotInv, InspectionTypes
<1>2. CASE Step
  BY <1>2, InspectionStep
<1>3. CASE Finish
  BY <1>3, InspectionEnd DEF Finish
<1>4. CASE Fail
  BY <1>4, InspectionEnd DEF Fail
<1>5. CASE CleanupFails
  BY <1>5 DEF CleanupFails, SnapshotInv, InspectionTypes, SeenInOrder, Bundle, SeenWhenSteppedOn, Had,
              SettledWhenSeenAgain, Settled, PassedAtTheEnd
<1>6. CASE Interrupt \/ Deadline
  <2>1. /\ report = "none" /\ signal' \in {"none", "cancelled", "timed_out"}
        /\ UNCHANGED <<disk, root, changes, at, record, handle, read, report, begun, done>>
    BY <1>6 DEF Interrupt, Deadline, Stop
  <2>2. InspectionTypes' /\ SeenInOrder' /\ Bundle'
    BY <2>1 DEF SnapshotInv, InspectionTypes, SeenInOrder, Bundle
  <2>3. SeenWhenSteppedOn' /\ SettledWhenSeenAgain' /\ PassedAtTheEnd'
    BY <2>1 DEF SnapshotInv, SeenWhenSteppedOn, Had, SettledWhenSeenAgain, Settled, PassedAtTheEnd
  <2> QED BY <2>2, <2>3 DEF SnapshotInv
<1>7. CASE Rewrite
  <2>1. PICK f \in Files : Other /\ root' = root /\ disk' = [disk EXCEPT ![f].ver = @ + 1]
    BY <1>7 DEF Rewrite
  <2>2. disk[f] \in Stats /\ [disk[f] EXCEPT !.ver = @ + 1] \in Stats /\ Older(disk[f], [disk[f] EXCEPT !.ver = @ + 1])
    BY <1>1 DEF Stats, Older
  <2>3. disk' = [disk EXCEPT ![f] = [disk[f] EXCEPT !.ver = @ + 1]]
    BY <2>1
  <2>4. disk' \in [Files -> Stats] /\ \A g \in Files : Older(disk[g], disk'[g])
    BY <1>1, <2>2, <2>3, OlderIsAnOrder
  <2> QED BY <1>1, <2>1, <2>4, InspectionChange
<1>8. CASE Replace
  <2>1. PICK f \in Files : Other /\ root' = root /\ disk' = [disk EXCEPT ![f] = [gen |-> @.gen + 1, ver |-> 1]]
    BY <1>8 DEF Replace
  <2>2. disk[f] \in Stats /\ [gen |-> disk[f].gen + 1, ver |-> 1] \in Stats /\ Older(disk[f], [gen |-> disk[f].gen + 1, ver |-> 1])
    BY <1>1 DEF Stats, Older
  <2>3. disk' \in [Files -> Stats] /\ \A g \in Files : Older(disk[g], disk'[g])
    BY <1>1, <2>1, <2>2, OlderIsAnOrder
  <2> QED BY <1>1, <2>1, <2>3, InspectionChange
<1>9. CASE ReplaceDirectory
  <2>1. Other /\ root' \in Nat /\ disk' = [f \in Files |-> [gen |-> disk[f].gen + 1, ver |-> 1]]
    BY <1>1, <1>9 DEF ReplaceDirectory
  <2>2. disk' \in [Files -> Stats] /\ \A g \in Files : Older(disk[g], disk'[g])
    BY <1>1, <2>1 DEF Stats, Older
  <2> QED BY <2>1, <2>2, InspectionChange
<1>10. CASE UNCHANGED inspectionVars
  BY <1>10 DEF inspectionVars, SnapshotInv, InspectionTypes, SeenInOrder, Bundle, SeenWhenSteppedOn, Had,
               SettledWhenSeenAgain, Settled, PassedAtTheEnd
<1> QED BY <1>2, <1>3, <1>4, <1>5, <1>6, <1>7, <1>8, <1>9, <1>10 DEF InspectionNext

LEMMA SnapshotFollows == SnapshotInv => PassedIsASnapshot
<1> SUFFICES ASSUME SnapshotInv, report = "passed" PROVE PassedIsASnapshot
  BY DEF PassedIsASnapshot
<1>1. at > Len(Inspection) /\ signal = "none" /\ \A f \in Files : handle[f] = 0
  BY DEF SnapshotInv, PassedAtTheEnd
<1>2. ASSUME NEW f \in Files PROVE read[f] = {begun[f]} /\ begun[f] = done[f]
  <2>1. PICK i \in (AllReadAt + 1)..Len(Inspection) : Is(Inspection[i], "stat_handle", f)
    BY LaidOut DEF EachIsSeenTwice
  <2>2. i < at
    BY <1>1, Order DEF SnapshotInv, InspectionTypes
  <2>3. Settled(f)
    BY <2>1, <2>2 DEF SnapshotInv, SettledWhenSeenAgain
  <2> QED BY <2>3 DEF Settled
<1> QED BY <1>1, <1>2 DEF PassedIsASnapshot

(* "passed" speaks of one directory, for a plan of any length and whatever  *)
(* other programs do to the files and whenever a signal comes: what was     *)
(* checked was there under its name when the bundle began and when the last *)
(* byte had been read (scripts/runtime-inspect.mjs, inspectRuntimeDirectory).*)
THEOREM PassedAlwaysASnapshot == InspectionSpec => []PassedIsASnapshot
<1>1. InspectionInit => SnapshotInv
  BY InspectionStart
<1>2. SnapshotInv /\ [InspectionNext]_inspectionVars => SnapshotInv'
  BY InspectionSteps
<1>3. SnapshotInv => PassedIsASnapshot
  BY SnapshotFollows
<1> QED BY <1>1, <1>2, <1>3, PTL DEF InspectionSpec
=============================================================================
