---------------------------- MODULE RuntimeInputs ----------------------------
(***************************************************************************)
(* How a run gets the artifacts other runs made. A                          *)
(* RuntimeInputArtifactReader takes one artifact from a byte stream and     *)
(* checks its length and digest; a RuntimeArtifactHandoff does so only      *)
(* after its producer's event stream has told of exactly that manifest; a   *)
(* RuntimeInputBundle does both for every declared input and hands all of   *)
(* them over at once. Calls overlap; each await ends in a step of its own,  *)
(* and the caller may close, or abort, at any moment in between.           *)
(***************************************************************************)
EXTENDS Naturals, FiniteSets

CONSTANTS Producers, \* the producing runs a bundle names
          Inputs,    \* the artifacts it declares, in all
          Source,    \* the producer each input comes from
          Size       \* declared length of every input

\* every input names one of the producers; lengths are checked as they are declared
ASSUME InputsAssumption == Source \in [Inputs -> Producers] /\ Size \in Nat

VARIABLES owner,    \* "bundle", or "handoff": of one producer and one of its artifacts
          chosen,   \* that artifact
          bundle,   \* the bundle's status
          producer, \* its record of each producer
          handoff,  \* status of each producer's handoff
          told,     \* what each producer's event stream has come to
          reader,   \* each artifact reader: [status, got, sound, holds]
          returned, \* producers whose stream has ended and whose handoff has not gone on
          heard,    \* producers whose handoff has gone on and the bundle has not
          delivered \* the inputs whose bytes the caller was given: input -> were they the declared ones

inputVars == <<owner, chosen, bundle, producer, handoff, told, reader, returned, heard, delivered>>

(* Only an ended, contiguous stream of a run that succeeded, naming this    *)
(* manifest and exactly its artifacts, is a match.                         *)
Endings == {"match", "cut", "not_succeeded", "other_manifest", "other_artifacts"}

NewReader == [status |-> "idle", got |-> 0, sound |-> TRUE, holds |-> FALSE]
ClosedReader == [NewReader EXCEPT !.status = "closed"]
Mine == IF owner = "bundle" THEN Inputs ELSE {chosen}

InputsInit ==
  /\ owner \in {"bundle", "handoff"} /\ chosen \in Inputs
  /\ bundle = "idle"
  /\ producer = [p \in Producers |-> "idle"]
  /\ handoff = [p \in Producers |-> "idle"]
  /\ told = [p \in Producers |-> "idle"]
  /\ reader = [i \in Inputs |-> NewReader]
  /\ returned = {} /\ heard = {}
  /\ delivered = [i \in {} |-> TRUE]

(***************************************************************************)
(* The artifact reader.                                                    *)
(***************************************************************************)
Unmoved == UNCHANGED <<owner, chosen>>
OwnerStays == Unmoved /\ UNCHANGED <<bundle, producer, handoff, told, returned, heard, delivered>>

(* read(): claims its source, which may be no stream at all. *)
Opened(r) == {[r EXCEPT !.status = "reading", !.holds = TRUE], [r EXCEPT !.status = "rejected"]}
Rejected(r) == [r EXCEPT !.status = "rejected", !.holds = FALSE]

(* read() goes on: a chunk, right or wrong, or bytes of no use, or the end. *)
Gathered(r, k, right) ==
  IF r.got + k > Size THEN Rejected(r) ELSE [r EXCEPT !.got = @ + k, !.sound = @ /\ (right \/ k = 0)]

Arrives(i) ==
  /\ reader[i].status = "reading"
  /\ \E k \in 0..Size, right \in BOOLEAN : reader' = [reader EXCEPT ![i] = Gathered(@, k, right)]
  /\ OwnerStays

Breaks(i) ==
  /\ reader[i].status \in {"reading", "checking"}
  /\ reader' = [reader EXCEPT ![i] = Rejected(@)]
  /\ OwnerStays

Ends(i) ==
  /\ reader[i].status = "reading"
  /\ reader' = [reader EXCEPT ![i] = IF @.got = Size THEN [@ EXCEPT !.status = "checking"] ELSE Rejected(@)]
  /\ OwnerStays

Digest(i) ==
  /\ reader[i].status = "checking"
  /\ reader' = [reader EXCEPT ![i] = IF @.sound THEN [@ EXCEPT !.status = "matched"] ELSE Rejected(@)]
  /\ OwnerStays

ReaderStep == \E i \in Inputs : Arrives(i) \/ Breaks(i) \/ Ends(i) \/ Digest(i)

(***************************************************************************)
(* The handoff, and the producer's stream it reads.                        *)
(***************************************************************************)
StreamEnds ==
  /\ \E p \in Producers, e \in Endings :
       /\ told[p] = "reading" /\ told' = [told EXCEPT ![p] = e]
       /\ returned' = returned \cup {p}
  /\ Unmoved /\ UNCHANGED <<bundle, producer, handoff, reader, heard, delivered>>

Heeds(e) == IF e = "match" THEN "awaiting_bytes" ELSE "rejected"

ClosedReports(P) == [p \in Producers |-> IF p \in P /\ told[p] \in {"idle", "reading"} THEN "closed" ELSE told[p]]
CloseReaders(I) == [i \in Inputs |-> IF i \in I THEN ClosedReader ELSE reader[i]]

(* observe() goes on: closed in the meantime, or it judges the report. *)
HandoffHears ==
  /\ \E p \in Producers :
       /\ p \in returned /\ handoff[p] \in {"observing", "closed"}
       /\ handoff' = [handoff EXCEPT ![p] = IF @ = "closed" THEN @ ELSE Heeds(told[p])]
       /\ returned' = returned \ {p} /\ heard' = heard \cup {q \in {p} : owner = "bundle"}
       /\ reader' = IF owner = "handoff" /\ handoff'[p] = "rejected" THEN CloseReaders({chosen}) ELSE reader
  /\ Unmoved /\ UNCHANGED <<bundle, producer, told, delivered>>

Alone == owner = "handoff" /\ Unmoved /\ UNCHANGED <<bundle, producer, returned, heard>>
Maker == Source[chosen]

HandoffObserve ==
  /\ Alone /\ handoff[Maker] = "idle"
  /\ handoff' = [handoff EXCEPT ![Maker] = "observing"] /\ told' = [told EXCEPT ![Maker] = "reading"]
  /\ UNCHANGED <<reader, delivered>>

HandoffRead ==
  /\ Alone /\ handoff[Maker] = "awaiting_bytes"
  /\ handoff' = [handoff EXCEPT ![Maker] = "reading_bytes"]
  /\ \E r \in Opened(reader[chosen]) : reader' = [reader EXCEPT ![chosen] = r]
  /\ UNCHANGED <<told, delivered>>

(* readArtifact() goes on. *)
HandoffGoesOn ==
  /\ Alone /\ handoff[Maker] = "reading_bytes" /\ reader[chosen].status \in {"matched", "rejected"}
  /\ IF reader[chosen].status = "matched"
       THEN handoff' = [handoff EXCEPT ![Maker] = "ready"] /\ UNCHANGED reader
       ELSE handoff' = [handoff EXCEPT ![Maker] = "rejected"] /\ reader' = CloseReaders({chosen})
  /\ UNCHANGED <<told, delivered>>

Taken(r) == [r EXCEPT !.status = "taken", !.holds = FALSE]

HandoffTake ==
  /\ Alone /\ handoff[Maker] = "ready"
  /\ handoff' = [handoff EXCEPT ![Maker] = "taken"]
  /\ reader' = [reader EXCEPT ![chosen] = Taken(@)]
  /\ delivered' = [i \in {chosen} |-> reader[i].sound]
  /\ UNCHANGED told

HandoffClose ==
  /\ Alone /\ handoff' = [handoff EXCEPT ![Maker] = "closed"]
  /\ told' = ClosedReports({Maker}) /\ reader' = CloseReaders({chosen})
  /\ UNCHANGED delivered

(***************************************************************************)
(* The bundle.                                                             *)
(***************************************************************************)
Bundled == owner = "bundle" /\ Unmoved
Stopped == bundle \in {"closed", "rejected"}

\* mutant: only the artifact that failed is given up
ToCloseFailed == {i \in Inputs : reader[i].status = "rejected"}

ToClose == Inputs

(* clearOwned(): every handoff and every reader is closed. *)
ClearOwned ==
  /\ producer' = [p \in Producers |-> "closed"] /\ handoff' = [p \in Producers |-> "closed"]
  /\ told' = ClosedReports(Producers) /\ reader' = CloseReaders(ToClose)
Reject == bundle' = "rejected" /\ ClearOwned

Begin ==
  /\ Bundled /\ bundle = "idle" /\ bundle' = "awaiting_producers"
  /\ UNCHANGED <<producer, handoff, told, reader, returned, heard, delivered>>

ObserveProducer ==
  /\ Bundled /\ bundle = "awaiting_producers"
  /\ \E p \in Producers :
       /\ producer[p] = "idle" /\ producer' = [producer EXCEPT ![p] = "observing"]
       /\ handoff' = [handoff EXCEPT ![p] = "observing"] /\ told' = [told EXCEPT ![p] = "reading"]
  /\ UNCHANGED <<bundle, reader, returned, heard, delivered>>

(* observeProducer() goes on. *)
BundleHears ==
  /\ Bundled /\ UNCHANGED <<returned, delivered>>
  /\ \E p \in Producers :
       /\ p \in heard /\ heard' = heard \ {p}
       /\ CASE Stopped -> UNCHANGED <<bundle, producer, handoff, told, reader>>
            [] ~Stopped /\ handoff[p] # "awaiting_bytes" -> Reject
            [] ~Stopped /\ handoff[p] = "awaiting_bytes" ->
                 /\ producer' = [producer EXCEPT ![p] = "matched"]
                 /\ bundle' = IF \A q \in Producers : producer'[q] = "matched" THEN "awaiting_artifacts" ELSE bundle
                 /\ UNCHANGED <<handoff, told, reader>>

ReadArtifact ==
  /\ Bundled /\ bundle \in {"awaiting_artifacts", "reading_artifacts"}
  /\ \E i \in Inputs : reader[i].status = "idle" /\ \E r \in Opened(reader[i]) : reader' = [reader EXCEPT ![i] = r]
  /\ bundle' = "reading_artifacts" /\ UNCHANGED <<producer, handoff, told, returned, heard, delivered>>

(* readArtifact() goes on; an input that is not matched ends the bundle. *)
BundleGoesOn ==
  /\ Bundled /\ bundle = "reading_artifacts" /\ UNCHANGED <<returned, heard, delivered>>
  /\ \/ (\E i \in Inputs : reader[i].status = "rejected") /\ Reject
     \/ /\ \A i \in Inputs : reader[i].status = "matched"
        /\ bundle' = "ready" /\ UNCHANGED <<producer, handoff, told, reader>>

(* takeAll(): synchronous; what it finds amiss it undoes. *)
TakeAll ==
  /\ Bundled /\ bundle = "ready" /\ UNCHANGED <<returned, heard>>
  /\ IF \A i \in Inputs : producer[Source[i]] = "matched" /\ reader[i].status = "matched"
       THEN /\ bundle' = "taken" /\ delivered' = [i \in Inputs |-> reader[i].sound]
            /\ reader' = [i \in Inputs |-> Taken(reader[i])]
            /\ handoff' = [p \in Producers |-> "closed"] /\ told' = ClosedReports(Producers)
            /\ UNCHANGED producer
       ELSE Reject /\ UNCHANGED delivered

Close == Bundled /\ bundle' = "closed" /\ ClearOwned /\ UNCHANGED <<returned, heard, delivered>>

InputsNext ==
  \/ ReaderStep \/ StreamEnds \/ HandoffHears
  \/ HandoffObserve \/ HandoffRead \/ HandoffGoesOn \/ HandoffTake \/ HandoffClose
  \/ Begin \/ ObserveProducer \/ BundleHears \/ ReadArtifact \/ BundleGoesOn \/ TakeAll \/ Close

(***************************************************************************)
(* Properties.                                                             *)
(***************************************************************************)
(* Once the owner is rejected or closed no reader keeps or gathers bytes,   *)
(* not even one whose stream or digest was under way.                      *)
NothingKept ==
  (IF owner = "bundle" THEN Stopped ELSE handoff[Maker] \in {"rejected", "closed"})
    => \A i \in Mine : ~reader[i].holds /\ reader[i].status = "closed"

(* The caller is given every declared input or none; each is byte for byte  *)
(* what its manifest declares; and every producer's own stream had told of  *)
(* that manifest and ended well, whatever overlapped or was aborted. What   *)
(* is not given is not kept either.                                        *)
AllOrNothing ==
  /\ DOMAIN delivered \in {{}, Mine}
  /\ \A i \in DOMAIN delivered : delivered[i] /\ told[Source[i]] = "match"
  /\ NothingKept
=============================================================================
