---------------------------- MODULE PolicySocket ----------------------------
(***************************************************************************)
(* The policy WebSocket of services/api: a raw socket is admitted, its      *)
(* session is checked, and a WebSocket made of it takes one command at a    *)
(* time. Sockets are counted twice, in all and per session. A socket may be *)
(* destroyed at any point, by the peer, a timer or a shutdown, and its      *)
(* 'close' event comes later than that.                                    *)
(***************************************************************************)
EXTENDS Naturals, FiniteSets

CONSTANTS Sockets,        \* 1..n; the first that is free is the next one used
          Digests,
          MaxRaw,         \* raw sockets open at once (32 in the code)
          MaxPerSession,  \* of one session (4)
          MaxMessages     \* commands taken in one window (60)

VARIABLES sock,     \* [life, does, digest, counted, busy, count] of each socket
          raw,      \* rawSockets
          sessions, \* the map, with 0 for a session it does not hold
          stopping, \* "no", "closing", "closed"
          good      \* digests whose session may use the catalogue

socketVars == <<sock, raw, sessions, stopping, good>>

NoDigest == "none"

\* no digest is the absence of one
ASSUME SocketAssumption == NoDigest \notin Digests /\ MaxRaw \in Nat /\ MaxPerSession \in Nat

Unborn == [life |-> "unborn", does |-> "nothing", digest |-> NoDigest, counted |-> FALSE, busy |-> FALSE, count |-> 0]

SocketInit ==
  /\ sock = [s \in Sockets |-> Unborn] /\ raw = {}
  /\ sessions = [d \in Digests |-> 0] /\ stopping = "no" /\ good \in SUBSET Digests

(* A socket nothing refers to any more is as if it had never been.           *)
Freed(r) == IF r.life = "gone" /\ ~r.busy /\ r.does # "asking" THEN Unborn ELSE r

Is(s, life, does) == sock[s].life = life /\ sock[s].does = does
Live(s) == sock[s].life \in {"up", "destroyed"}
Destroyed(s) == sock' = [sock EXCEPT ![s].life = "destroyed"]
RestStays == UNCHANGED <<raw, sessions, stopping, good>>

(***************************************************************************)
(* An upgrade request. It is refused at once when it is not one for this    *)
(* path, has no session cookie, or its session has too many sockets; what   *)
(* it counts for is written down before anything is awaited. With too many  *)
(* sockets in all it is destroyed, and nothing is changed.                 *)
(***************************************************************************)
Full(d) == sessions[d] >= MaxPerSession
Admitted(s, d) ==
  /\ sock' = [sock EXCEPT ![s] = [Unborn EXCEPT !.life = "up", !.does = "asking", !.digest = d, !.counted = TRUE]]
  /\ sessions' = [sessions EXCEPT ![d] = @ + 1]
Denied(s) == sock' = [sock EXCEPT ![s] = [Unborn EXCEPT !.life = "up", !.does = "refused"]] /\ UNCHANGED sessions

Upgrade(s) ==
  /\ sock[s] = Unborn /\ \A r \in Sockets : sock[r] = Unborn => s <= r
  /\ stopping = "no" /\ UNCHANGED <<stopping, good>>
  /\ Cardinality(raw) < MaxRaw /\ raw' = raw \cup {s}
  /\ Denied(s) \/ \E d \in Digests : IF Full(d) THEN Denied(s) ELSE Admitted(s, d)

(* validateScope() answers. A socket destroyed meanwhile is left alone.     *)
Answer(s) ==
  /\ sock[s].does = "asking" /\ RestStays
  /\ sock' = [sock EXCEPT ![s] = Freed([@ EXCEPT !.does =
       IF sock[s].digest \notin good THEN "refused"
       ELSE IF sock[s].life = "up" /\ stopping = "no" THEN "open" ELSE "nothing"])]

(***************************************************************************)
(* An open WebSocket.                                                      *)
(***************************************************************************)
Message(s) ==
  /\ Is(s, "up", "open") /\ RestStays
  /\ IF sock[s].busy \/ sock[s].count = MaxMessages
       THEN Destroyed(s)
       ELSE sock' = [sock EXCEPT ![s].busy = TRUE, ![s].count = @ + 1]

NewWindow(s) == Is(s, "up", "open") /\ sock[s].count > 0 /\ sock' = [sock EXCEPT ![s].count = 0] /\ RestStays

(* The command is done, also when nobody is left to tell. After a refusal   *)
(* that calls for a new login the socket is closed.                        *)
Reply(s) ==
  /\ sock[s].busy /\ RestStays
  /\ \/ sock' = [sock EXCEPT ![s] = Freed([@ EXCEPT !.busy = FALSE])]
     \/ /\ Is(s, "up", "open")
        /\ sock' = [sock EXCEPT ![s].busy = FALSE, ![s].does = "ending"]

Recheck(s) == Is(s, "up", "open") /\ sock[s].digest \notin good /\ Destroyed(s) /\ RestStays

(* The peer goes away, the handshake takes 5 s, the 403 is a second old, or *)
(* nothing was said for long enough.                                       *)
GoesAway(s) == sock[s].life = "up" /\ Destroyed(s) /\ RestStays

\* mutant: the counter of the session is lowered where the WebSocket closes
LowersWhenOpened(s) == sock[s].does \in {"open", "ending"}

Lowers(s) == sock[s].counted

(* The 'close' event of the raw socket.                                    *)
CloseEvent(s) ==
  /\ sock[s].life = "destroyed" /\ UNCHANGED <<stopping, good>>
  /\ sock' = [sock EXCEPT ![s] = Freed([@ EXCEPT !.life = "gone", !.count = 0])]
  /\ raw' = raw \ {s}
  /\ IF Lowers(s) THEN sessions' = [sessions EXCEPT ![sock[s].digest] = @ - 1] ELSE UNCHANGED sessions

(***************************************************************************)
(* Sessions end; the service stops (preClose).                             *)
(***************************************************************************)
SessionEnds == \E d \in good : good' = good \ {d} /\ UNCHANGED <<sock, raw, sessions, stopping>>

PreClose ==
  /\ stopping = "no" /\ stopping' = "closing" /\ UNCHANGED <<raw, sessions, good>>
  /\ sock' = [s \in Sockets |-> IF s \in raw THEN [sock[s] EXCEPT !.life = "destroyed"] ELSE sock[s]]

PreClosed ==
  /\ stopping = "closing" /\ \A s \in raw : sock[s].does \notin {"open", "ending"}
  /\ stopping' = "closed" /\ UNCHANGED <<sock, raw, sessions, good>>

SocketNext ==
  \/ \E s \in Sockets : Upgrade(s) \/ Answer(s) \/ Message(s) \/ NewWindow(s) \/ Reply(s) \/ Recheck(s) \/ GoesAway(s) \/ CloseEvent(s)
  \/ SessionEnds \/ PreClose \/ PreClosed

(* Whatever ends a socket and wherever it was, the two counts are those of  *)
(* the sockets there are, no more of them than allowed; so sockets that     *)
(* come and go never use up a session's share or the service's. Once the    *)
(* service has closed no socket is open or will be                         *)
(* (services/api/src/policy/socket.ts:36).                                 *)
SocketsCounted ==
  /\ raw = {s \in Sockets : Live(s)} /\ Cardinality(raw) <= MaxRaw
  /\ \A d \in Digests :
       /\ sessions[d] = Cardinality({s \in raw : sock[s].digest = d})
       /\ sessions[d] <= MaxPerSession
  /\ stopping = "closed" => \A s \in Sockets : ~Is(s, "up", "open")
=============================================================================
