--------------------------- MODULE MCApprovalLocks ---------------------------
(* Two connections and the calls that compete: ada asks for a rename and   *)
(* carries it out, bo, an owner, decides, and trusted mutators change the  *)
(* authority of either.                                                    *)
EXTENDS ApprovalLocks, TLC

CONSTANTS ada, bo, q1, r1, n1, d1, p1, p2

MCEnvironment == [x \in Resource |-> "staging"]
MCInitialRole == [h \in Human |-> IF h = ada THEN "member" ELSE "owner"]
MCIdOrder == [h \in Human |-> IF h = ada THEN 1 ELSE 2]

Calls ==
  LET a == <<ada, q1>> IN
  { [op |-> "request", h |-> ada, q |-> q1, x |-> r1, n |-> n1,
     review |-> "required"],
    [op |-> "request", h |-> bo, q |-> q1, x |-> r1, n |-> n1,
     review |-> "required"],
    [op |-> "decide", h |-> bo, a |-> a, outcome |-> "approve"],
    [op |-> "issuePermit", h |-> ada, a |-> a, d |-> d1],
    [op |-> "execute", h |-> ada, a |-> a, x |-> r1, n |-> n1, d |-> d1],
    [op |-> "revoke", h |-> ada, a |-> a],
    [op |-> "revokeSession", h |-> bo],
    [op |-> "setHumanStatus", h |-> ada, active |-> FALSE],
    [op |-> "setMembership", h |-> bo, role |-> "member", active |-> TRUE],
    [op |-> "setOrganizationStatus", active |-> FALSE],
    [op |-> "changePolicy", mode |-> "read_only", h |-> ada, effect |-> {}] }

(* One connection carries ada's request all the way; the other works for   *)
(* bo and changes authority.                                               *)
MCJob ==
  [p \in Proc |->
     {j \in Calls :
        IF p = p1 THEN \/ j.op \in OnApproval
                       \/ j.op = "request" /\ j.h = ada
        ELSE \/ j.op \in Mutator \cup {"revokeSession"}
             \/ j.op = "request" /\ j.h = bo}]
=============================================================================
