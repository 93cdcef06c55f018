------------------------- MODULE MCIdentitySessions --------------------------
(* Two connections serve one human with up to three session rows.          *)
EXTENDS IdentitySessions, TLC

Symmetry == Permutations(Connection) \cup Permutations(Session)
              \cup Permutations(Ticket) \cup Permutations(Org)
=============================================================================
