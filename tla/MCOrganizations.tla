--------------------------- MODULE MCOrganizations ---------------------------
(* Organizations on small instances: two people are enough, since whoever  *)
(* is removed can be invited back.  Ids are only compared.                 *)
EXTENDS Organizations, TLC

(* What happens around members' rows does not happen all in one behaviour: *)
(* a federation comes; an account, the settings or the organization        *)
(* change; or somebody's sessions are cut off while the row stays. A third *)
(* change of a member's row is one after which the federation stays as it  *)
(* is, and before which nothing but the federation came.                   *)
AtMostTwo == \A g, h \in Person : g # h => member[g].object_version + member[h].object_version <= 4
NothingAround == org.object_version = 1 /\ \A h \in Person : human[h].auth_version = 1
NoneCut == \A h \in Person : cutoff[h] < member[h].object_version

Region ==
  /\ connection.object_version # 1 => AtMostTwo
  /\ IF connection.object_version = 0 THEN NothingAround \/ NoneCut ELSE NothingAround /\ NoneCut

Symmetry == Permutations(Session) \cup Permutations(Ticket)
              \cup Permutations(Invitation) \cup Permutations(Founder)
=============================================================================
