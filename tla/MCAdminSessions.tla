-------------------------- MODULE MCAdminSessions --------------------------
(* Instances of AdminSessions for TLC.                                     *)
EXTENDS AdminSessions, TLC

\* Sessions and requests differ only in their names.
Symmetry == Permutations(Sessions) \cup Permutations(Requests)
============================================================================
