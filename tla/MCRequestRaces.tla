--------------------------- MODULE MCRequestRaces ---------------------------
(***************************************************************************)
(* Instances of RequestRaces for TLC.                                      *)
(***************************************************************************)
EXTENDS RequestRaces, TLC

\* Ids, names and handlers are only compared.
Symmetry ==
  Permutations(Recipe) \cup Permutations(Revision) \cup Permutations(RequestId)
    \cup Permutations(Handler) \cup Permutations(Name)
=============================================================================
