------------------------------- MODULE MCQuery -------------------------------
(***************************************************************************)
(* Small instances of Query: two connections and three questions, so that  *)
(* a connection's questions surround another's in the list.                *)
(***************************************************************************)
EXTENDS Query, TLC

Symmetry == Permutations(Questions)
=============================================================================
