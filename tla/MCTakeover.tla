----------------------------- MODULE MCTakeover -----------------------------
(***************************************************************************)
(* Small instances of Takeover: two users' worth of nicks, and an old and  *)
(* a new session; or one nick and three sessions.                          *)
(***************************************************************************)
EXTENDS Takeover, TLC

Symmetry == Permutations(Procs) \cup Permutations(Nicks)
=============================================================================
