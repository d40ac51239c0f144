------------------------------ MODULE MCSession ------------------------------
(***************************************************************************)
(* Small instances of Session: two sessions, two nicks and two passwords,  *)
(* and files with an account that this build can load and one it cannot.   *)
(* Two sessions of one nick, and a disk that loses what it was given, have *)
(* a configuration of their own.                                           *)
(***************************************************************************)
EXTENDS Session, TLC

Symmetry == Permutations(Sessions) \cup Permutations(Passwords) \cup Permutations(Nicks)
=============================================================================
