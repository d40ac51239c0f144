----------------------------- MODULE MCContacts -----------------------------
(***************************************************************************)
(* Small instances of Contacts: two contacts whose handles give one nick,  *)
(* one more nick to type, which is the one nick_dedupe() tries first, the  *)
(* main channel and another that may be filled by a group.                 *)
(***************************************************************************)
EXTENDS Contacts, TLC

\* Addresses are interchangeable, and no liveness is checked.
Symmetry == Permutations(Users)
=============================================================================
