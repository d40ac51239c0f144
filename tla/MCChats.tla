------------------------------ MODULE MCChats -------------------------------
(***************************************************************************)
(* Small instances of Chats: two addresses of each kind, so that one is    *)
(* used again while timers and pointers to it may be left.                 *)
(***************************************************************************)
EXTENDS Chats
=============================================================================
