---------------------------- MODULE MCConnection ----------------------------
(***************************************************************************)
(* Small instances of Connection: two addresses, which are one session and *)
(* the one that takes it over, and the packets in which a line can follow  *)
(* another that ends or moves the session.                                 *)
(***************************************************************************)
EXTENDS Connection

MCPackets ==
    {<<"pass", "user", "nick">>, <<"pass", "nick">>, <<"pong">>, <<"identify">>, <<"quit", "other">>,
     <<"yes", "identify">>, <<"no">>, <<"die">>}
=============================================================================
