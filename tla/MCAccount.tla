------------------------------ MODULE MCAccount ------------------------------
(***************************************************************************)
(* Small instances of Account: two accounts, two addresses for             *)
(* connections, so that an address is reused by the other account, and     *)
(* back-off settings with each operator.                                   *)
(***************************************************************************)
EXTENDS Account

Setting(start, op, step, max) == [start |-> start, op |-> op, step |-> step, max |-> max]

\* "1*2<3" and "0" (which turns reconnecting off)
MCDelaySettings == {Setting(1, "*", 2, 3), Setting(0, "constant", 0, 7)}

\* "3*7<15": with an IntMax of 15 the first product does not fit; with an int of
\* 32 bits "5*100000000<900" is such a setting, whose second one does not.
MCWrapSettings == {Setting(3, "*", 7, 15)}
=============================================================================
