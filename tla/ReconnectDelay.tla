--------------------------- MODULE ReconnectDelay ---------------------------
(***************************************************************************)
(* The back-off of protocols/account.c: what the auto_reconnect_delay      *)
(* setting ("5*3<900") makes of the delay before the next attempt.  C ints *)
(* are modelled with their width: IntMax is INT_MAX (scaled down in the    *)
(* models), and a sum or product that does not fit wraps around, which is  *)
(* what the compilers BitlBee is built with produce.                       *)
(***************************************************************************)
EXTENDS Integers

CONSTANT IntMax

ASSUME IntMaxAssumption == IntMax \in Nat \ {0}

CInt == -(IntMax + 1) .. IntMax

\* An unbounded integer stored in an int.
ToInt(x) == ((x + IntMax + 1) % (2 * (IntMax + 1))) - (IntMax + 1)

\* struct account_reconnect_delay, as account_reconnect_delay_parse() leaves
\* it for a value that set_eval_account_reconnect_delay() accepted.  Digits are
\* added up in ints, so that a long number can become any int; only the maximum
\* is looked at.
DelaySetting ==
    [start : CInt, op : {"constant", "+", "*"}, step : CInt, max : 1 .. IntMax]

\* The delay after one more failure, before the cap.
Grow(p, delay) ==
    CASE delay = 0                    -> p.start
      [] delay # 0 /\ p.op = "+"      -> ToInt(delay + p.step)
      [] delay # 0 /\ p.op = "*"      -> ToInt(delay * p.step)
      [] delay # 0 /\ p.op = "constant" -> delay

\* Mutant: a delay above the maximum starts over.
RestartAtMaximum(p, delay) ==
    IF Grow(p, delay) > p.max THEN p.start ELSE Grow(p, delay)

\* account_reconnect_delay(): the value it stores in the account and returns.
AccountReconnectDelay(p, delay) ==
    IF Grow(p, delay) > p.max THEN p.max ELSE Grow(p, delay)
=============================================================================
