---------------------------- MODULE AccountStatus ----------------------------
(***************************************************************************)
(* What an IM account promises its user, without timers, handles and       *)
(* connections: the state `account list' prints (root_commands.c), and     *)
(* how it may change.  One command or event may move several accounts.     *)
(***************************************************************************)
CONSTANT Accounts

VARIABLE status      \* of each account

Status ==
    {"absent",       \* not in the list
     "offline",
     "connecting",
     "authorizing",  \* connecting, but the user has to do something first
     "connected",
     "waiting"}      \* awaiting reconnect

\* An account with a connection loses it to one of the idle states; a login
\* starts from an idle state, and may fail at once; only an account without a
\* connection can be deleted, except at the end of the session.
Idle == {"offline", "waiting"}
Busy == {"connecting", "authorizing", "connected"}

Edges ==
    ({"absent"} \X {"offline"})
      \cup (Idle \X (Idle \cup Busy \cup {"absent"}))
      \cup ({"connecting", "authorizing"} \X {"connected"})
      \cup (Busy \X (Idle \cup {"absent"}))

Init == status = [a \in Accounts |-> "absent"]

Next ==
    /\ status' \in [Accounts -> Status]
    /\ \A a \in Accounts : status'[a] # status[a] => <<status[a], status'[a]>> \in Edges
    \* Deleting a connected account happens only with all the others.
    /\ (\E a \in Accounts : status[a] \in Busy /\ status'[a] = "absent")
         => \A a \in Accounts : status'[a] = "absent"

Spec == Init /\ [][Next]_status

\* The state that only time should end does end.
LoginEnds == \A a \in Accounts : status[a] = "connecting" ~> status[a] # "connecting"
=============================================================================
