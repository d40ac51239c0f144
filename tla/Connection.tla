----------------------------- MODULE Connection -----------------------------
(***************************************************************************)
(* The IRC side of a session in Daemon mode, where all sessions share one  *)
(* process: irc.c, the handlers of bitlbee.c, registration and the few     *)
(* commands of irc_commands.c that end, keep alive or move a connection,   *)
(* and the takeover inside one process in ipc.c.                           *)
(*                                                                         *)
(* An irc_t is an address with a record: its descriptor, its buffers, the  *)
(* handles it keeps and, in ev, the events of the loop whose data pointer  *)
(* it is.  An event is the record that is its handle; b_event_remove()     *)
(* takes it out of ev.  Nothing but the code's own calls keeps handles and *)
(* events together, and an address can be used again while an event still  *)
(* points to it.  All sessions here are of one nick, which is when         *)
(* sessions meet.  A handler is one step: irc_process() runs all the lines *)
(* of one read().  Time passes in ticks.                                   *)
(***************************************************************************)
EXTENDS Naturals, Sequences

CONSTANTS
    Ircs,            \* addresses g_new0() may return for an irc_t
    Clients,         \* connections of IRC clients
    None,
    Closed,          \* authmode = closed: clients need the server's password
    Interval,        \* ping_interval, Timeout ping_timeout and LoginTimeout
    Timeout,         \* IRC_LOGIN_TIMEOUT, in ticks
    LoginTimeout,
    Packets          \* sequences of lines one read() may return

Lines == {"user", "nick", "pass", "pong", "quit", "die",
          "identify", "yes", "no", "other"}

\* What the event loop waits for: a callback, and the descriptor of a watch.
Event(cb, fd) == [cb |-> cb, fd |-> fd]
PingTimer == Event("irc_userping", None)
FreeTimer == Event("irc_free", None)
Events == {PingTimer, FreeTimer} \cup {Event(cb, k) : cb \in {"read", "write"}, k \in Clients}

ASSUME ConstantsAssumption ==
    /\ None \notin Ircs \cup Clients \cup Events
    /\ Closed \in BOOLEAN
    /\ {Interval, Timeout, LoginTimeout} \subseteq Nat \ {0}
    /\ Packets \subseteq Seq(Lines) \ {<<>>}

VARIABLES
    irc,             \* the contents of each address
    irc_connection_list,   \* its order only decides which of several is found
    recvFd,          \* ipc_child_recv_fd: a client's connection, or None
    peers,           \* the clients whose end of the connection is open
    running          \* the main loop runs

vars == <<irc, irc_connection_list, recvFd, peers, running>>

\* Ticks since the last PONG are counted up to here.
MaxAge == CHOOSE t \in {Interval, Timeout, LoginTimeout} :
            t >= Interval /\ t >= Timeout /\ t >= LoginTimeout

Freed ==
    [fd |-> None, sendbuffer |-> FALSE, r |-> None, w |-> None, ping |-> None, ev |-> {},
     given |-> {}, status |-> {}, asked |-> FALSE, pinging |-> FALSE,
     age |-> 0, pinged |-> FALSE, ended |-> "no"]

Init ==
    /\ irc = [s \in Ircs |-> Freed]
    /\ irc_connection_list = {}
    /\ recvFd = None
    /\ peers = {}
    /\ running = TRUE

\* The variables as a record.
Process == [irc |-> irc, list |-> irc_connection_list, recvFd |-> recvFd, peers |-> peers,
            running |-> running]

-----------------------------------------------------------------------------
(* What the functions of irc.c do to one session *)

\* irc_vawrite(): the line is appended, and a write watch armed if there is
\* no handle of one.
Write(r) ==
    LET e == Event("write", r.fd)
    IN  IF r.w = None THEN [r EXCEPT !.sendbuffer = TRUE, !.w = e, !.ev = @ \cup {e}]
        ELSE [r EXCEPT !.sendbuffer = TRUE]

Sent == {"all", "less"}     \* what send() takes of the buffer

\* Mutant: the flushed buffer's watch is forgotten in the loop only.
FlushKeepsHandle(r, sent) ==
    IF r.sendbuffer /\ sent = "all" THEN [r EXCEPT !.sendbuffer = FALSE, !.ev = @ \ {r.w}] ELSE r

\* irc_flush()
Flush(r, sent) ==
    IF r.sendbuffer /\ sent = "all"
    THEN [r EXCEPT !.sendbuffer = FALSE, !.ev = @ \ {r.w}, !.w = None]
    ELSE r

\* Mutant: irc_abort() with immed unset only says goodbye.
AbortOnlySays(r, why, sent) ==
    [Flush(IF why = "takeover" THEN r ELSE Write(r), sent)
        EXCEPT !.ended = IF why = "silent" THEN why ELSE "other"]

\* irc_abort() without immed: why # "takeover" has a reason to tell.
Abort(r, why, sent) ==
    LET f == Flush(IF why = "takeover" THEN r ELSE Write(r), sent)
    IN  [f EXCEPT !.ev = (@ \ {f.ping}) \cup {FreeTimer}, !.ping = FreeTimer,
                  !.ended = IF why = "silent" THEN why ELSE "other"]

\* irc_free() of the contents.
Free(r) == [Freed EXCEPT !.ev = r.ev \ {r.ping, r.r, r.w}]

\* The clients still connected when descriptors are closed and the sessions
\* left keep theirs.
Hangup(open, closed, g, left) == open \ {k \in closed : k # g.recvFd /\ \A o \in left : g.irc[o].fd # k}

\* irc_free()
IrcFree(s) ==
    /\ irc' = [irc EXCEPT ![s] = Free(@)]
    /\ irc_connection_list' = irc_connection_list \ {s}
    /\ peers' = Hangup(peers, {irc[s].fd}, Process, irc_connection_list \ {s})
    /\ UNCHANGED <<recvFd, running>>

\* Mutant: the write watch stays on the old socket.
SwitchKeepsWatch(r, fd) ==
    LET e == Event("read", fd)
    IN  [r EXCEPT !.sendbuffer = FALSE, !.fd = fd, !.r = e, !.pinged = FALSE, !.ev = (@ \ {r.r}) \cup {e}]

\* irc_switch_fd(): what irc_flush() could not send is forgotten.
SwitchFd(r, fd) ==
    LET e == Event("read", fd)
    IN  [r EXCEPT !.sendbuffer = FALSE, !.w = None, !.fd = fd, !.r = e, !.pinged = FALSE,
                  !.ev = (@ \ {r.r, r.w}) \cup {e}]

\* Mutant: a PING of the old client stays open.
SyncStillPinging(r) == Write(r)

\* irc_sync()
Sync(r) == [Write(r) EXCEPT !.pinging = FALSE]

-----------------------------------------------------------------------------
(* irc_exec(): what one line of session s does to g, the variables' record.   *)
(* c is what the environment decides while the line runs.    *)

\* Whether allow_takeover is on, in both sessions, while the lines of one
\* read() run, and send()'s answer.
Circumstances == [allowed : BOOLEAN, sent : Sent]

\* Does the session have irc->password and a nick?  One that is not logged in yet
\* does if PASS and NICK came first.
HasPassword(r) == "IDENTIFIED" \in r.status \/ {"pass", "nick"} \subseteq r.given

\* The other sessions of the user whose password is known; which is found
\* first in the list is the same for a repeated search.
Others(g, s) == {o \in g.list \ {s} : HasPassword(g.irc[o])}

With(g, s, r) == [g EXCEPT !.irc[s] = r]

LoggedIn(r) == "LOGGED_IN" \in r.status

\* cmd_identify() with the right password, and ipc_child_identify(): another
\* session of the user makes root ask whether to take it over, if both have
\* allow_takeover.
Identify(r, old, c) ==
    IF "IDENTIFIED" \in r.status THEN Write(r)
    ELSE Write([r EXCEPT !.status = @ \cup {"IDENTIFIED"}, !.asked = old # {} /\ c.allowed])

\* irc_check_login(), with the password of a PASS that came first.
CheckLogin(r, old, c) ==
    LET in == Write([r EXCEPT !.status = @ \cup {"LOGGED_IN"}, !.given = @ \ {"pass"}])
    IN  CASE ~({"user", "nick"} \subseteq r.given) -> r
          [] {"user", "nick"} \subseteq r.given /\ Closed /\ "AUTHORIZED" \notin r.status -> Write(r)
          [] OTHER -> IF "pass" \in r.given THEN Identify(in, old, c) ELSE in

\* irc_cmd_user(), irc_cmd_nick() before login, irc_cmd_pass() (the right
\* password: a wrong one is "other").
Register(r, line, old, c) ==
    CASE ~LoggedIn(r) ->
            CheckLogin(IF Closed /\ line = "pass" THEN [r EXCEPT !.status = @ \cup {"AUTHORIZED"}]
                       ELSE [r EXCEPT !.given = @ \cup {line}], old, c)
      [] LoggedIn(r) /\ line = "pass" -> Identify(r, old, c)
      [] LoggedIn(r) /\ line = "user" -> Write(r)
      [] LoggedIn(r) /\ line = "nick" -> r

\* irc_cmd_pong()
Pong(r) == [r EXCEPT !.age = 0, !.pinging = FALSE, !.pinged = FALSE]

\* dup() into ipc_child_recv_fd, which TAKEOVER AUTH uses
Copied(g, fd) == fd

\* ipc_child_cmd_takeover_yes() and, for the old session, TAKEOVER AUTH: if it
\* still allows that, the old session goes on with a copy of the new one's
\* descriptor; the new one leaves in any case.
Yes(g, s, c) ==
    LET new == Write([g.irc[s] EXCEPT !.asked = FALSE])
        o == CHOOSE x \in Others(g, s) : TRUE
        gone == Abort([new EXCEPT !.status = @ \ {"IDENTIFIED"}], "takeover", c.sent)
    IN  CASE Others(g, s) = {} -> With(g, s, new)
          [] Others(g, s) # {} /\ c.allowed ->
                [With(With(g, s, gone), o, Sync(SwitchFd(Write(g.irc[o]), Copied(g, new.fd))))
                    EXCEPT !.recvFd = None, !.peers = Hangup(@, {g.irc[o].fd}, g, g.list \ {o})]
          [] OTHER -> [With(g, s, gone) EXCEPT !.recvFd = new.fd]

\* ipc_master_cmd_die() for an operator: bitlbee_shutdown() aborts every
\* session with immed, in the middle of irc_process().
Die(g) ==
    [g EXCEPT !.irc = [o \in Ircs |-> IF o \in g.list THEN Free(@[o]) ELSE @[o]],
              !.list = {}, !.running = FALSE]

\* The commands for which irc_exec() asks for a login, 451 without one; "other"
\* is any that only answers, as `yes' and `no' do if nothing was asked.
Exec(g, s, line, c) ==
    LET r == g.irc[s]
        answered == [r EXCEPT !.asked = FALSE]
    IN  CASE line \in {"user", "nick", "pass"} -> With(g, s, Register(r, line, Others(g, s), c))
          [] line = "quit" -> With(g, s, Abort(r, "other", c.sent))
          [] line = "pong" /\ LoggedIn(r) -> With(g, s, Pong(r))
          [] line = "identify" /\ LoggedIn(r) -> With(g, s, Identify(r, Others(g, s), c))
          [] line = "yes" /\ r.asked -> Yes(g, s, c)
          [] line = "no" /\ r.asked -> With(g, s, Write(answered))
          [] line = "die" /\ LoggedIn(r) -> Die(g)
          [] OTHER -> With(g, s, Write(r))

\* irc_process(): the lines of one read(), as long as the session is there.
IrcProcess(g, s, lines, c) ==
    LET after[i \in 0 .. Len(lines)] ==
            IF i = 0 THEN g
            ELSE LET h == after[i - 1]
                 IN  IF s \in h.list THEN Exec(h, s, lines[i], c) ELSE h
    IN  after[Len(lines)]

-----------------------------------------------------------------------------
(* The event loop: handlers run one at a time *)

\* bitlbee_io_new_client() and irc_new()
Accept(s, k) ==
    /\ running
    /\ s \notin irc_connection_list
    /\ k # recvFd /\ \A o \in irc_connection_list : irc[o].fd # k
    /\ LET e == Event("read", k)
       IN  irc' = [irc EXCEPT ![s] =
                     Write([Freed EXCEPT !.fd = k, !.r = e, !.ping = PingTimer,
                                         !.ev = irc[s].ev \cup {e, PingTimer}])]
    /\ irc_connection_list' = irc_connection_list \cup {s}
    /\ peers' = peers \cup {k}
    /\ UNCHANGED <<recvFd, running>>

\* A client closes its connection.
ClientLeaves(k) ==
    /\ k \in peers
    /\ peers' = peers \ {k}
    /\ UNCHANGED <<irc, irc_connection_list, recvFd, running>>

ReadReady(s, open) == running /\ (\E e \in irc[s].ev : e.cb = "read") /\ (irc[s].fd \in peers) = open

\* bitlbee_io_current_client_read() and irc_process()
Read(s, lines) ==
    /\ ReadReady(s, TRUE)
    /\ \E g \in {IrcProcess(Process, s, lines, c) : c \in Circumstances} :
        /\ irc' = g.irc
        /\ irc_connection_list' = g.list
        /\ recvFd' = g.recvFd
        /\ peers' = g.peers
        /\ running' = g.running

\* bitlbee_io_current_client_read(): a line of more than 1024 bytes aborts, and
\* the watch goes because the handler returns FALSE.
ReadTooLong(s) ==
    /\ ReadReady(s, TRUE)
    /\ \E sent \in Sent :
         irc' = [irc EXCEPT ![s] = [Abort(irc[s], "other", sent) EXCEPT !.ev = @ \ {irc[s].r}]]
    /\ UNCHANGED <<irc_connection_list, recvFd, peers, running>>

\* bitlbee_io_current_client_read(): end of file, or an error, irc_abort()
\* with immed.
ReadFails(s) ==
    /\ ReadReady(s, FALSE)
    /\ IrcFree(s)

\* bitlbee_io_current_client_write(): the buffer is sent, and the watch goes
\* because the handler returns FALSE; or, without one, only that.
WriteEvent(s) ==
    /\ running
    /\ \E e \in irc[s].ev :
        /\ e.cb = "write"
        /\ LET r == [irc[s] EXCEPT !.ev = @ \ {e}]
           IN  irc' = [irc EXCEPT ![s] = IF @.sendbuffer THEN [r EXCEPT !.sendbuffer = FALSE, !.w = None] ELSE r]
    /\ UNCHANGED <<irc_connection_list, recvFd, peers, running>>

\* bitlbee_io_current_client_write(): the client is gone.
WriteFails(s) ==
    /\ running
    /\ \E e \in irc[s].ev : e.cb = "write"
    /\ irc[s].sendbuffer /\ irc[s].fd \notin peers
    /\ IrcFree(s)

\* The timer irc_abort() sets.
FreeTimerFires(s) ==
    /\ running
    /\ FreeTimer \in irc[s].ev
    /\ IrcFree(s)

\* The ages irc_userping() will look at.
Tick ==
    /\ running
    /\ irc' = [s \in Ircs |-> IF PingTimer \notin irc[s].ev \/ irc[s].age = MaxAge THEN irc[s]
                              ELSE [irc[s] EXCEPT !.age = @ + 1]]
    /\ UNCHANGED <<irc_connection_list, recvFd, peers, running>>

\* Mutant: each round sends a new PING.
PingAgain(r, sent) ==
    IF LoggedIn(r) /\ r.age >= Interval THEN [Write(r) EXCEPT !.pinging = TRUE, !.pinged = TRUE] ELSE r

\* irc_userping(): gettime() is past a bound once its ticks are complete.
Pinged(r, sent) ==
    CASE LoggedIn(r) /\ r.age >= Interval /\ ~r.pinging ->
            [Write(r) EXCEPT !.pinging = TRUE, !.pinged = TRUE]
      [] LoggedIn(r) /\ (r.age < Interval \/ r.pinging) /\ r.age >= Timeout ->
            Abort(r, "silent", sent)
      [] ~LoggedIn(r) /\ r.age >= LoginTimeout ->
            Abort(r, "other", sent)
      [] OTHER -> r

Userping(s) ==
    /\ running
    /\ PingTimer \in irc[s].ev
    /\ \E sent \in Sent : irc' = [irc EXCEPT ![s] = Pinged(@, sent)]
    /\ UNCHANGED <<irc_connection_list, recvFd, peers, running>>

Next ==
    \/ \E s \in Ircs : \/ \E k \in Clients : Accept(s, k)
                       \/ \E lines \in Packets : Read(s, lines)
                       \/ ReadTooLong(s) \/ ReadFails(s) \/ WriteEvent(s) \/ WriteFails(s)
                       \/ FreeTimerFires(s) \/ Userping(s)
    \/ \E k \in Clients : ClientLeaves(k)
    \/ Tick

\* The event loop dispatches every event that is ready.
Fairness == \A s \in Ircs : WF_vars(FreeTimerFires(s)) /\ WF_vars(Userping(s))

Spec == Init /\ [][Next]_vars /\ Fairness

-----------------------------------------------------------------------------
(* Properties *)

Handles == Events \cup {None}

Records ==
    [fd : Clients \cup {None}, sendbuffer : BOOLEAN, r : Handles, w : Handles, ping : Handles,
     ev : SUBSET Events, given : SUBSET {"user", "nick", "pass"},
     status : SUBSET {"AUTHORIZED", "LOGGED_IN", "IDENTIFIED"}, asked : BOOLEAN,
     pinging : BOOLEAN, age : 0 .. MaxAge, pinged : BOOLEAN, ended : {"no", "silent", "other"}]

TypeOK ==
    /\ irc \in [Ircs -> Records]
    /\ irc_connection_list \subseteq Ircs
    /\ recvFd \in Clients \cup {None}
    /\ peers \subseteq Clients
    /\ running \in BOOLEAN

\* Every event of the loop is one its session knows, on the descriptor the
\* session has now; none outlives its session, however it ended, and a
\* takeover leaves none on the old descriptor (irc_free() and
\* irc_switch_fd() remove three handles and no others).
EventsBelongToSessions ==
    \A s \in Ircs : \A e \in irc[s].ev :
        /\ s \in irc_connection_list /\ e \in {irc[s].r, irc[s].w, irc[s].ping}
        /\ e.cb \in {"read", "write"} => e.fd = irc[s].fd

\* A session with output waits for its client, and one without output has no
\* write handle: irc_vawrite() arms the watch only when the handle is 0, so
\* either mistake silences the session for good.
OutputIsNeverStuck ==
    \A s \in irc_connection_list : IF irc[s].sendbuffer THEN irc[s].w \in irc[s].ev ELSE irc[s].w = None

\* A client is dropped for its silence only after a PING on its own
\* connection that it left unanswered, also when the session was taken over
\* while a PING to the client before was open.
SilenceWasAskedAbout ==
    [][\A s \in Ircs : irc[s].ended # "silent" /\ irc'[s].ended = "silent"
            => irc[s].pinged]_vars

\* The sessions that read from client k and are to stay.
Readers(k) == {s \in irc_connection_list : irc[s].fd = k /\ FreeTimer \notin irc[s].ev}
Shared(k) == \E s, o \in Readers(k) : s # o

\* A takeover does not leave a client to two sessions that stay: the one it
\* comes from is on its way out.  Only that one, in its last millisecond, can
\* still hand its client to another: irc_abort() does not stop the lines of an
\* aborted session, so it may identify again and answer yes to a third.
OneSessionPerClient ==
    [][\A k \in Clients :
          Shared(k)' => \/ Shared(k)
                        \/ \E s \in irc_connection_list : irc[s].fd = k /\ FreeTimer \in irc[s].ev]_vars

\* A session that was aborted is freed, whatever its client sends after that.
AbortedIsFreed == \A s \in Ircs : irc[s].ended # "no" ~> irc[s].ended = "no"

\* A client that no longer answers does not hold its session: the login
\* timeout or an unanswered PING ends it, if no other client takes it over.
SilentClientsAreDropped ==
    \A s \in Ircs, k \in Clients :
        irc[s].age = MaxAge /\ irc[s].fd = k ~> irc[s].age # MaxAge \/ irc[s].fd # k
=============================================================================
