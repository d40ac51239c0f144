------------------------------ MODULE Takeover ------------------------------
(***************************************************************************)
(* Taking over a session in ForkDaemon mode (ipc.c).  Every client is      *)
(* served by a process of its own; the processes talk to the master, never *)
(* to each other.  A user who connects and identifies a second time is     *)
(* asked whether to take over the first session: the new process sends its *)
(* client socket to the master, which passes it on to the old process.     *)
(*                                                                         *)
(* The sockets between master and children are reliable queues, and may    *)
(* carry a file descriptor.  A write fails once the other end is closed.   *)
(* The connection that process p was forked for is named p as well.        *)
(***************************************************************************)
EXTENDS Naturals, SequencesExt

CONSTANTS
    Procs,           \* the child processes, and their client connections
    Nicks,           \* nicks of registered users
    Null,
    Private,         \* the nicks whose settings have allow_takeover off
    Manual,          \* the nicks whose settings have auto_connect off
    MaxLogins,       \* bound: identify commands per process
    MaxEvents        \* bound: nick changes, drops, set commands, aborts, closed
                     \* connections and RESTARTs, all together

ASSUME ConstantsAssumption ==
    /\ Null \notin Procs \cup Nicks
    /\ Private \subseteq Nicks /\ Manual \subseteq Nicks
    /\ MaxLogins \in Nat /\ MaxEvents \in Nat

VARIABLES
    \* the children
    life,            \* "new", "running", "aborting" or "gone"
    ipc,             \* the child's end of its IPC socket is open
    conn,            \* irc->fd: the client connection it serves
    nick,            \* irc->user->nick
    password,        \* irc->password: Null, or whose; with it USTATUS_IDENTIFIED
    login_source_id, \* "new" (0, as irc_new() leaves it), "timer", or "none" (-1)
    stray,           \* a login timer whose id was overwritten is running
    started,         \* cmd_identify_finish() switched the accounts on
    asked,           \* takeover questions waiting for the user
    allow, auto,     \* the allow_takeover and auto_connect settings
    recv_fd,         \* ipc_child_recv_fd
    \* the master
    child_list, nick_of, pass_of, to_child, to_fd,
    \* the sockets
    up, down,        \* messages to the master, to the child
    \* the clients
    open,            \* the client has not closed the connection
    said,            \* history: <<c, n>> if on c the user of n wanted a takeover
    moved,           \* history: the connections that a session moved to
    logins, events   \* how many there were

child == <<life, ipc, conn, nick, password, login_source_id, stray, started, asked,
           allow, auto, recv_fd>>
login == <<login_source_id, stray, started>>
master == <<child_list, nick_of, pass_of, to_child, to_fd>>
vars == <<child, master, up, down, open, said, moved, logins, events>>

Running(p) == life[p] \in {"running", "aborting"}
Listed == Range(child_list)

\* Can the master write to p's socket?
Writable(p) == Running(p) /\ ipc[p]

\* The list s without those in S
Without(s, S) ==
    LET left[i \in 0..Len(s)] ==
            IF i = 0 THEN <<>> ELSE IF s[i] \in S THEN left[i - 1] ELSE Append(left[i - 1], s[i])
    IN  left[Len(s)]

Msg(t, n, pw) == [type |-> t, arg |-> n, password |-> pw]
Word(t) == Msg(t, Null, Null)

Init ==
    /\ life = [p \in Procs |-> "new"]
    /\ ipc = [p \in Procs |-> FALSE]
    /\ conn = [p \in Procs |-> Null]
    /\ nick = [p \in Procs |-> Null]
    /\ password = [p \in Procs |-> Null]
    /\ login_source_id = [p \in Procs |-> "new"]
    /\ stray = [p \in Procs |-> FALSE]
    /\ started = [p \in Procs |-> FALSE]
    /\ asked = [p \in Procs |-> 0]
    /\ allow = [p \in Procs |-> TRUE]
    /\ auto = [p \in Procs |-> TRUE]
    /\ recv_fd = [p \in Procs |-> Null]
    /\ child_list = <<>>
    /\ nick_of = [p \in Procs |-> Null]
    /\ pass_of = [p \in Procs |-> Null]
    /\ to_child = [p \in Procs |-> Null]
    /\ to_fd = [p \in Procs |-> Null]
    /\ up = [p \in Procs |-> <<>>]
    /\ down = [p \in Procs |-> <<>>]
    /\ open = [c \in Procs |-> FALSE]
    /\ said = {}
    /\ moved = {}
    /\ logins = [p \in Procs |-> 0]
    /\ events = 0

-----------------------------------------------------------------------------
(* What a child does: its own lines.                                       *)

\* ipc_to_master_str() and ipc_send_fd() of process p; ipc_child_disable() if
\* the master closed its end.
ToMaster(p, ms) ==
    IF ipc[p] /\ p \in Listed
    THEN up' = [up EXCEPT ![p] = @ \o ms] /\ UNCHANGED ipc
    ELSE ipc' = [ipc EXCEPT ![p] = FALSE] /\ UNCHANGED up

\* bitlbee_io_new_client() and irc_check_login(): nothing is sent in between.
Connect(p, n) ==
    /\ life[p] = "new"
    /\ life' = [life EXCEPT ![p] = "running"]
    /\ ipc' = [ipc EXCEPT ![p] = TRUE]
    /\ conn' = [conn EXCEPT ![p] = p]
    /\ nick' = [nick EXCEPT ![p] = n]
    /\ child_list' = Append(child_list, p)
    /\ up' = [up EXCEPT ![p] = <<Msg("CLIENT", n, Null)>>]
    /\ open' = [open EXCEPT ![p] = TRUE]
    /\ UNCHANGED <<password, login, asked, allow, auto, recv_fd, nick_of,
                   pass_of, to_child, to_fd, down, said, moved, logins, events>>

\* One of the events that are bounded.
Event == events < MaxEvents /\ events' = events + 1

\* The user of the connection that p serves may type something.
Typing(p) == life[p] = "running" /\ open[conn[p]]

\* cmd_identify() with the right password; settings come with what it loads.
Identify(p, load) ==
    /\ Typing(p) /\ password[p] = Null
    /\ logins[p] < MaxLogins /\ logins' = [logins EXCEPT ![p] = @ + 1]
    /\ password' = [password EXCEPT ![p] = nick[p]]
    /\ started' = [started EXCEPT ![p] = FALSE]
    /\ IF load
       THEN /\ allow' = [allow EXCEPT ![p] = nick[p] \notin Private]
            /\ auto' = [auto EXCEPT ![p] = nick[p] \notin Manual]
            /\ stray' = [stray EXCEPT ![p] = @ \/ (auto'[p] /\ login_source_id[p] = "timer")]
            /\ login_source_id' = [login_source_id EXCEPT ![p] = IF auto'[p] THEN "timer" ELSE @]
       ELSE UNCHANGED <<allow, auto, stray, login_source_id>>
    /\ ToMaster(p, <<Msg("FD", conn[p], Null), Msg("IDENTIFY", nick[p], nick[p])>>)
    /\ UNCHANGED <<life, conn, nick, asked, recv_fd, master, down, open, said, moved, events>>

\* NICK
ChangeNick(p, n) ==
    /\ Typing(p) /\ Event /\ n # nick[p]
    /\ password' = [password EXCEPT ![p] = Null]
    /\ nick' = [nick EXCEPT ![p] = n]
    /\ ToMaster(p, <<Msg("NICK", n, Null)>>)
    /\ UNCHANGED <<life, conn, login, asked, allow, auto, recv_fd, master, down,
                   open, said, moved, logins>>

\* cmd_drop()
Drop(p) ==
    /\ Typing(p) /\ Event
    /\ password' = [password EXCEPT ![p] = Null]
    /\ UNCHANGED <<life, ipc, conn, nick, login, asked, allow, auto, recv_fd,
                   master, up, down, open, said, moved, logins>>

SetAllowTakeover(p, b) ==
    /\ Typing(p) /\ Event /\ b # allow[p]
    /\ allow' = [allow EXCEPT ![p] = b]
    /\ UNCHANGED <<life, ipc, conn, nick, password, login, asked, auto, recv_fd,
                   master, up, down, open, said, moved, logins>>

\* cmd_identify_finish(): switches the accounts on, and removes the timer
\* whose id it knows.
IdentifyFinish(p) ==
    /\ started' = [started EXCEPT ![p] = @ \/ auto[p]]
    /\ login_source_id' = [login_source_id EXCEPT ![p] = "none"]

LoginTimer(p) ==
    /\ Running(p)
    /\ \/ login_source_id[p] = "timer" /\ UNCHANGED stray
       \/ stray[p] /\ stray' = [stray EXCEPT ![p] = FALSE]
    /\ IdentifyFinish(p)
    /\ UNCHANGED <<life, ipc, conn, nick, password, asked, allow, auto, recv_fd,
                   master, up, down, open, said, moved, logins, events>>

\* The user answers a takeover question.
Answers(p) ==
    /\ Typing(p) /\ asked[p] > 0
    /\ asked' = [asked EXCEPT ![p] = @ - 1]

\* ipc_child_cmd_takeover_yes() drops the credentials.
AnswerYes(p) ==
    /\ Answers(p)
    /\ ToMaster(p, <<Msg("AUTH", nick[p], password[p])>>)
    /\ password' = [password EXCEPT ![p] = Null]
    /\ said' = said \cup {<<conn[p], password[p]>>}
    /\ UNCHANGED <<life, conn, nick, login, allow, auto, recv_fd, master, down,
                   open, moved, logins, events>>

\* ipc_child_cmd_takeover_no()
AnswerNo(p) ==
    /\ Answers(p)
    /\ ToMaster(p, <<Word("NO")>>)
    /\ IdentifyFinish(p)
    /\ UNCHANGED <<life, conn, nick, password, stray, allow, auto, recv_fd,
                   master, down, open, said, moved, logins, events>>

ClientCloses(c) ==
    /\ Event /\ open[c] /\ open' = [open EXCEPT ![c] = FALSE]
    /\ UNCHANGED <<child, master, up, down, said, moved, logins>>

\* QUIT, KILL, a ping timeout: irc_abort() starts a 1 ms timer for irc_free().
Abort(p) ==
    /\ Event /\ life[p] = "running"
    /\ life' = [life EXCEPT ![p] = "aborting"]
    /\ UNCHANGED <<ipc, conn, nick, password, login, asked, allow, auto, recv_fd,
                   master, up, down, open, said, moved, logins>>

\* irc_free(): the process ends and the kernel closes its descriptors.
IrcFree(p) ==
    /\ life' = [life EXCEPT ![p] = "gone"]
    /\ ipc' = [ipc EXCEPT ![p] = FALSE]
    /\ conn' = [conn EXCEPT ![p] = Null]
    /\ nick' = [nick EXCEPT ![p] = Null]
    /\ password' = [password EXCEPT ![p] = Null]
    /\ login_source_id' = [login_source_id EXCEPT ![p] = "none"]
    /\ stray' = [stray EXCEPT ![p] = FALSE]
    /\ started' = [started EXCEPT ![p] = FALSE]
    /\ asked' = [asked EXCEPT ![p] = 0]
    /\ recv_fd' = [recv_fd EXCEPT ![p] = Null]
    /\ down' = [down EXCEPT ![p] = <<>>]
    /\ UNCHANGED <<allow, auto, up>>

\* The 1 ms timer, or bitlbee_io_current_client_read() at the end of the file.
Exit(p) ==
    /\ \/ life[p] = "aborting"
       \/ life[p] = "running" /\ ~open[conn[p]]
    /\ IrcFree(p)
    /\ UNCHANGED <<master, open, said, moved, logins, events>>

-----------------------------------------------------------------------------
(* What a child does: ipc_child_read(), one line at a time.                *)

Receives(p, type) ==
    /\ Running(p) /\ ipc[p] /\ down[p] # <<>>
    /\ Head(down[p]).type = type
    /\ down' = [down EXCEPT ![p] = Tail(@)]

\* A descriptor, with a line that is no command; it replaces an unused one.
ReceiveFd(p) ==
    /\ Receives(p, "FD")
    /\ recv_fd' = [recv_fd EXCEPT ![p] = Head(down[p]).arg]
    /\ UNCHANGED <<life, ipc, conn, nick, password, login, asked, allow, auto,
                   master, up, open, said, moved, logins, events>>

ReceiveHello(p) ==
    /\ Receives(p, "HELLO")
    /\ ToMaster(p, <<Msg("HELLO", nick[p], Null)>>)
    /\ UNCHANGED <<life, conn, nick, password, login, asked, allow, auto,
                   recv_fd, master, open, said, moved, logins, events>>

\* Mutant: the login timer is removed before it is looked at.
NeverOffers(p) == FALSE

\* Is the user asked?  Not once a login was finished or an offer made; but also
\* after a first login that set no timer.
Offers(p) == login_source_id[p] # "none"

\* TAKEOVER INIT
ReceiveInit(p) ==
    /\ Receives(p, "INIT")
    /\ IF allow[p]
       THEN /\ asked' = [asked EXCEPT ![p] = IF Offers(p) THEN @ + 1 ELSE @]
            /\ login_source_id' = [login_source_id EXCEPT ![p] = "none"]
            /\ UNCHANGED <<started, ipc, up>>
       ELSE /\ ToMaster(p, <<Word("NO")>>)
            /\ IdentifyFinish(p)
            /\ UNCHANGED asked
    /\ UNCHANGED <<life, conn, nick, password, stray, allow, auto, recv_fd,
                   master, open, said, moved, logins, events>>

\* Mutant: a descriptor is enough.
AcceptsAnyone(p, m) == password[p] # Null /\ recv_fd[p] # Null /\ allow[p]

\* Does the old session p let itself be taken over?
Accepts(p, m) ==
    /\ password[p] # Null /\ recv_fd[p] # Null
    /\ nick[p] = m.arg /\ password[p] = m.password
    /\ allow[p]

\* TAKEOVER AUTH, at the old session: irc_switch_fd() closes its client's
\* connection and serves the other one.  A descriptor that is refused stays
\* where it is.
ReceiveAuth(p) ==
    /\ Receives(p, "AUTH")
    /\ IF Accepts(p, Head(down[p]))
       THEN /\ conn' = [conn EXCEPT ![p] = recv_fd[p]]
            /\ recv_fd' = [recv_fd EXCEPT ![p] = Null]
            /\ moved' = moved \cup {recv_fd[p]}
            /\ ToMaster(p, <<Word("DONE")>>)
       ELSE /\ ToMaster(p, <<Word("FAIL")>>)
            /\ UNCHANGED <<conn, recv_fd, moved>>
    /\ UNCHANGED <<life, nick, password, login, asked, allow, auto, master,
                   open, said, logins, events>>

\* TAKEOVER DONE, at the new session
ReceiveDone(p) ==
    /\ Running(p) /\ ipc[p] /\ down[p] # <<>> /\ Head(down[p]).type = "DONE"
    /\ IrcFree(p)
    /\ UNCHANGED <<master, open, said, moved, logins, events>>

\* TAKEOVER NO and FAIL change nothing.
ReceiveRefusal(p) ==
    /\ Receives(p, "NO") \/ Receives(p, "FAIL")
    /\ UNCHANGED <<child, master, up, open, said, moved, logins, events>>

\* The master has closed its end: ipc_child_disable().
LoseMaster(p) ==
    /\ Running(p) /\ ipc[p] /\ p \notin Listed /\ down[p] = <<>>
    /\ ipc' = [ipc EXCEPT ![p] = FALSE]
    /\ UNCHANGED <<life, conn, nick, password, login, asked, allow, auto, recv_fd,
                   master, up, down, open, said, moved, logins, events>>

-----------------------------------------------------------------------------
(* What the master does: ipc_master_read(), one line of one child at a time. *)

Partners(p) == {o \in Listed : to_child[o] = p}

\* Mutant: those that point at a freed child keep doing so.
NoneUnlinked(F) == {}

\* Whose to_child ipc_master_free_one() clears.
Unlinked(F) == {o \in Procs : to_child[o] \in F}

\* ipc_master_free_one() of the children F and ipc_master_takeover_fail() of
\* the children S: of these the ones that wait with a descriptor are told, or
\* freed if that fails.  Where both of a pair wait and neither can be told, the
\* code frees the second while it is still working on it (ipc.c:499-514), and
\* free_one() may free the list cell it stands on (ipc.c:806); what this makes of
\* the master's memory is left out.
FreeAndFail(F, S) ==
    LET waiting == {o \in S : to_fd[o] # Null}
        freed == F \cup {o \in waiting : ~Writable(o)}
        Cleared(f, T) == [p \in Procs |-> IF p \in T THEN Null ELSE f[p]]
    IN  /\ child_list' = Without(child_list, freed)
        /\ nick_of' = Cleared(nick_of, freed)
        /\ pass_of' = Cleared(pass_of, freed)
        /\ to_child' = Cleared(to_child, F \cup S \cup Unlinked(F))
        /\ to_fd' = Cleared(to_fd, F \cup S)
        /\ down' = [p \in Procs |-> IF p \in waiting \ freed
                                    THEN Append(down[p], Word("FAIL")) ELSE down[p]]

\* The line that the master reads from p, of one of these types.
Reads(p, types) ==
    /\ p \in Listed /\ up[p] # <<>>
    /\ Head(up[p]).type \in types
    /\ up' = [up EXCEPT ![p] = Tail(@)]

MasterNick(p) ==
    /\ Reads(p, {"CLIENT", "HELLO", "NICK"})
    /\ nick_of' = [nick_of EXCEPT ![p] = Head(up[p]).arg]
    /\ UNCHANGED <<child, child_list, pass_of, to_child, to_fd, down, open, said, moved,
                   logins, events>>

MasterFd(p) ==
    /\ Reads(p, {"FD"})
    /\ to_fd' = [to_fd EXCEPT ![p] = Head(up[p]).arg]
    /\ UNCHANGED <<child, child_list, nick_of, pass_of, to_child, down, open, said, moved,
                   logins, events>>

\* The first other child of the list with the nick and the password.
SameUser(p, m) ==
    {i \in DOMAIN child_list :
        /\ child_list[i] # p
        /\ nick_of[child_list[i]] = nick_of[p]
        /\ pass_of[child_list[i]] = m.password}
Old(p, m) ==
    IF SameUser(p, m) = {} THEN Null ELSE child_list[Min(SameUser(p, m))]

\* Neither may be part of another takeover.
MayTakeOver(p, o) == o # Null /\ to_child[p] = Null /\ to_child[o] = Null

\* ipc_master_cmd_identify()
MasterIdentify(p) ==
    /\ Reads(p, {"IDENTIFY"})
    /\ LET m == Head(up[p])
           o == Old(p, m)
       IN  IF nick_of[p] # m.arg
           THEN UNCHANGED <<master, down>>
           ELSE IF ~Writable(p)
           THEN FreeAndFail({p}, Partners(p) \cup IF MayTakeOver(p, o) THEN {o} ELSE {})
           ELSE /\ pass_of' = [pass_of EXCEPT ![p] = m.password]
                /\ IF MayTakeOver(p, o)
                   THEN /\ to_child' = [to_child EXCEPT ![p] = o, ![o] = p]
                        /\ down' = [down EXCEPT ![p] = Append(@, Word("INIT"))]
                        /\ UNCHANGED to_fd
                   ELSE /\ to_fd' = [to_fd EXCEPT ![p] = Null]
                        /\ down' = [down EXCEPT ![p] = Append(@, Word("NO"))]
                        /\ UNCHANGED to_child
                /\ UNCHANGED <<child_list, nick_of>>
    /\ UNCHANGED <<child, open, said, moved, logins, events>>

\* Do the nick and the password of both sessions and of the message agree?
Authorized(p, m) ==
    LET o == to_child[p] IN
    /\ nick_of[p] # Null /\ nick_of[o] = nick_of[p] /\ m.arg = nick_of[p]
    /\ pass_of[p] # Null /\ pass_of[o] = pass_of[p] /\ m.password = pass_of[p]

\* ipc_master_cmd_takeover() of a child that is part of none: NO does this too.
MasterNoTakeover(p) ==
    /\ Reads(p, {"AUTH", "NO", "DONE", "FAIL"})
    /\ to_child[p] \notin Listed
    /\ FreeAndFail({}, {p})
    /\ UNCHANGED <<child, open, said, moved, logins, events>>

\* From the new session: the descriptor, if it is still there, and the line
\* are passed on.  If that fails it is the new session that is freed.
MasterAuth(p) ==
    LET m == Head(up[p])
        o == to_child[p]
    IN  /\ Reads(p, {"AUTH"}) /\ o \in Listed
        /\ IF ~Authorized(p, m) THEN FreeAndFail({}, {p, o})
           ELSE IF ~Writable(o) THEN FreeAndFail({p}, {o})
           ELSE /\ down' = [down EXCEPT ![o] =
                      @ \o (IF to_fd[p] = Null THEN <<>> ELSE <<Msg("FD", to_fd[p], Null)>>)
                        \o <<m>>]
                /\ UNCHANGED master
        /\ UNCHANGED <<child, open, said, moved, logins, events>>

\* From the old session.  The descriptor that is closed is that of p, which
\* has none as a rule; and p is freed if the line cannot be passed on.
MasterDone(p) ==
    LET m == Head(up[p])
        o == to_child[p]
    IN  /\ Reads(p, {"DONE", "FAIL"}) /\ o \in Listed
        /\ IF Writable(o)
           THEN /\ to_fd' = [to_fd EXCEPT ![p] = Null]
                /\ to_child' = [to_child EXCEPT ![p] = Null, ![o] = Null]
                /\ down' = [down EXCEPT ![o] = Append(@, m)]
                /\ UNCHANGED <<child_list, nick_of, pass_of>>
           ELSE /\ FreeAndFail({p}, {})
        /\ UNCHANGED <<child, open, said, moved, logins, events>>

\* The user declined: nothing, the children stay paired.
MasterNo(p) ==
    /\ Reads(p, {"NO"}) /\ to_child[p] \in Listed
    /\ UNCHANGED <<child, master, down, open, said, moved, logins, events>>

\* The child has closed its end: ipc_master_free_fd().
MasterLosesChild(p) ==
    /\ p \in Listed /\ up[p] = <<>> /\ ~Writable(p)
    /\ FreeAndFail({p}, Partners(p))
    /\ UNCHANGED <<child, up, open, said, moved, logins, events>>

\* RESTART: ipc_master_save_state(), exec() and ipc_master_load_state(), which
\* reverses the list and asks every child for its nick.
MasterRestart ==
    /\ Event
    /\ child_list' = Reverse(Without(child_list, {p \in Procs : ~Writable(p)}))
    /\ nick_of' = [p \in Procs |-> Null]
    /\ pass_of' = [p \in Procs |-> Null]
    /\ to_child' = [p \in Procs |-> Null]
    /\ to_fd' = [p \in Procs |-> Null]
    /\ down' = [p \in Procs |-> IF p \in Listed /\ Writable(p)
                                THEN Append(down[p], Word("HELLO")) ELSE down[p]]
    /\ UNCHANGED <<child, up, open, said, moved, logins>>

-----------------------------------------------------------------------------

ChildReads(p) ==
    \/ ReceiveFd(p) \/ ReceiveHello(p) \/ ReceiveInit(p) \/ ReceiveAuth(p)
    \/ ReceiveDone(p) \/ ReceiveRefusal(p) \/ LoseMaster(p)

MasterReads(p) ==
    \/ MasterNick(p) \/ MasterFd(p) \/ MasterIdentify(p) \/ MasterNoTakeover(p)
    \/ MasterAuth(p) \/ MasterDone(p) \/ MasterNo(p) \/ MasterLosesChild(p)

User(p) ==
    \/ \E n \in Nicks : Connect(p, n) \/ ChangeNick(p, n)
    \/ \E b \in BOOLEAN : Identify(p, b) \/ SetAllowTakeover(p, b)
    \/ Drop(p) \/ AnswerYes(p) \/ AnswerNo(p) \/ ClientCloses(p) \/ Abort(p)

Next ==
    \/ \E p \in Procs : User(p) \/ LoginTimer(p) \/ Exit(p) \/ ChildReads(p) \/ MasterReads(p)
    \/ MasterRestart

\* The event loops run, so timers fire and sockets with data are read.
Fairness ==
    \A p \in Procs :
        /\ WF_vars(LoginTimer(p)) /\ WF_vars(Exit(p))
        /\ WF_vars(ChildReads(p)) /\ WF_vars(MasterReads(p))

Safety == Init /\ [][Next]_vars
Spec == Safety /\ Fairness

-----------------------------------------------------------------------------

\* What is sent up and down: a descriptor, a nick, credentials, a word
FdMessages == [type : {"FD"}, arg : Procs, password : {Null}]
UpMessages ==
    FdMessages \cup [type : {"CLIENT", "HELLO", "NICK"}, arg : Nicks, password : {Null}]
      \cup [type : {"IDENTIFY"}, arg : Nicks, password : Nicks]
      \cup [type : {"AUTH"}, arg : Nicks, password : Nicks \cup {Null}]
      \cup [type : {"NO", "DONE", "FAIL"}, arg : {Null}, password : {Null}]
DownMessages ==
    FdMessages \cup [type : {"AUTH"}, arg : Nicks, password : Nicks]
      \cup [type : {"HELLO", "INIT", "NO", "DONE", "FAIL"}, arg : {Null}, password : {Null}]

\* The variables have their types; every running child serves a client and has
\* a nick, and every child the master knows has been forked.
TypeOK ==
    /\ life \in [Procs -> {"new", "running", "aborting", "gone"}]
    /\ ipc \in [Procs -> BOOLEAN]
    /\ conn \in [Procs -> Procs \cup {Null}]
    /\ nick \in [Procs -> Nicks \cup {Null}] /\ password \in [Procs -> Nicks \cup {Null}]
    /\ \A p \in Procs : Running(p) => conn[p] # Null /\ nick[p] # Null
    /\ login_source_id \in [Procs -> {"new", "timer", "none"}]
    /\ {stray, started, allow, auto} \subseteq [Procs -> BOOLEAN]
    /\ asked \in [Procs -> Nat]
    /\ recv_fd \in [Procs -> Procs \cup {Null}] /\ to_fd \in [Procs -> Procs \cup {Null}]
    /\ child_list \in Seq(Procs) /\ \A p \in Listed : life[p] # "new"
    /\ nick_of \in [Procs -> Nicks \cup {Null}] /\ pass_of \in [Procs -> Nicks \cup {Null}]
    /\ to_child \in [Procs -> Procs \cup {Null}]
    /\ up \in [Procs -> Seq(UpMessages)] /\ down \in [Procs -> Seq(DownMessages)]
    /\ open \in [Procs -> BOOLEAN]
    /\ said \subseteq Procs \X (Nicks \cup {Null}) /\ moved \subseteq Procs
    /\ logins \in [Procs -> 0..MaxLogins] /\ events \in 0..MaxEvents

\* The master pairs two different children that it both knows, each with the
\* other, whatever was lost, declined or answered late: to_child of struct
\* bitlbee_child never dangles.
LinksPairSessions ==
    \A p \in Procs : to_child[p] # Null =>
        /\ {p, to_child[p]} \subseteq Listed /\ to_child[p] # p
        /\ to_child[to_child[p]] = p

\* A session moves only when its user asked for a takeover, and only to a
\* connection on which a user did: that one, unless the session has had
\* another.  Descriptor, line and question travel separately over two sockets,
\* and a refused descriptor stays in ipc_child_recv_fd (ipc.c:349-368), where
\* an AUTH without one finds it after a change of user.
MovesToItsUser ==
    [][\A p \in Procs : Running(p) /\ Running(p)' /\ conn'[p] # conn[p] =>
           /\ \E c \in Procs : <<c, password[p]>> \in said
           /\ \E n \in Nicks : <<conn'[p], n>> \in said /\ (n = password[p] \/ logins[p] > 1)]_vars

\* The 200 ms of cmd_identify(): a login that waits for the master's word is
\* finished, or turned into a question, or has lost its user.
LoginIsDecided ==
    \A p \in Procs :
        login_source_id[p] = "timer" ~>
            \/ login_source_id[p] # "timer" /\ (started[p] \/ asked[p] > 0 \/ ~auto[p])
            \/ ~Running(p)

\* What ipc_child_cmd_takeover() says of TAKEOVER DONE: "now taken over by old
\* process".  A session that ends by it has lost its client to another one.
DoneIsTakenOver ==
    [][\A p \in Procs : ReceiveDone(p) => conn[p] \in moved]_vars
=============================================================================
