# A verification development of BitlBee

BitlBee is an IRC server with one user per connection: the user's IM accounts
(Jabber, MSN, Oscar, Yahoo, Twitter, Skype, Steam, libpurple) appear as channels
and nicks.  This tree is the BitlSteam fork, BitlBee with a Steam back-end in
Mono.  The directory holds TLA+ models of its core, the TLC runs that check them
on small instances, and TLAPS proofs of what matters most for every instance.

Contents: 1 the system, 2 the modules, 3 the models and the code, 4 the runs,
5 what the runs disagree about, 6 the proofs, 7 what is left out, 8 the plan.

## 1. The system

The program is one event loop per process (`lib/events_*.c`): read and write
watches and timers, each a callback with a raw pointer.  Nothing is threaded (OTR
key generation runs in a child process).  What makes the program hard is that a
callback can end the very connection, question or session its caller goes on to
use, that timers and descriptors outlive what they point to unless every path
removes them, and that in ForkDaemon mode each session is a process of its own,
which talks to a master over a socket pair and shares the settings files.

| component | state | operations | talks to |
|---|---|---|---|
| IM accounts and connections (`protocols/account.c`, `nogaim.c`, `bee.c`) | account list, `a->ic`, `a->reconnect`, `ic->keepalive`, `auto_reconnect_delay`, `OPT_*` flags | `account_add/on/off/del`, `imcb_new`, `imcb_connected`, `imc_logout`, three timer handlers, `bee_free` | protocol modules call back; root commands call in |
| Questions (`query.c`) | `irc->queries`, order setting | add, answer, delete, flush at logout | protocol callbacks, `yes`/`no`, `imc_logout` |
| Sessions, storage (`root_commands.c`, `storage.c`, `storage_xml.c`) | `USTATUS_IDENTIFIED`, `irc->password`, account list, XML files | identify, register, save, drop, set password, NICK | other processes, through the files |
| Takeover (`ipc.c`, `bitlbee.c`) | in the master `child_list` with `to_child`, `to_fd`, nick and password; in a child the status, the delayed login, a received descriptor | IDENTIFY, TAKEOVER INIT/AUTH/DONE/FAIL/NO, fork, exit, restart | socket pairs with descriptors as ancillary data |
| IRC client connection (`irc.c`, `bitlbee.c`, `irc_send.c`) | read and send buffer, watches, ping timer, status | read, process, write, flush, switch, ping, abort, free | everything |
| IRC commands (`irc_commands.c`) | umodes, watches, `/OPER` state | the IRC protocol | all of the above |
| Channels, users, contacts, group chats (`irc_channel.c`, `irc_user.c`, `irc_im.c`, `nick.c`, `bee_user.c`, `bee_chat.c`) | nick table, user and channel lists, stored nicks, contacts, rooms, paste buffers | presence, messages, joins, renames | protocol callbacks to IRC lines |
| Settings (`set.c`) | linked lists of settings with evaluators | add, set, reset, delete | called everywhere |
| File transfers (`dcc.c`, `bee_ft.c`, Jabber SI and S5B) | transfer state, two sockets | start, accept, progress, cancel | event loop, Jabber |
| Outgoing connections (`lib/proxy.c`, `ssl_*.c`, `http_client.c`, `oauth*.c`) | address list, handshake stage, request buffers | connect, retry, request, redirect | protocol modules |
| Protocol modules (`protocols/*/`) | their streams | login, logout, messages | servers; `imcb_*` callbacks |

The correctness of each, in a sentence: an **account** has at most one
connection and one reconnect timer, both always reachable from it, and comes back
only when it should; a **question** is shown, answered once, and dies with its
connection; a **session** that saves has a password to save under and loses nothing
that was stored; a **takeover** joins two sessions of one user who asked for it and
never leaves either undecided; a **client connection** delivers its output in order
and goes away completely; a **nick** names one user.

PROJECT.json lists every component with its state here, and under `hazards` each
place where one of these could break in a way a test would hardly reach.

## 2. The modules

| module | what it is |
|---|---|
| `ReconnectDelay` | the arithmetic of `account_reconnect_delay()`, as operators |
| `Account` | accounts, connections and their timers |
| `AccountStatus` | what `account list` shows of one account: the abstract specification |
| `AccountProofs` | theorems about `Account`, among them that it implements `AccountStatus` |
| `Query` | questions and their callbacks |
| `QueryProofs` | theorems about `Query` |
| `Session` | identify, register, save, drop: sessions that share files |
| `SessionProofs` | theorems about `Session` |
| `Takeover` | master and children in ForkDaemon mode |
| `TakeoverProofs` | theorems about `Takeover` |
| `Connection` | the IRC side of sessions in one process: buffers, watches, PING, abort and free, takeover in Daemon mode |
| `ConnectionProofs` | theorems about `Connection` |
| `Contacts` | contacts as IRC users: nicks, control channels, paste buffers |
| `ContactsProofs` | theorems about `Contacts` |
| `Chats` | group chats and their channels |
| `ChatsProofs` | theorems about `Chats` |
| `Jabber` | the stream of a Jabber account: TLS, both logins, output queue, watches |
| `JabberProofs` | theorems about `Jabber` |
| `MC...` | constants of the runs, with their `.cfg` files |

`Account` composes `ReconnectDelay` (EXTENDS) and implements
`AccountStatus` (INSTANCE with a refinement mapping).  The others
each stand for one subsystem and name the few facts they need of another: `Query`
has a logout that flushes its questions, `Takeover` has an identify that
succeeds or fails, `Contacts` and `Chats` have the logout that frees all their
contacts and chats, `Jabber` has an `imc_logout()` that ends its connection.

Every action is one handler with everything it calls.  Handlers are atomic: the
event loop runs one at a time.  Where a handler calls out and comes back to state
it read before, the model splits it (the callback in `Query`), or takes the
nested call inside the action (`imc_logout` in `Account`).  Operators that follow a
comment beginning "Mutant" are small plausible bugs; no specification uses
them.  Replacing the definition they imitate makes the named property fail, which
shows that the property depends on that code.

## 3. The models and the code

### Account

Addresses of accounts (`Accounts`), connections (`Conns`) and event-loop handles
are finite sets, and are reused after being freed, as malloc() and the
event loop's counters allow: a dangling pointer therefore can point to something
else's state, and the invariants would show it.  Variables are the account's pointer
to its connection and its reconnect handle, the connection's account, its keepalive
handle and flags, the account's delay, the settings, and the event loop itself: which
handle is which kind of timer, for whom.

`AccountOn` is `account_on()` with the `login()` of the protocol module inside.
What login() can do is `LoginOutcomes`: return with the connection attempt under
way, ask for a slow login (Twitter's OAuth), have logged out already, with or
without a reconnect allowed, or have called `imcb_connected()` already (libpurple).
`ImcLogout` is `imc_logout()` with the logout of the protocol inside, which may
call `imc_logout()` again; its argument is what the outer and the nested call
allow.  `ImcbConnected`, `AccountOnTimeout`, `AutoReconnect`, `AccountDel`,
`BeeFree` and the settings are one action each.  The away state that
`imcb_connected()` sends at its end (nogaim.c:284) may be a write that fails and frees the
connection: the logout is `ProtocolLogout`; what nogaim.c:288 then does with freed
memory is not in the model.

An event is a record of callback, argument and id, and that record is the handle
`b_timeout_add()` returns.  `wanted` is a history variable: the user switched the
account on, and nobody switched it off or gave up on it since.

`ReconnectDelay` keeps the width of `int`: `IntMax` stands for INT_MAX and `ToInt`
wraps around it, which is what a multiplication before the comparison with the
maximum can do.  `DelaySetting` is what the setting's evaluator lets through: any
int, negative ones included, because it adds digits up without a limit, except that
the maximum is positive.

`AccountStatus` has the states `account list` prints (absent, offline, connecting,
authorizing, connected, awaiting reconnect) and the edges between them; the
refinement mapping computes them from the variables of `Account`.  It says, for
one, that no account goes from connected to connecting without being offline or
waiting in between, and that a connected account is deleted only with the session.

### Query

`queries` is the list of questions (addresses, reused), with kind, connection and
data of each; `answering` is the question whose callback is running, because
`query_answer()` uses it after the callback.  Kinds are told apart by who is told of the
answer and by whose their data is.  Requests of protocol modules and
`imcb_ask_auth`/`imcb_ask_add` of nogaim.c (`Owners`) come with a free function; OTR's
questions about a fingerprint or a context (`"pair"`) come without one, and only their
yes frees; OTR's keys, the takeover and libpurple's requests (`"borrowed"`) point
to what is not theirs.  A callback can ask another question (an accepted request asks
whether to add the contact) and, in the modules that write at once (`Writers`), can lose
the connection, which flushes the list; `CallbackAsks` asks on after that, as the code
does.  `DisplaysNew`, `DisplaysNext` and `DefaultOf` are the three places where the
order setting matters, which is `"lifo"`, `"fifo"` or, having no evaluator, any
other string.  History variables: `freed` counts how often the data of a question
was freed, `shown` the questions the user saw, `reply` what the server was told,
`stale` the questions that a callback answered or asked after it had lost their
connection, and `orderly` whether the user gave plain answers in fifo order and did not
leave it with questions pending.

### Session

A session is a process; all share `file`, one XML file per nick.  `Save` and
`Register` write the temporary file (`saving`), `Saved` renames it, `NotSaved` is
a write or rename that fails, `End` also stands for a process killed in between.
A file can hold accounts this build cannot load (`Unloadable`, for example a protocol that is
not compiled in): then the load stops and anything may have been loaded up
to there.  `Alone` says that users keep to one session per nick.  `Synced` says that
fsync() and close() report no error; where they may, `MayReachDisk` is what is in the
file that `Saved` puts in place, since xml_save() does not look.  Two history
variables, `noload` and `deleted`, say which accounts the user gave up.  Initially
the files hold anything.

### Takeover

`Procs` are children of the master; each has two FIFO queues of lines, to
and from the master, a descriptor travelling with the line it was sent before.  In
the master a child has `to_child`, `to_fd`, nick and password.  Actions of a
child are the user's commands, the lines it receives, its login timer, its end;
actions of the master are the lines it receives, the loss of a child, its
restart.  `Private` are the nicks whose settings have `allow_takeover` off and
`Manual` those with `auto_connect` off, whose login starts no accounts.  Passwords
need no values of their own: the password of a nick is the nick, and a failed login
changes nothing.  `login_source_id` is 0 in a new session, a timer's handle, or -1 once
the login was finished or offered to the user: a session is asked unless it is -1, and
so is one whose first login set no timer.  `stray` is a login timer whose handle was
overwritten.  The
history variables `said` and `moved` record who asked for a takeover on which client
connection, and which connections a session moved to.  `MaxLogins` bounds the identify commands per process and `MaxEvents` bounds
the sum of disturbances (abort, lost client, nick change, drop, setting, master
restart).

### Connection

An `irc_t` is an address with a record: descriptor, whether something is in the
send buffer, the handles it keeps (`r`, `w`, `ping`), and `ev`, the events of the loop
whose data pointer it is.  Handles and events are kept apart on purpose: only the
code's own calls keep them together, and an address is used again while an event
may still point to it.  `Read` is `bitlbee_io_current_client_read()` with
`irc_process()`: all the lines of one read, one after the other, by a fold of `Exec`,
because what the next line finds after a QUIT, a takeover or a shutdown is where
this code is hard.  `Yes` is the takeover inside one process, which may find any other
session with that nick and password, a session that has sent PASS and NICK but no USER
included (`HasPassword`).  `send()` has its three
outcomes (`Sent`).  Time is a counter of ticks since the last PONG.

### Contacts

`users` are the addresses of `irc_user_t` that are allocated; `hash` is the nick
table; `fill`, `shows` and `joined` are a control channel's settings; `members` its
list.  A nick is a number, and n + 1 is n with an underscore, which is what
`nick_dedupe()` tries next.  `view` is what an IRC client shows, computed from
nothing but the JOIN, PART, QUIT, NICK and NAMES lines it is sent, so that a line
too many or too few becomes a difference between `view` and `members`.
`typed` is the paste buffer of a contact, as the handles its lines were meant for;
`target` is the channel's `last_target`, a bare address.  `Fills` is everything a
channel can be filled by as one account meets it: all contacts, none, those of a group,
or those of no group while the channel's group is not set.  `AutoJoin` may come with
contacts there, as it does for Jabber, and fills nothing; `unfilled` is the history
variable that says in which channels it did.  `Remove` tells the server first, which
may lose the connection and every contact.  `Configured` and `Talked` bound in
which channels the user changes settings and talks.

### Chats

Channels and groupchats are addresses, with the pointers `data` and `ui_data`
between them, written by different sides.  `soon` are the pending
`irc_channel_free_soon()` timers, each with a channel and the name it had.  `view`
is again the client's.  What the protocol module reports (chats that begin and end,
members, names, invitations) comes in any order the code checks nothing about.
`fault` is a memory error that ends the program.  `LeaveFrees` and `SetInUse`
allow two things the run leaves out (section 5).  `ChatNewReplaces` gives the name
hint together with the new chat, as the two modules that hint at names do in one
handler (twitter_lib.c:606-609, skype.c:917-924).  `SetType` leaves out a change to
`control`.  An invitation for an account whose protocol has no chats makes a
channel and frees it at once, which is no step of the model.

### Jabber

`jd` is the connection with its `jabber_data`: the socket, the TLS session, whom the
SSL and proxy code will call (`lib`), the watches in the loop and the two handles, the
output queue, the flags, the root of the stream.  `Read` takes some of the stanzas
that have arrived and `Handle` runs one handler at a time, `ReadEnds` is what follows
`xt_handle()`; nothing else happens between them.  The server answers what it was
asked in any order and with any answer the protocol has, but waits for a new
stream after `proceed` and `success`; the stanzas in `Unasked` it also sends unasked, at
any time, and the client answers them as it would if it had asked.  What a stanza says is
chosen when its handler runs.  Each write is taken in full, in part, refused, or fails, and a failure
logs out and frees the connection, whatever the caller does then: a caller that
goes on with it sets `used`, after which nothing is said.

## 4. The runs

All of them run with two workers, each in less than four minutes of a small machine.

| run | question | bounds | result |
|---|---|---|---|
| `account` | do timers, connections and accounts stay together, does an account that was switched off stay off, is every lost connection tried again, does every unattended login end, does `Account` implement `AccountStatus`? | 2 accounts, 2 connection addresses, `IntMax` 15, the settings "1*2<3" and "0", protocols that report after login() returned | 9,952 states, holds |
| `query` | do questions die with their connections, is data freed once, was a plainly answered question shown? | 3 question addresses, 2 connections of which one writes at once, any order setting | 2,288,839 states, holds |
| `session` | does a saving session have its password, is nothing lost, does dropped stay dropped? | 2 sessions, 2 nicks, 2 passwords, 2 accounts of which one cannot be loaded, any files, one session per nick, a disk that keeps what it gets | 94,525 states, holds |
| `takeover` | are pairs consistent, does a session move only if and to where a takeover was asked for, is every login decided? | 2 processes, 2 nicks of which one is manual, 2 logins each, 1 disturbance | 223,176 states, holds |
| `takeover_stale` | is only a session that was moved told so? | 3 processes, 1 disturbance | violated in 27 steps |
| `connection` | do events and sessions end together, is output never stuck, is nobody dropped unasked, does an aborted or silent session end? | 2 addresses, 2 clients, 8 packets of one to three lines, one tick for each limit | 137,687 states, holds |
| `contacts` | do nicks lead to their users, do the client and the channels show who is there? | 2 contacts of one generated nick, one more nick to type, 2 channels of which one is configured, nicks 0..4 | 223,236 states, holds |
| `contacts_talk` | does text reach whom it was typed for? | the same contacts, 1 channel that is talked in | 43,248 states, holds |
| `chats` | do channel and chat agree, are names unique, does the client show what is there, do left temporary channels go? | 2 channels, 2 chats, 1 name and 1 generic one, 1 room, 1 contact | 481,600 states, holds |
| `jabber` | has the socket its watches, does a login end? | 1 account, `MCSettings` of tls, ssl and sasl with both kinds of server, 2 stanzas under way, 1 other line | 587,676 states, holds |
| `jabber_unasked` | do passwords stay inside TLS where tls is true, also when challenges come unasked? | as `jabber`, tls true and ssl off (`MCRequiredTls`), `"challenge"` in `Unasked` | 4,350,390 states, holds |
| `jabber_half_header` | has it its watches when the stream's opening tag comes in two reads? | as `jabber`, with `"half"` in `Quirks` | violated |

Why these bounds show something.  Two accounts sharing two addresses are what it
takes for a stale handle or pointer to hit another's state, and more add
only copies: an action touches one account and its connection.  Three questions
give a list with a head, a middle and a tail.  Two sessions and two nicks give
every overlap of the two-step save with everything another process does.  Two
processes are one pair; the run with three shows what a third adds.  In
`Connection` two sessions are the old and the new one of a takeover, and the packets are
those in which a line follows another that ends, moves or stops the session.  In
`Contacts` and `Chats` two addresses are what it takes for one to be used again while
something points to it, and two channels for a line that one needs and the other
does not.  In `Jabber` two stanzas in one read are a handler and one that runs
after it.  Every action and every disjunct of each next-state relation fires in
a passing run.

Eight more configurations change a constant, or ask for one more property, and TLC finds
it violated.  They show that an assumption of a run or a theorem is needed, or what
the code does where it differs from its documentation (section 5).

| configuration | property | what is different |
|---|---|---|
| `MCAccountWrap.cfg` | `DelayShrinksOnlyOnSuccess` | the setting "3*7<15", whose product does not fit an `IntMax` of 15; 4 states |
| `MCAccountSync.cfg` | `LoginTimerOnlyBeforeLogin` | `"connected"` in `LoginOutcomes`: protocols that connect inside login(); 3 steps |
| `MCSessionTwo.cfg` | `DroppedStaysDropped` | `Alone` is FALSE: two sessions of one nick; 7 states |
| `MCSessionUnsynced.cfg` | `SavedAccountsAreKept` | `Synced` is FALSE: a disk that does not keep what it was given; 5 states |
| `MCQueryReject.cfg` | `RejectedIsNotAuthorized` | 2 questions, 1 Jabber connection |
| `MCChatsInvite.cfg` | `InvitationsAreShown` | nothing |
| `MCContactsAutoJoin.cfg` | `ChannelsContainAll` | nothing |
| `MCContactsLastTarget.cfg` | `LastTargetWasAddressed` | nothing |

The properties, by hazard:

* **Timers and handles**: `TimersBelongToTheirOwner`, `NoReconnectWhileConnected`,
  `OneAccountPerConnection`, `LoginTimerOnlyBeforeLogin`.
* **Being switched off, and coming back**: `OffStaysOff` (only the user brings
  back an account that was switched off), `WantedIsRetried` (an account that is wanted
  is never left with neither a connection nor a timer, unless the settings say so),
  `LoginEnds`, `DelayShrinksOnlyOnSuccess`, `ImplementsAccountStatus`.
* **Questions**: `QuestionsOfLiveConnections`, `DataIsFreedOnce`,
  `PlainAnswerWasShown`.
  The last is about users who do not leave fifo order with questions pending (number 14
  of section 5).  `DataIsFreedOnce` says once for data that is the question's, at most once
  for that of OTR, never for what is borrowed.  All but the last except what a callback
  did after it had lost its connection (number 12 of section 5).
* **Saved settings**: `IdentifiedWithPassword`, `SavedAccountsAreKept`,
  `DroppedStaysDropped`.
* **Takeover**: `LinksPairSessions` (what the master believes about two children
  fits together, whoever dies), `MovesToItsUser` (a session moves only when its user
  asked for it, and to a connection on which a takeover was asked for: by the same
  user, unless the session had another before), `LoginIsDecided`.
* **Client connections**: `EventsBelongToSessions`, `OutputIsNeverStuck`,
  `OneSessionPerClient`, `SilenceWasAskedAbout`, `AbortedIsFreed`,
  `SilentClientsAreDropped`.  `OneSessionPerClient` is about steps: two sessions that
  stay come to read from one client only through one that is on its way out (number
  23 of section 5).
* **Contacts**: `NicksLeadToTheirUsers`, `ViewIsRight`, `ChannelsHoldWhoIsWanted`
  (but for channels in `unfilled`, about which `ChannelsContainAll` is),
  `LinesReachTheAddressed` (paste buffers), `LastTargetWasAddressed`.
* **Chats**: `PointersAgree`, `NamesAreUnique`, `ViewIsRight`, `TempChannelsGo`.
* **Jabber**: `Attended`, `SecretsStayInside`, `LoginEnds`.

Each is stated in words above its definition.

Fairness.  `Account` assumes weak fairness of its timers: the event loop fires
a timer that stays armed.  It assumes nothing of servers, which may stay silent
for ever; that is why `LoginEnds` speaks of "connecting" and not of "authorizing",
where the user has to act.  `Takeover`
assumes weak fairness of what the processes do by themselves: reading a line that
waits, the 200 ms timer, the delayed end after an abort, the master noticing an end
of file.  It assumes nothing of users and clients.  `Connection` assumes it of the
ping and the free timer only: `SilentClientsAreDropped` needs no client that reads or
closes, and leaves out a session that other clients take over again and again.
`Chats` assumes it of the free timers.  `Jabber` assumes it of the event loop's
handlers, of TCP and TLS, which connect or fail, of the network, which takes what is
written or fails, and of a server that answers what it is asked; `Account`'s
login timer is what ends a login at a server that does not.  `Query`, `Session` and
`Contacts` are safety only.

Deadlock is checked except where the program really stops: in the takeover runs when all
processes have ended and the bounds are used up, in `connection` after DIE, in the
chat and Jabber runs after a memory error.

The symmetry sets permute only what no definition tells apart (addresses of questions;
sessions, passwords and nicks of `Session`; processes and nicks of the takeover runs
that have no `Manual` nick; addresses of contacts), and no run with a liveness property uses them.

## 5. Where the code and its words disagree

Ten of these have a configuration whose trace is the scenario; PROJECT.json lists two of
them as runs, with the lines they disagree with:

1. `no` to a Jabber authorization request sends the acceptance (jabber_util.c:291;
   commands.xml:1645, "To reject a question, use the no command."; `MCQueryReject.cfg`).
2. A late `DONE` ends a session that was never moved (`takeover_stale`).
3. A second invitation to a room, or one to a room that has a channel, ends the
   program: irc_channel_new() returns NULL for a name that is taken, and
   irc_channel_free() of it reads through it (irc_im.c:775; misc.xml:58, "you will be
   force-joined or invited"; `MCChatsInvite.cfg`).
4. When the first read of a Jabber stream ends before its opening tag does, the
   connection loses its read watch for good (`jabber_half_header`).
5. A protocol that connects inside `login()` is given the login timer all the
   same, and is logged out after two minutes (account.c:357; CHANGES:57, "Time out if
   logging into an account takes too long."; `MCAccountSync.cfg`).
6. A reconnect delay that no longer fits an int becomes negative and passes for one
   below the maximum, and the account is not tried again: the third delay of
   "5*100000000<900" is one (account.c:448; commands.xml:701, "With < you can give a maximum
   delay."; `MCAccountWrap.cfg`).
7. `drop` is undone by the next save of another session of the same nick
   (root_commands.c:264; commands.xml:1725, "Your account files will be removed";
   `MCSessionTwo.cfg`).
8. xml_save() replaces the good file after an fsync() or close() that failed, and
   what is left of a file that was cut short loads as a whole one (storage_xml.c:566,
   356-416; root_commands.c:281, "Configuration saved"; `MCSessionUnsynced.cfg`).
9. `irc_channel_auto_joins()` joins a control channel without filling it
   (irc_channel.c:443; commands.xml:927, "By default, control channels will contain all
   your contacts."; `MCContactsAutoJoin.cfg`).
10. With `default_target` = last a line without a name goes to whoever was allocated
    where the last target was freed (irc_channel.c:587; commands.xml:884, "to the last
    person you addressed in the control channel"; `MCContactsLastTarget.cfg`).

The others came up while modelling.  Where a constant of the model, or a value of one,
allows it and the run leaves it out, the constant is named:

11. A constant `auto_reconnect_delay` is not used by accounts that already have a
    delay (account.c:443, against commands.xml:701).
12. Answering a question over a broken connection, in a module that writes at once, frees
    the question under `query_answer()` (query.c:165), which then writes to freed
    memory, and frees its data twice; an accepted request then asks whether to add
    the contact, through the connection that is gone (jabber_util.c:279-281), and nothing
    ever flushes that question.
13. The data of OTR's questions about fingerprints and contexts has no free function, so
    that a no, or the end of the session, leaks it (otr.c:1054, 1090).
14. With questions pending, setting `query_order` from fifo to lifo makes a plain answer
    answer one that was not shown (query.c:68, 185-195).
15. After a declined offer the old session is offered to nobody (ipc.c:159, 178).
16. When both of a pair wait and neither can be told, the master frees the second child
    while it is still failing it (ipc.c:499-514).
17. `bee_irc_channel_chat_part()` writes to the chat after `chat_leave()`, which frees
    it in the modules of Twitter, Yahoo, Oscar and libpurple (irc_im.c:904;
    `LeaveFrees`).
18. `channel set type` and `room` on a channel in use leave its pointers to a chat
    (irc_channel.c:202; `SetInUse` violates `PointersAgree`).
19. A Jabber server that answers the request for the roster without a list leaves the
    account connecting until the login timer (iq.c:420; `"noroster"` violates
    `LoginEnds`), and with sasl off on a server with STARTTLS both logins begin
    at once and can block each other (sasl.c:71: "Strange things happen when you try
    to do both"; left out by `MCSettings`).
20. `sasl_pkt_challenge()` does not look whether it was this client that began a login
    (sasl.c:281-394, io.c:517): a challenge that comes unasked before TLS is up gets the
    digest of the password, also with tls true.  `SecretsStayInside` excepts that
    digest, and only where `Unasked` has challenges.
21. `ssl_disconnect()` cancels neither the timer of `ssl_starttls()` nor the connect of
    `ssl_connect()` (ssl_gnutls.c:140), and callers of `jabber_write()` and of
    `remove_buddy()` go on with a connection, or a contact, that a failed write has freed
    (io.c:194, iq.c:258, nogaim.c:284-288, root_commands.c:760-763).
22. A child that refuses an AUTH keeps the descriptor that came with it
    (`ipc_child_recv_fd`, ipc.c:349-368).  If its user then changes, and a second session
    of the new user identifies twice, so that the master has closed its `to_fd` when it
    passes on the AUTH (ipc.c:166-169) and sends none, the session moves to the
    client of its former user.  It takes three processes and three disturbances, more
    than the runs have; the attempt to prove that a session moves to its own user's
    client showed it, and `MovesToItsUser` excepts it.
23. In Daemon mode the lines of an aborted session still run until it is freed
    (irc.c:184-223).  It can identify again, and the takeover it asks for gives the client
    that its first takeover gave away to a third session as well (irc.c:215,
    ipc.c:420), if both come in the same read.  It takes three sessions; `OneSessionPerClient`
    excepts a client of such a session.

## 6. The proofs

`tlapm` checks every step; there is no unproved statement.

**`AccountProofs`** proves, for any sets of accounts, connections, event ids and
delay settings that meet the named assumptions of `Account`:

| theorem | states |
|---|---|
| `TypeCorrect` | `Spec => []TypeOK` |
| `ConnectionsHaveOneAccount` | `Spec => []OneAccountPerConnection` |
| `NoTimerIsLeftBehind` | `Spec => []TimersBelongToTheirOwner` |
| `ReconnectsOnlyWhileOffline` | `Spec => []NoReconnectWhileConnected` |
| `SwitchedOffForGood` | `Spec => []OffStaysOff` |
| `LostConnectionsComeBack` | `Spec => WantedIsRetried` |
| `OnlySuccessShrinksTheDelay` | `Spec => DelayShrinksOnlyOnSuccess` |

All of these assume that `"connected"` is not in `LoginOutcomes` (number 5 of section 5): after
a synchronous login a handle is overwritten and a timer left behind.  None of the invariants is inductive alone: that
every timer belongs to its owner is kept by `AccountOn` only because an account
without a connection has no other timer, and that in turn needs that
connections and accounts point to each other.  The inductive invariant is their
conjunction with the type invariant; each action has its lemma, most
of them by way of the operators they share (`ImcFree`, `ImcLogout`, `ClearHandles`).

`LostConnectionsComeBack` takes the three ways into a logout one by one (`TriedAgain`,
`LogoutTriesAgain`, `AccountOnTriesAgain`): whatever the outer and the nested
`imc_logout()` may do, one of them reaches the timer if the settings want it.

The last theorem also assumes `BackoffGrows`: no setting the user may choose makes a
delay smaller that any of them can lead to.  The settings of `account` satisfy it; the
code accepts some that do not, `5*0`, or a product that no longer fits an int, which
wraps (number 6 of section 5).  With it every delay stays below the cap of some setting (`DelayInv`), and each
step leaves a delay, takes it through `account_reconnect_delay()` or sets it back
(`DelayStep`).

The second half of `AccountProofs` proves, under the same assumption on `LoginOutcomes`:

| theorem | states |
|---|---|
| `LoginsAreTimed` | `Spec => []LoginTimerOnlyBeforeLogin` |
| `AccountImplementsAccountStatus` | `Spec => ImplementsAccountStatus` |

`SInv` adds to the inductive invariant what the flags of a connection can be and that
its handle is the login timer's exactly while it has none (`FlagsInv`): a new
connection has no handle to keep, so an attended login has no timer.  The assumption is
the very case in which `LoginsAreTimed` would be false, so the theorem is about the other
protocols, and `MCAccountSync.cfg` about that one.  `StatusIs` takes the cases
of the refinement mapping apart once and for all.  `StepMoves` is the heart: every step leaves
an account as it is shown (`Stays`) or makes one of six moves (`Moves`), and
`StepStatus` finds each of them among the edges of `AccountStatus`.  The simulation is
of safety only; `LoginEnds` rests on fairness.

**`SessionProofs`** proves, for any sets of sessions, nicks, passwords and accounts:

| theorem | states |
|---|---|
| `SavesHaveAPassword` | `Spec => []TypeOK` |
| `LoginHasItsPassword` | `Spec => []IdentifiedWithPassword` |
| `NothingSavedIsLost` | `Spec => SavedAccountsAreKept` |
| `DropIsFinal` | `Spec => DroppedStaysDropped` |

They assume `Alone`, and `NothingSavedIsLost` also `Synced`: the last two are false
without (numbers 7 and 8 of section 5), so they are about users who keep to one session
per nick and about disks that keep what they were given.  The inductive invariant `IInv` adds to the types that live sessions have
different nicks and that for each session (`SessionInv`): the login and the
password go together; something is being saved exactly while the session saves, and
it holds its accounts; and an identified session knows its file (`KnowsItsFile`): its
nick has one, and every account in it is one that the session holds or the user
deleted, unless the session identified with -noload.  The last part is the one that carries `NothingSavedIsLost`: an
identified session has read its whole file, because a load that stops early does not
identify, and no other session can have changed that file since.
`OthersKeepSessionInv` says that a step of one session leaves the invariant of
the others alone unless it touches their file; `StepKeepsIInv` reduces every
action to its own session; `FilesChange` lists the only steps that touch files.

**`ChatsProofs`** proves, for any sets of channels, chats, names, rooms and contacts:

| theorem | states |
|---|---|
| `TypeCorrect` | `Spec => []TypeOK` |
| `PointersAlwaysAgree` | `Spec => []PointersAgree` |
| `NamesStayUnique` | `Spec => []NamesAreUnique` |
| `ViewStaysRight` | `Spec => []ViewIsRight` |

They assume `~SetInUse` (number 18 of section 5), but nothing of `LeaveFrees`.  Three
things are added to make the conjunction inductive.  A channel that exists has a
name and one that does not has neither users nor room (`Allocated`): without it a free
timer could be set without a name, and a new channel inherit a view.  A chat is of its
channel's room, and there is none without the connection (`Rooming`): this is
what keeps `JoinRoom` from giving a second chat to a channel that has one, and a login
from leaving an old pointer.  And `ViewInv` says what the view is without choosing
a channel.  The operators that the handlers share have a lemma each (`LeaveKeeps`,
`EnterKeeps`, `NewKeeps`, `FreeKeeps`, `AttachKeeps`); `LogoutIInv`, where every chat
is left and every contact quits in one step, is the longest.

**`QueryProofs`** proves, for any sets of questions and connections:

| theorem | states |
|---|---|
| `TypeCorrect` | `Spec => []TypeOK` |
| `NoQuestionOutlivesItsConnection` | `Spec => []QuestionsOfLiveConnections` |
| `DataNeverFreedTwice` | `Spec => []DataIsFreedOnce` |
| `AnswersWhatWasShown` | `Spec => []PlainAnswerWasShown` |

They assume nothing of modules, users or orders.  The hard part is the question whose
callback is running.  `Answering` says that a question in the list still has its data,
that the frame of `query_answer()` is of the question's own connection, and that a
question which is no longer in the list under its own callback is one whose connection
was lost there (`stale`).  The exceptions of the first two properties are exactly these: a
question that was lost by its own callback, and one asked after it.  `Shown` says what a later plain answer relies on: in lifo order
everything in the list was shown, in fifo order its head was, except while an answer runs;
so a change from lifo to fifo does no harm.
`WithoutIs` says what is left of a list when some of its members are taken out: each of
the others, once.

**`ConnectionProofs`** proves, for any sets of sessions, clients and packets:

| theorem | states |
|---|---|
| `TypeCorrect` | `Spec => []TypeOK` |
| `EventsAreKnown` | `Spec => []EventsBelongToSessions` |
| `OutputGoesOn` | `Spec => []OutputIsNeverStuck` |
| `SilenceIsAskedAbout` | `Spec => SilenceWasAskedAbout` |
| `ClientsAreNotShared` | `Spec => OneSessionPerClient` |

`SilenceIsAskedAbout` assumes `Interval <= Timeout`, as the defaults are (180 and 300,
conf.c:62-63); nothing in the code keeps an administrator from the opposite, and then
the theorem is false.  The invariant (`GoodProcess`) has to hold not only between
handlers but between any two lines of one read, so it is about the record of the
process that `IrcProcess` hands from line to line: each session in the list has a
read handle and a timer, its events are among those of its handles, it has a
write watch exactly while it has output, and it was aborted exactly if its
timer is the free timer (`Sound`); one that is freed has left nothing (`Gone`).
`ExecGood` keeps it over one line and `IrcProcessGood` over any number.  `Along` is the same
for the two action properties: what the lines of one session can have done to the
clients of all.

**`TakeoverProofs`** proves, for any sets of processes and nicks:

| theorem | states |
|---|---|
| `TypeCorrect` | `Spec => []TypeOK` |
| `PairsNeverDangle` | `Spec => []LinksPairSessions` |
| `MovesAreAskedFor` | `Spec => MovesToItsUser` |

`LinksPairSessions` is inductive with the types: whoever frees or fails a child (`FreeAndFail`)
clears both ends (`FreeKeepsLinks`), and a pair is made only of two that have none
(`PairKeepsLinks`).
`MovesToItsUser` needs `Flow`, which says of every process what is under way between
it and the master.  On the way up (`Sent`) each AUTH stands for a question that was
answered on the connection whose descriptor the master will have when it reads the line:
the one it has, or the last that is sent before, provided no DONE between them closes it.
On the way down (`Reached`) every descriptor is of a connection on which a takeover
was asked for, and every AUTH is of a user who asked for one.  `OneUser` says that while a
session has had one user, all of this is of that user.  `Flow` was checked by TLC
before it was proved.

**`ContactsProofs`** proves, for any sets of contacts, handles, groups and channels:

| theorem | states |
|---|---|
| `TypeCorrect` | `Spec => []TypeOK` |
| `NicksAlwaysLead` | `Spec => []NicksLeadToTheirUsers` |
| `ViewStaysRight` | `Spec => []ViewIsRight` |
| `ChannelsStayFilled` | `Spec => []ChannelsHoldWhoIsWanted` |
| `LinesAlwaysArrive` | `Spec => []LinesReachTheAddressed` |

They assume nothing of logins or of addresses that are used again.  All rest on
`NicksAssumption`, that there are more nicks to try than contacts: `nick_dedupe()` gives up after 256.  That
its search then ends (`FirstFreeIs`) is a matter of counting.  The
invariant has a part for names, members and view together (`NamesInv`), because a
renaming is told to every channel the contact is in; it is stated of a record (`Now`),
since one handler can rename, part and join several times.  `ChannelsStayFilled`
excepts the channels in `unfilled` (number 9 of section 5) and says that
they are filled right again by the next change of their settings or JOIN.
`LinesReachTheAddressed` is inductive because whoever is freed takes its paste buffer
along; it says nothing of the last target (number 10).

**`JabberProofs`** proves, for any settings, quirks, stanzas sent unasked and bounds:

| theorem | states |
|---|---|
| `TypeCorrect` | `Spec => []TypeOK` |
| `NoSecretOutsideTls` | `Spec => []SecretsStayInside` |
| `ConnectionsAreAttended` | `Spec => []Attended` |

That nothing secret has been sent does not say that nothing will be.  The
inductive invariant says why (`Guarded`): while TLS has to be used and is not,
everything on its way is harmless, that is, the packets in the queue, the requests
the server holds, the stanzas that have arrived and those the handlers still have
before them.  `AnswersQuiet` closes the circle: a server that was asked nothing that
leads to a secret answers nothing that does.  What is sent unasked is not quiet if it
is a challenge: then the digest in answer to one (`Digests`), but no login, is harmless.  `Cleared` says that a connection
leaves nothing to the next, which may have other settings.  `KeepKeeps`,
`LogoutKeeps` and `SendKeeps` are the three things a handler can do, and `FeaturesKeep`
is the place where the code decides.

`ConnectionsAreAttended` assumes that `"half"` is not in `Quirks` (number 4 of section 5).
Its invariant (`WInv`) adds to the handles and watches (`Watches`) that client and
server agree on where a stream begins (`Streams`): while the client still has to ask for
a new stream nothing arrives, what ends a stream is the last stanza under way, and the
first of the next stream is its opening tag.  Without that a read could find a
stream without a root and leave the connection without its read watch.

How lists are dealt with.  `QueryProofs`, `TakeoverProofs` and `ConnectionProofs` need what
a recursive function computes for every list (`Without`, `IrcProcess`).  The provers
cannot instantiate an induction theorem that takes an operator, so `SetInduction` states
induction of a set of numbers, from the fact that `<` is well-founded: the set of the
lengths for which the claim holds has 0 and the successor of each of its members.

Model-checked only: liveness, which rests on fairness: `LoginEnds` of
`Account`, `LoginIsDecided`, `AbortedIsFreed`,
`SilentClientsAreDropped`, `TempChannelsGo` and `LoginEnds` of `Jabber`.  The
properties of the ten configurations that are violated are false of the system they are asked of,
so there is nothing to prove.  Every other property of a run is a theorem.

## 7. What is not modelled

* Bytes of the client connection (half lines, character sets), and commands that only
  answer: MODE, TOPIC, AWAY, WHO, WHOIS, WATCH, OPER.
* Messages, away states and topics: text that passes through.  The channel
  type by account or protocol, which a deleted account leaves with a dangling pointer
  (irc_channel.c:667); `last_channel`; the paste buffers of chats.  `Contacts` has one account.
* Settings (`set.c`), whose values are constants and variables of the models; they do
  not change in the middle of a handler.
* File transfers, the address list and handshakes of `proxy.c`, HTTP requests, OAuth.
* In `Jabber` the expiry of the IQ cache, presence, messages, chats, discovery; in the TLS
  back-ends all but GnuTLS's wrappers.
* The protocols of MSN, Oscar, Yahoo, Twitter, Skype, Steam and libpurple: imported
  or thin layers; `Account` takes all outcomes of their `login()` and every
  moment at which they may report as inputs, `Chats` and `Contacts` all they may
  report, so that the results hold for each of them.  They are most of the source
  lines, and their wire formats have no order of events a model could say more about.
* Ciphers, hashes, XML and INI parsing: byte-level code; models take their results.
* Configuration, logging, help, packaging: no state that changes with sessions.
* Time: timers fire in any order after being armed; only the delay arithmetic and
  the ping timer count.
* Memory: freed addresses are reused at once, which is the worst malloc() does, but
  exhausted memory is not modelled (g_malloc() aborts).
* What a client types during a hand-over other than identify, nick and drop.

Hazards without a property carry a note in PROJECT.json.

## 8. The plan

Done: accounts, questions, sessions and storage, takeover, the client connection,
contacts and channels, group chats, the Jabber stream.  Next, in order:

1. Outgoing connections (`proxy.c`, `http_client.c`): every request ends in exactly one
   callback; then OAuth and Twitter's timeline on top of it.
2. File transfers: DCC, SI and SOCKS5, cancelled from either side.
3. MSN's switchboards and their queues.
4. `/OPER` as a way to enter passwords, and settings with evaluators.
5. Proofs: what liveness rests on, that is, for each property the measure that every
   helpful step lowers and no other raises; an abstract specification of a takeover
   (sessions, users, clients) that `Takeover` implements up to number 22 of section 5.

The runs of a part have two of everything first, three where a list has a middle, and
no bound on the length of behaviours; counters are capped by a constant named in
the cfg.
