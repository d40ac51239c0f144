------------------------------- MODULE Account -------------------------------
(***************************************************************************)
(* IM accounts and their connections: protocols/account.c, the connection  *)
(* half of protocols/nogaim.c and bee_free() of protocols/bee.c, with the  *)
(* `account on', `account off' and `account del' commands that drive them. *)
(*                                                                         *)
(* One process, one event loop: every action is one callback (a command,   *)
(* a timer, something the protocol module noticed on its socket), run to   *)
(* its end.  What makes the component hard is that its three timers and    *)
(* the struct im_connection they point to are allocated and freed by       *)
(* different callbacks, in any order, and that a protocol module may log   *)
(* out from inside login() or logout().                                    *)
(*                                                                         *)
(* Connections are heap addresses: a freed one may be handed out again.    *)
(* An armed event is its callback, the callback's data and an id that      *)
(* tells apart events armed twice; the record is also the handle that      *)
(* b_timeout_add() returns.  Null is handle 0 and the NULL pointer.        *)
(***************************************************************************)
EXTENDS ReconnectDelay, FiniteSets, Functions

CONSTANTS
    Accounts,        \* account_t structures
    Conns,           \* addresses imcb_new() may return
    EventIds,
    Null,
    LoginOutcomes,   \* what prpl->login() of the installed protocols may do
    DelaySettings    \* values of auto_reconnect_delay

AllOutcomes ==
    {"connecting",   \* returned, the rest happens on the protocol's socket
     "slow",         \* the same, with OPT_SLOW_LOGIN: the user must act (OAuth)
     "connected",    \* called imcb_connected() before returning
     "refused",      \* called imc_logout(ic, FALSE) before returning
     "failed"}       \* called imc_logout(ic, TRUE) before returning

\* An armed timer, which is also its handle.
Event ==
    [cb : {"auto_reconnect"}, arg : Accounts, id : EventIds] \cup
    [cb : {"account_on_timeout", "send_keepalive"}, arg : Conns, id : EventIds]

ASSUME ConstantsAssumption ==
    /\ Accounts \cap Conns = {}
    /\ Null \notin Accounts \cup Conns \cup Event
    /\ \E x, y \in EventIds : x # y
    /\ LoginOutcomes \subseteq AllOutcomes
    /\ DelaySettings \subseteq DelaySetting

VARIABLES
    accounts,        \* bee->accounts
    accIc,           \* a->ic
    reconnect,       \* a->reconnect, an event handle
    delay,           \* a->auto_reconnect_delay
    autoReconnect,   \* auto_reconnect: the global and the account's setting
    delaySetting,    \* auto_reconnect_delay
    connections,     \* the list `connections': what imcb_new() allocated
    flags,           \* ic->flags
    keepalive,       \* ic->keepalive, an event handle
    events,          \* the event loop's armed timers
    wanted           \* history: the user switched the account on, and nobody
                     \* switched it off or gave up on it since

vars == <<accounts, accIc, reconnect, delay, autoReconnect, delaySetting,
          connections, flags, keepalive, events, wanted>>

Flags == {"LOGGED_IN", "SLOW_LOGIN", "LOGGING_OUT"}

Offline(a) == a \in accounts /\ accIc[a] = Null
Connected(a) == a \in accounts /\ accIc[a] # Null

\* What b_timeout_add(cb, arg) arms and returns; b_event_remove() takes the
\* record out of events, and does nothing for Null.
Timeout(cb, arg) ==
    [cb |-> cb, arg |-> arg,
     id |-> CHOOSE i \in EventIds : [cb |-> cb, arg |-> arg, id |-> i] \notin events]

Init ==
    /\ accounts = {}
    /\ accIc = [a \in Accounts |-> Null]
    /\ reconnect = [a \in Accounts |-> Null]
    /\ delay = [a \in Accounts |-> 0]
    /\ autoReconnect \in [Accounts -> BOOLEAN]
    /\ delaySetting \in DelaySettings
    /\ connections = {}
    /\ flags = [c \in Conns |-> {}]
    /\ keepalive = [c \in Conns |-> Null]
    /\ events = {}
    /\ wanted = [a \in Accounts |-> FALSE]

-----------------------------------------------------------------------------
(* imc_logout() *)

\* OPT_LOGGING_OUT is all that keeps a nested imc_logout(), from inside
\* prpl->logout(), from running its body a second time.
MayEnter(f) == "LOGGING_OUT" \notin f

\* Mutant: the flag is tested and never set.
NeverMarked(f) == f

MarkLoggingOut(f) == f \cup {"LOGGING_OUT"}

\* Does imc_logout() of a connection with flags f reach its reconnect code
\* with allow_reconnect set?  nested: prpl->logout() itself ends up in
\* imc_logout(ic, TRUE), as the purple module's does when libpurple reports
\* the disconnection it was just asked for.
ReconnectAllowed(f, allow, nested) ==
    MayEnter(f) /\ (allow \/ (nested /\ MayEnter(MarkLoggingOut(f))))

NewDelay(a) == AccountReconnectDelay(delaySetting, delay[a])

\* The delay grows only when a new attempt is to be made.
DelayAfter(a, f, allow, nested) ==
    IF ReconnectAllowed(f, allow, nested) /\ autoReconnect[a] THEN NewDelay(a)
    ELSE delay[a]

\* Mutant: only a connection that had logged in is brought back.
ReconnectsLoggedIn(a, f, allow, nested) ==
    /\ ReconnectAllowed(f, allow, nested) /\ autoReconnect[a] /\ NewDelay(a) > 0
    /\ "LOGGED_IN" \in f

\* Is the reconnect timer started?
Reconnects(a, f, allow, nested) ==
    ReconnectAllowed(f, allow, nested) /\ autoReconnect[a] /\ NewDelay(a) > 0

\* Mutant: imc_logout() forgets the keepalive timer.
LogoutForgetsTimer(S) == {}

\* The handles imc_logout() removes from the event loop for the accounts in S.
LogoutRemoves(S) == {keepalive[accIc[a]] : a \in S}

\* cancel_auto_reconnect()
CancelReconnect(S) == {reconnect[a] : a \in S}

\* Mutant: only the list of connections is updated.
FreeKeepsPointer(S) == accIc

\* imc_free(): no account points to the connections of S any more.
ImcFree(S) == [a \in Accounts |-> IF a \in S THEN Null ELSE accIc[a]]

\* imc_logout(a->ic, allow) for the accounts in S, which are connected
\* (`account off' and bee_free() loop over the accounts, every other caller
\* has one), followed by cancel_auto_reconnect() for those in cancel.  fired:
\* the event being dispatched, which will not be repeated.
ImcLogout(S, cancel, allow, nested, fired) ==
    LET C == {accIc[a] : a \in S}
        F(a) == flags[accIc[a]]
        R == {a \in S \ cancel : Reconnects(a, F(a), allow, nested)}
    IN  /\ connections' = connections \ C
        /\ accIc' = ImcFree(S)
        /\ flags' = [c \in Conns |-> IF c \in C THEN {} ELSE flags[c]]
        /\ keepalive' = [c \in Conns |-> IF c \in C THEN Null ELSE keepalive[c]]
        /\ delay' = [a \in Accounts |-> IF a \in S THEN DelayAfter(a, F(a), allow, nested)
                                       ELSE delay[a]]
        /\ reconnect' = [a \in Accounts |->
                            IF a \in R THEN Timeout("auto_reconnect", a)
                            ELSE IF a \in cancel THEN Null ELSE reconnect[a]]
        /\ events' = (events \ (fired \cup LogoutRemoves(S) \cup CancelReconnect(cancel)))
                     \cup {Timeout("auto_reconnect", a) : a \in R}
        /\ wanted' = [a \in Accounts |-> wanted[a] /\ (a \in S => allow) /\ a \notin cancel]

-----------------------------------------------------------------------------
(* The user's commands *)

\* account_add(): a new account_t is all zeros (of a deleted one, whose address
\* it may get, only the delay can be anything else).
AccountAdd(a) ==
    /\ a \notin accounts
    /\ accounts' = accounts \cup {a}
    /\ delay' = [delay EXCEPT ![a] = 0]
    /\ UNCHANGED <<accIc, reconnect, autoReconnect, delaySetting,
                   connections, flags, keepalive, events, wanted>>

\* The handles left once account_on() has cancelled the reconnects of S.
KeepHandles(S) == reconnect          \* mutant: a->reconnect is not cleared
ClearHandles(S) == [a \in Accounts |-> IF a \in S THEN Null ELSE reconnect[a]]

\* The 120 second timer account_on() starts after a login.
TimerForAccount(a, c) == Timeout("account_on_timeout", a)    \* mutant
LoginTimer(a, c) == Timeout("account_on_timeout", c)

\* Which logins get it.
OnlySlowTimed(out) == out = "slow"   \* mutant: the test is the wrong way round
Timed(out) == out # "slow"

\* account_on() for the accounts in S, each offline, after the handles in
\* removed are gone.  prpl->login() allocates the connection new[a] and does
\* out[a]; on its return every account that still has a connection, and not
\* a slow one, gets the login timer.  user: this is the user's doing.
AccountOn(S, removed, user) ==
    \E out \in [S -> LoginOutcomes], new \in Injection(S, Conns \ connections),
       nested \in BOOLEAN :
      LET up == {a \in S : out[a] \in {"connecting", "slow", "connected"}}
          synced == {a \in S : out[a] = "connected"}
          timed == {a \in up : Timed(out[a])}
          failed == {a \in S : out[a] = "failed"}
          retried == {a \in failed : Reconnects(a, {}, TRUE, nested)}
          For(c) == CHOOSE a \in S : new[a] = c
          Out(c) == out[For(c)]
          started == {new[a] : a \in up}
      IN  /\ connections' = connections \cup started
          /\ accIc' = [a \in Accounts |-> IF a \in up THEN new[a] ELSE accIc[a]]
          /\ flags' = [c \in Conns |->
                          IF c \notin started THEN flags[c]
                          ELSE IF Out(c) = "slow" THEN {"SLOW_LOGIN"}
                          ELSE IF Out(c) = "connected" THEN {"LOGGED_IN"} ELSE {}]
          /\ keepalive' = [c \in Conns |->
                              IF c \in started /\ Timed(Out(c))
                              THEN LoginTimer(For(c), c) ELSE keepalive[c]]
          /\ delay' = [a \in Accounts |->
                          IF a \in synced THEN 0
                          ELSE IF a \in failed THEN DelayAfter(a, {}, TRUE, nested)
                          ELSE delay[a]]
          /\ reconnect' = [a \in Accounts |->
                              IF a \in retried THEN Timeout("auto_reconnect", a)
                              ELSE ClearHandles(S)[a]]
          /\ events' = (events \ removed)
                       \cup {LoginTimer(a, new[a]) : a \in timed}
                       \cup {Timeout("send_keepalive", new[a]) : a \in synced}
                       \cup {Timeout("auto_reconnect", a) : a \in retried}
          /\ wanted' = [a \in Accounts |->
                           IF a \in S THEN (user \/ wanted[a]) /\ out[a] # "refused"
                           ELSE wanted[a]]
          /\ UNCHANGED <<accounts, autoReconnect, delaySetting>>

\* `account on' (every account with auto_connect, any subset of those that
\* are offline) and `account <tag> on' (one).
CmdAccountOn ==
    \E S \in SUBSET {a \in accounts : Offline(a)} :
        S # {} /\ AccountOn(S, CancelReconnect(S), TRUE)

\* `account off' (all accounts) and `account <tag> off': account_off() for
\* those with a connection, cancel_auto_reconnect() for the others.
CmdAccountOff ==
    \E S \in {accounts} \cup {{a} : a \in accounts}, nested \in BOOLEAN :
        /\ \E a \in S : accIc[a] # Null \/ reconnect[a] # Null
        /\ ImcLogout({a \in S : accIc[a] # Null}, S, FALSE, nested, {})
        /\ UNCHANGED <<accounts, autoReconnect, delaySetting>>

\* Mutant: cmd_account() and account_del() do not look at a->ic.
DelConnected(a) ==
    /\ a \in accounts
    /\ accounts' = accounts \ {a}
    /\ events' = events \ CancelReconnect({a})
    /\ reconnect' = [reconnect EXCEPT ![a] = Null]
    /\ wanted' = [wanted EXCEPT ![a] = FALSE]
    /\ UNCHANGED <<accIc, delay, autoReconnect, delaySetting, connections, flags, keepalive>>

\* `account <tag> del' and account_del(): refused while there is a connection.
AccountDel(a) ==
    /\ Offline(a)
    /\ accounts' = accounts \ {a}
    /\ events' = events \ CancelReconnect({a})
    /\ reconnect' = [reconnect EXCEPT ![a] = Null]
    /\ wanted' = [wanted EXCEPT ![a] = FALSE]
    /\ UNCHANGED <<accIc, delay, autoReconnect, delaySetting, connections, flags, keepalive>>

\* `set auto_reconnect' and `account <tag> set auto_reconnect'
SetAutoReconnect(a) ==
    /\ autoReconnect' = [autoReconnect EXCEPT ![a] = ~@]
    /\ UNCHANGED <<accounts, accIc, reconnect, delay, delaySetting, connections,
                   flags, keepalive, events, wanted>>

\* `set auto_reconnect_delay'
SetDelaySetting ==
    /\ delaySetting' \in DelaySettings
    /\ UNCHANGED <<accounts, accIc, reconnect, delay, autoReconnect, connections,
                   flags, keepalive, events, wanted>>

-----------------------------------------------------------------------------
(* The end of the user's session *)

\* bee_free(): log out, cancel and delete every account.
BeeFree ==
    /\ accounts # {}
    /\ \E nested \in BOOLEAN :
         ImcLogout({a \in accounts : accIc[a] # Null}, accounts, FALSE, nested, {})
    /\ accounts' = {}
    /\ UNCHANGED <<autoReconnect, delaySetting>>

-----------------------------------------------------------------------------
(* What protocol modules report, and timers *)

\* Mutant: the login timer is left running.
ConnectedKeepsTimer(c) == {}

\* The handles imcb_connected() removes.
ConnectedRemoves(c) == {keepalive[c]}

\* imcb_connected(); a second call for the same connection returns at once.
\* The away state it sends may be a write that fails, logs out and frees the
\* connection.  That is ProtocolLogout here; what the function then reads and
\* writes is freed memory (nogaim.c:288), about which nothing is said.
ImcbConnected(a) ==
    /\ Connected(a)
    /\ LET c == accIc[a] IN
         /\ "LOGGED_IN" \notin flags[c]
         /\ events' = (events \ ConnectedRemoves(c)) \cup {Timeout("send_keepalive", c)}
         /\ keepalive' = [keepalive EXCEPT ![c] = Timeout("send_keepalive", c)]
         /\ flags' = [flags EXCEPT ![c] = @ \cup {"LOGGED_IN"}]
    /\ delay' = [delay EXCEPT ![a] = 0]
    /\ UNCHANGED <<accounts, accIc, reconnect, autoReconnect, delaySetting,
                   connections, wanted>>

\* A protocol module gives up on its connection: imc_logout(ic, TRUE) for a
\* broken connection, imc_logout(ic, FALSE) when retrying makes no sense.
ProtocolLogout(a) ==
    /\ Connected(a)
    /\ \E allow, nested \in BOOLEAN : ImcLogout({a}, {}, allow, nested, {})
    /\ UNCHANGED <<accounts, autoReconnect, delaySetting>>

\* account_on_timeout(): the login took two minutes.
AccountOnTimeout(a) ==
    /\ Connected(a)
    /\ \E e \in events, nested \in BOOLEAN :
         /\ e.cb = "account_on_timeout" /\ e.arg = accIc[a]
         /\ ImcLogout({a}, {}, TRUE, nested, {e})
    /\ UNCHANGED <<accounts, autoReconnect, delaySetting>>

\* auto_reconnect(): clears a->reconnect, then calls account_on(), which
\* returns at once if the account is connected after all.
AutoReconnect(a) ==
    \E e \in events :
        /\ e.cb = "auto_reconnect" /\ e.arg = a
        /\ IF accIc[a] = Null THEN AccountOn({a}, {e}, FALSE)
           ELSE /\ events' = events \ {e}
                /\ reconnect' = [reconnect EXCEPT ![a] = Null]
                /\ UNCHANGED <<accounts, accIc, delay, autoReconnect, delaySetting,
                               connections, flags, keepalive, wanted>>

UserCommand ==
    \/ \E a \in Accounts : AccountAdd(a) \/ AccountDel(a) \/ SetAutoReconnect(a)
    \/ CmdAccountOn
    \/ CmdAccountOff
    \/ SetDelaySetting
    \/ BeeFree

Next ==
    \/ UserCommand
    \/ \E a \in Accounts :
         ImcbConnected(a) \/ ProtocolLogout(a) \/ AccountOnTimeout(a) \/ AutoReconnect(a)

\* The event loop runs every timer that expires.  Nothing is assumed of the
\* user, of the servers or of the protocol modules.
Fairness == \A a \in Accounts : WF_vars(AccountOnTimeout(a)) /\ WF_vars(AutoReconnect(a))

Spec == Init /\ [][Next]_vars

FairSpec == Spec /\ Fairness

-----------------------------------------------------------------------------
(* Properties *)

TypeOK ==
    /\ accounts \subseteq Accounts
    /\ accIc \in [Accounts -> Conns \cup {Null}]
    /\ reconnect \in [Accounts -> Event \cup {Null}]
    /\ delay \in [Accounts -> CInt]
    /\ autoReconnect \in [Accounts -> BOOLEAN]
    /\ delaySetting \in DelaySettings
    /\ connections \subseteq Conns
    /\ flags \in [Conns -> SUBSET Flags]
    /\ keepalive \in [Conns -> Event \cup {Null}]
    /\ events \subseteq Event
    /\ wanted \in [Accounts -> BOOLEAN]

\* Every connection that is allocated is the connection of exactly one
\* account in the account list, and no account points to a freed one: the
\* search through the accounts that imc_logout() and imc_free() start with
\* finds one, and the "very sick" branch of imc_logout() is dead code.
OneAccountPerConnection ==
    /\ connections = {accIc[a] : a \in accounts} \ {Null}
    /\ \A a \in Accounts \ accounts : accIc[a] = Null
    /\ \A a, b \in Accounts : accIc[a] = accIc[b] /\ accIc[a] # Null => a = b

\* The event loop never holds a timer for an account or a connection that was
\* freed, nor one that its owner has lost the handle of and cannot cancel; and
\* no handle outlives its event (b_event_remove() of it would hit another's).
TimersBelongToTheirOwner ==
    /\ \A e \in events :
         \/ e.cb = "auto_reconnect" /\ e.arg \in accounts /\ reconnect[e.arg] = e
         \/ e.cb # "auto_reconnect" /\ e.arg \in connections /\ keepalive[e.arg] = e
    /\ \A a \in Accounts :
         reconnect[a] # Null => /\ reconnect[a] \in events
                                /\ reconnect[a].cb = "auto_reconnect" /\ reconnect[a].arg = a
    /\ \A c \in Conns :
         keepalive[c] # Null => /\ keepalive[c] \in events
                                /\ keepalive[c].cb # "auto_reconnect" /\ keepalive[c].arg = c

\* A reconnect is never pending while there is a connection (account_off()
\* calls that case "Shouldn't happen"), so that auto_reconnect() always
\* finds an account it can switch on.
NoReconnectWhileConnected ==
    \A a \in Accounts : reconnect[a] # Null => Offline(a)

\* Once the user has switched an account off, or deleted it, or a login was
\* refused, nothing brings it back but the user: it has no connection and no
\* pending reconnect, whatever prpl->logout() did on the way.
OffStaysOff == \A a \in Accounts : ~wanted[a] => accIc[a] = Null /\ reconnect[a] = Null

\* An account that the user wants and that is connected, or about to be, stays
\* so through every loss and every failed attempt, whoever noticed it and
\* wherever in the login or logout it came, while auto_reconnect is on and
\* auto_reconnect_delay comes to more than nothing.
WantedIsRetried ==
    [][\A a \in Accounts :
          /\ wanted'[a] /\ (wanted[a] => accIc[a] # Null \/ reconnect[a] # Null)
          /\ autoReconnect[a] /\ NewDelay(a) > 0
          => accIc'[a] # Null \/ reconnect'[a] # Null]_vars

\* The two minutes of the login timer run exactly while the login does: a
\* connection that is not logged in is watched by it, unless it waits for the
\* user (OPT_SLOW_LOGIN), and one that called imcb_connected() is not (it would
\* be thrown out in the middle of the session with "Connection timeout").
LoginTimerOnlyBeforeLogin ==
    \A c \in connections :
        LET armed == \E e \in events : e.cb = "account_on_timeout" /\ e.arg = c
        IN  armed <=> flags[c] \cap {"LOGGED_IN", "SLOW_LOGIN"} = {}

\* The delay between attempts only grows while attempts keep failing: it is
\* set back by a successful login, or by deleting the account, and by
\* nothing else, unless the user changes the setting.
DelayShrinksOnlyOnSuccess ==
    [][\A a \in Accounts :
          /\ delay'[a] < delay[a]
          /\ delaySetting.max >= delay[a]
          => \/ accIc'[a] # Null /\ "LOGGED_IN" \in flags'[accIc'[a]]
             \/ a \notin accounts]_vars

-----------------------------------------------------------------------------
(* Account implements AccountStatus *)

\* What `account list' shows: "(connected)", "(connecting)", "(awaiting
\* reconnect)" or nothing.
Status(a) ==
    CASE a \notin accounts -> "absent"
      [] Connected(a) /\ "LOGGED_IN" \in flags[accIc[a]] -> "connected"
      [] Connected(a) /\ flags[accIc[a]] = {"SLOW_LOGIN"} -> "authorizing"
      [] Connected(a) /\ flags[accIc[a]] = {} -> "connecting"
      [] Offline(a) /\ reconnect[a] # Null -> "waiting"
      [] OTHER -> "offline"

Abstract == INSTANCE AccountStatus WITH status <- [a \in Accounts |-> Status(a)]

\* Every step of the code is a step of an account's life as the user sees it,
\* or changes nothing the user sees.
ImplementsAccountStatus == Abstract!Spec

\* An unattended login ends: the account gets logged in or loses the
\* connection, even if the server never says another word.
LoginEnds == Abstract!LoginEnds
=============================================================================
