---------------------------- MODULE AccountProofs ----------------------------
(***************************************************************************)
(* Proofs about Account, for any number of accounts, connections and event *)
(* ids and any back-off settings: its safety invariants, and then that the *)
(* login timer runs exactly while the login does and that Account          *)
(* implements AccountStatus.                                               *)
(***************************************************************************)
EXTENDS Account, TLAPS

\* What is stored in an int is an int.
LEMMA ToIntType == \A x \in Int : ToInt(x) \in CInt
  <1>1. \A x \in Int, m \in Nat \ {0} : x % m \in 0 .. (m - 1)
    OBVIOUS
  <1>2. 2 * (IntMax + 1) \in Nat \ {0} /\ IntMax \in Nat
    BY IntMaxAssumption
  <1>. DEFINE m == 2 * (IntMax + 1)
  <1>3. \A x \in Int : (x + IntMax + 1) % m \in 0 .. (m - 1)
    BY <1>1, <1>2
  <1>. QED
    BY <1>2, <1>3 DEF ToInt, CInt

\* The new delay is an int too, and never above the cap of the setting.
LEMMA DelayType ==
    \A p \in DelaySetting, d \in CInt :
        AccountReconnectDelay(p, d) \in CInt /\ AccountReconnectDelay(p, d) <= p.max
  <1>. SUFFICES ASSUME NEW p \in DelaySetting, NEW d \in CInt
       PROVE  AccountReconnectDelay(p, d) \in CInt /\ AccountReconnectDelay(p, d) <= p.max
    OBVIOUS
  <1>1. p.start \in CInt /\ p.step \in CInt /\ p.max \in 1 .. IntMax
        /\ p.op \in {"constant", "+", "*"} /\ IntMax \in Nat
    BY IntMaxAssumption DEF DelaySetting
  <1>2. ToInt(d + p.step) \in CInt
    BY <1>1, ToIntType DEF CInt
  <1>3. ToInt(d * p.step) \in CInt
    <2>1. d * p.step \in Int
      BY <1>1 DEF CInt
    <2>. QED  BY <2>1, ToIntType
  <1>4. Grow(p, d) \in CInt
    <2>1. CASE d = 0
      BY <2>1, <1>1 DEF Grow, CInt
    <2>2. CASE d # 0 /\ p.op = "+"
      BY <2>2, <1>2 DEF Grow
    <2>3. CASE d # 0 /\ p.op = "*"
      BY <2>3, <1>3 DEF Grow
    <2>4. CASE d # 0 /\ p.op = "constant"
      BY <2>4, <1>1 DEF Grow
    <2>. QED  BY <1>1, <2>1, <2>2, <2>3, <2>4
  <1>. QED
    BY <1>1, <1>4 DEF AccountReconnectDelay, CInt

-----------------------------------------------------------------------------
(* The inductive invariant *)

\* The four safety invariants hold each other up: a timer belongs to its owner
\* only as long as no account loses its connection, or is deleted, with a
\* handle left, and that needs the connections to have exactly one account.
IInv ==
    /\ TypeOK
    /\ OneAccountPerConnection
    /\ TimersBelongToTheirOwner
    /\ NoReconnectWhileConnected
    /\ OffStaysOff

\* Since no timer is ever armed twice, b_timeout_add() finds an unused id.
LEMMA TimeoutType ==
    ASSUME TypeOK, TimersBelongToTheirOwner
    PROVE  /\ \A a \in Accounts : Timeout("auto_reconnect", a) \in Event
           /\ \A c \in Conns, cb \in {"account_on_timeout", "send_keepalive"} :
                Timeout(cb, c) \in Event
  <1>1. ASSUME NEW a \in Accounts
        PROVE  Timeout("auto_reconnect", a) \in Event
    <2>. DEFINE Ev(i) == [cb |-> "auto_reconnect", arg |-> a, id |-> i]
    <2>1. \A i \in EventIds : Ev(i) \in events => Ev(i) = reconnect[a]
      BY DEF TimersBelongToTheirOwner
    <2>2. \A i, j \in EventIds : i # j => Ev(i) # Ev(j)
      <3>1. \A i \in EventIds : Ev(i).id = i
        OBVIOUS
      <3>. QED  BY <3>1
    <2>3. \E i \in EventIds : Ev(i) \notin events
      BY <2>1, <2>2, ConstantsAssumption
    <2>4. (CHOOSE i \in EventIds : Ev(i) \notin events) \in EventIds
      BY <2>3
    <2>. QED  BY <2>4 DEF Timeout, Event
  <1>2. ASSUME NEW c \in Conns, NEW cb \in {"account_on_timeout", "send_keepalive"}
        PROVE  Timeout(cb, c) \in Event
    <2>. DEFINE Ev(i) == [cb |-> cb, arg |-> c, id |-> i]
    <2>1. \A i \in EventIds : Ev(i) \in events => Ev(i) = keepalive[c]
      BY DEF TimersBelongToTheirOwner
    <2>2. \A i, j \in EventIds : i # j => Ev(i) # Ev(j)
      <3>1. \A i \in EventIds : Ev(i).id = i
        OBVIOUS
      <3>. QED  BY <3>1
    <2>3. \E i \in EventIds : Ev(i) \notin events
      BY <2>1, <2>2, ConstantsAssumption
    <2>4. (CHOOSE i \in EventIds : Ev(i) \notin events) \in EventIds
      BY <2>3
    <2>. QED  BY <2>4 DEF Timeout, Event
  <1>. QED  BY <1>1, <1>2

\* A nested imc_logout() changes nothing: the first call decides.
LEMMA NestedLogoutIsIgnored ==
    \A f, allow, nested : ReconnectAllowed(f, allow, nested) => allow
  BY DEF ReconnectAllowed, MayEnter, MarkLoggingOut

\* imc_logout(), in all the ways it is called, keeps the invariant.
LEMMA LogoutKeepsIInv ==
    ASSUME IInv,
           NEW S, NEW cancel, NEW allow \in BOOLEAN, NEW nested \in BOOLEAN, NEW fired,
           S \subseteq accounts, cancel \subseteq accounts,
           \A a \in S : accIc[a] # Null,
           \A a \in cancel : accIc[a] # Null => a \in S,
           fired \subseteq {keepalive[accIc[a]] : a \in S},
           ImcLogout(S, cancel, allow, nested, fired),
           accounts' = accounts \/ (accounts' = {} /\ cancel = accounts),
           UNCHANGED <<autoReconnect, delaySetting>>
    PROVE  IInv'
  <1>. DEFINE C == {accIc[a] : a \in S}
              R == {a \in S \ cancel : Reconnects(a, flags[accIc[a]], allow, nested)}
              T(a) == Timeout("auto_reconnect", a)
  <1>a. TypeOK /\ OneAccountPerConnection /\ TimersBelongToTheirOwner
        /\ NoReconnectWhileConnected /\ OffStaysOff
    BY DEF IInv
  <1>b. /\ connections' = connections \ C
        /\ accIc' = [a \in Accounts |-> IF a \in S THEN Null ELSE accIc[a]]
        /\ flags' = [c \in Conns |-> IF c \in C THEN {} ELSE flags[c]]
        /\ keepalive' = [c \in Conns |-> IF c \in C THEN Null ELSE keepalive[c]]
        /\ delay' = [a \in Accounts |-> IF a \in S
                        THEN DelayAfter(a, flags[accIc[a]], allow, nested) ELSE delay[a]]
        /\ reconnect' = [a \in Accounts |-> IF a \in R THEN T(a)
                            ELSE IF a \in cancel THEN Null ELSE reconnect[a]]
        /\ wanted' = [a \in Accounts |-> wanted[a] /\ (a \in S => allow) /\ a \notin cancel]
    BY DEF ImcLogout, ImcFree
  <1>c. events' = (events \ ({keepalive[accIc[a]] : a \in S} \cup {reconnect[a] : a \in cancel}))
                  \cup {T(a) : a \in R}
    <2>1. events' = (events \ (fired \cup {keepalive[accIc[a]] : a \in S}
                                     \cup {reconnect[a] : a \in cancel}))
                    \cup {T(a) : a \in R}
      BY DEF ImcLogout, LogoutRemoves, CancelReconnect
    <2>. QED  BY <2>1
  <1>d. /\ S \subseteq Accounts /\ cancel \subseteq Accounts
        /\ C \subseteq connections /\ connections \subseteq Conns
        /\ R \subseteq S /\ R \cap cancel = {}
    BY <1>a DEF TypeOK, OneAccountPerConnection
  <1>e. \A a \in Accounts : T(a) \in Event /\ T(a).cb = "auto_reconnect" /\ T(a).arg = a
    BY <1>a, TimeoutType DEF Timeout
  <1>f. R # {} => allow
    BY NestedLogoutIsIgnored DEF Reconnects
  <1>g. Null \notin Event /\ Null \notin Conns
    BY ConstantsAssumption
  <1>h. \A a \in S : accIc[a] \in connections /\ reconnect[a] = Null
    BY <1>a, <1>d DEF OneAccountPerConnection, NoReconnectWhileConnected, Offline
  <1>i. \A c \in connections : \E a \in accounts : accIc[a] = c
    BY <1>a DEF OneAccountPerConnection
  <1>1. TypeOK'
    <2>1. \A a \in Accounts : delay'[a] \in CInt
      <3>. TAKE a \in Accounts
      <3>1. delay[a] \in CInt /\ delaySetting \in DelaySetting
        BY <1>a, ConstantsAssumption DEF TypeOK
      <3>2. AccountReconnectDelay(delaySetting, delay[a]) \in CInt
        BY <3>1, DelayType
      <3>. QED  BY <1>b, <3>1, <3>2 DEF DelayAfter, NewDelay
    <2>2. delay' \in [Accounts -> CInt]
      BY <1>b, <2>1
    <2>3. reconnect' \in [Accounts -> Event \cup {Null}]
      BY <1>a, <1>b, <1>e DEF TypeOK
    <2>4. events' \subseteq Event
      BY <1>a, <1>c, <1>d, <1>e DEF TypeOK
    <2>5. /\ accIc' \in [Accounts -> Conns \cup {Null}]
          /\ connections' \subseteq Conns
          /\ keepalive' \in [Conns -> Event \cup {Null}]
          /\ wanted' \in [Accounts -> BOOLEAN]
      BY <1>a, <1>b DEF TypeOK
    <2>6. flags' \in [Conns -> SUBSET Flags]
      BY <1>a, <1>b DEF TypeOK
    <2>7. accounts' \subseteq Accounts
      BY <1>a DEF TypeOK
    <2>. QED  BY <1>a, <2>2, <2>3, <2>4, <2>5, <2>6, <2>7 DEF TypeOK
  <1>2. \A a \in accounts \ accounts' : accIc'[a] = Null /\ reconnect'[a] = Null
    BY <1>a, <1>b, <1>d DEF TypeOK
  <1>3. OneAccountPerConnection'
    <2>1. \A a \in Accounts : accIc'[a] = IF a \in S THEN Null ELSE accIc[a]
      BY <1>b
    <2>2. \A a, b \in Accounts : accIc'[a] = accIc'[b] /\ accIc'[a] # Null => a = b
      BY <2>1, <1>a DEF OneAccountPerConnection
    <2>3. \A a \in Accounts \ accounts' : accIc'[a] = Null
      BY <2>1, <1>2, <1>a DEF OneAccountPerConnection
    <2>4. \A a \in accounts : accIc'[a] # Null => a \in accounts'
      BY <1>2
    <2>5. connections' = {accIc'[a] : a \in accounts'} \ {Null}
      <3>1. ASSUME NEW c \in connections' PROVE c \in {accIc'[a] : a \in accounts'} \ {Null}
        <4>1. PICK a \in accounts : accIc[a] = c
          BY <1>b, <1>i
        <4>2. c # Null /\ a \notin S /\ a \in Accounts
          BY <4>1, <1>a, <1>b, <1>d, <1>g DEF TypeOK
        <4>. QED  BY <4>1, <4>2, <2>1, <2>4
      <3>2. ASSUME NEW a \in accounts', accIc'[a] # Null PROVE accIc'[a] \in connections'
        <4>1. a \in accounts /\ a \in Accounts /\ a \notin S /\ accIc'[a] = accIc[a]
          BY <3>2, <2>1, <1>a DEF TypeOK
        <4>2. accIc[a] \in connections
          BY <4>1, <3>2, <1>a DEF OneAccountPerConnection
        <4>3. accIc[a] \notin C
          BY <4>1, <1>d, <3>2, <1>a DEF OneAccountPerConnection
        <4>. QED  BY <4>1, <4>2, <4>3, <1>b
      <3>. QED  BY <3>1, <3>2
    <2>. QED  BY <2>2, <2>3, <2>5 DEF OneAccountPerConnection
  <1>4. NoReconnectWhileConnected'
    <2>. SUFFICES ASSUME NEW a \in Accounts, reconnect'[a] # Null PROVE Offline(a)'
      BY DEF NoReconnectWhileConnected
    <2>1. a \in R \/ (a \notin cancel /\ reconnect[a] # Null)
      BY <1>b
    <2>2. a \in accounts
      BY <2>1, <1>a DEF NoReconnectWhileConnected, Offline
    <2>3. accIc'[a] = Null
      BY <2>1, <1>a, <1>b DEF NoReconnectWhileConnected, Offline
    <2>. QED  BY <2>2, <2>3, <1>2, <2>1, <1>d DEF Offline
  <1>5. OffStaysOff'
    <2>. SUFFICES ASSUME NEW a \in Accounts, ~wanted'[a] PROVE accIc'[a] = Null /\ reconnect'[a] = Null
      BY DEF OffStaysOff
    <2>1. CASE ~wanted[a]
      BY <2>1, <1>a, <1>b, <1>d, <1>h DEF OffStaysOff
    <2>2. CASE a \in S /\ ~allow
      BY <2>2, <1>b, <1>f, <1>h
    <2>3. CASE a \in cancel
      BY <2>3, <1>b, <1>d
    <2>. QED  BY <2>1, <2>2, <2>3, <1>a, <1>b DEF TypeOK
  <1>6. TimersBelongToTheirOwner'
    <2>1. ASSUME NEW e \in events'
          PROVE  \/ e.cb = "auto_reconnect" /\ e.arg \in accounts' /\ reconnect'[e.arg] = e
                 \/ e.cb # "auto_reconnect" /\ e.arg \in connections' /\ keepalive'[e.arg] = e
      <3>1. CASE e \in {T(a) : a \in R}
        <4>1. PICK a \in R : e = T(a)
          BY <3>1
        <4>2. a \in accounts' /\ a \in Accounts
          BY <1>d
        <4>. QED  BY <4>1, <4>2, <1>b, <1>e
      <3>2. CASE e \in events /\ e \notin {keepalive[accIc[a]] : a \in S}
                 /\ e \notin {reconnect[a] : a \in cancel}
        <4>1. CASE e.cb = "auto_reconnect"
          <5>1. e.arg \in accounts /\ reconnect[e.arg] = e /\ e # Null
            BY <4>1, <3>2, <1>a, <1>g DEF TimersBelongToTheirOwner, TypeOK
          <5>2. e.arg \notin cancel /\ e.arg \notin S /\ e.arg \in Accounts
            BY <5>1, <3>2, <1>h, <1>a DEF TypeOK
          <5>3. e.arg \in accounts' /\ reconnect'[e.arg] = reconnect[e.arg]
            BY <5>1, <5>2, <1>b, <1>d
          <5>. QED  BY <4>1, <5>1, <5>3
        <4>2. CASE e.cb # "auto_reconnect"
          <5>1. e.arg \in connections /\ keepalive[e.arg] = e /\ e.arg \in Conns
            BY <4>2, <3>2, <1>a DEF TimersBelongToTheirOwner, TypeOK
          <5>2. e.arg \notin C
            BY <5>1, <3>2
          <5>. QED  BY <4>2, <5>1, <5>2, <1>b
        <4>. QED  BY <4>1, <4>2
      <3>. QED  BY <3>1, <3>2, <1>c
    <2>2. ASSUME NEW a \in Accounts, reconnect'[a] # Null
          PROVE  reconnect'[a] \in events' /\ reconnect'[a].cb = "auto_reconnect" /\ reconnect'[a].arg = a
      <3>1. CASE a \in R
        BY <3>1, <1>b, <1>c, <1>e
      <3>2. CASE a \notin R
        <4>1. a \notin cancel /\ reconnect'[a] = reconnect[a] /\ reconnect[a] # Null
          BY <3>2, <2>2, <1>b
        <4>2. reconnect[a] \in events /\ reconnect[a].cb = "auto_reconnect" /\ reconnect[a].arg = a
          BY <4>1, <1>a DEF TimersBelongToTheirOwner
        <4>3. \A b \in S : keepalive[accIc[b]] # reconnect[a]
          BY <4>1, <4>2, <1>a, <1>d DEF TimersBelongToTheirOwner
        <4>4. \A b \in cancel : reconnect[b] # reconnect[a]
          BY <4>1, <4>2, <1>a, <1>d DEF TimersBelongToTheirOwner
        <4>. QED  BY <4>1, <4>2, <4>3, <4>4, <1>c
      <3>. QED  BY <3>1, <3>2
    <2>3. ASSUME NEW c \in Conns, keepalive'[c] # Null
          PROVE  keepalive'[c] \in events' /\ keepalive'[c].cb # "auto_reconnect" /\ keepalive'[c].arg = c
      <3>1. c \notin C /\ keepalive'[c] = keepalive[c] /\ keepalive[c] # Null
        BY <2>3, <1>b
      <3>2. keepalive[c] \in events /\ keepalive[c].cb # "auto_reconnect" /\ keepalive[c].arg = c
        BY <3>1, <1>a DEF TimersBelongToTheirOwner
      <3>3. \A b \in S : keepalive[accIc[b]] # keepalive[c]
        BY <3>1, <3>2, <1>a, <1>d DEF TimersBelongToTheirOwner
      <3>4. \A b \in cancel : reconnect[b] # keepalive[c]
        BY <3>1, <3>2, <1>a, <1>d DEF TimersBelongToTheirOwner
      <3>. QED  BY <3>1, <3>2, <3>3, <3>4, <1>c
    <2>. QED  BY <2>1, <2>2, <2>3 DEF TimersBelongToTheirOwner
  <1>. QED
    BY <1>1, <1>3, <1>4, <1>5, <1>6 DEF IInv

\* account_on() keeps the invariant, if no protocol module calls
\* imcb_connected() before its login() returns.
LEMMA AccountOnKeepsIInv ==
    ASSUME IInv, "connected" \notin LoginOutcomes,
           NEW S, NEW removed, NEW user \in BOOLEAN,
           S \subseteq accounts, \A a \in S : Offline(a) /\ (user \/ wanted[a]),
           removed = {reconnect[a] : a \in S},
           AccountOn(S, removed, user)
    PROVE  IInv'
  <1>a. TypeOK /\ OneAccountPerConnection /\ TimersBelongToTheirOwner
        /\ NoReconnectWhileConnected /\ OffStaysOff
    BY DEF IInv
  <1>. DEFINE T(a) == Timeout("auto_reconnect", a)
              L(c) == Timeout("account_on_timeout", c)
  <1>b. PICK out \in [S -> LoginOutcomes], new \in Injection(S, Conns \ connections),
             nested \in BOOLEAN : AccountOn(S, removed, user)!(out, new, nested)
    BY DEF AccountOn
  <1>. DEFINE up == {a \in S : out[a] \in {"connecting", "slow", "connected"}}
              failed == {a \in S : out[a] = "failed"}
              retried == {a \in failed : Reconnects(a, {}, TRUE, nested)}
              timed == {a \in up : Timed(out[a])}
              started == {new[a] : a \in up}
  <1>c. /\ new \in [S -> Conns \ connections]
        /\ \A a, b \in S : new[a] = new[b] => a = b
    BY <1>b DEF Injection, IsInjective
  <1>d. /\ S \subseteq Accounts /\ up \subseteq S /\ retried \subseteq S /\ timed \subseteq up
        /\ started \subseteq Conns /\ started \cap connections = {}
        /\ retried \cap up = {} /\ connections \subseteq Conns
        /\ \A a \in S : out[a] # "connected"
    <2>1. S \subseteq Accounts /\ connections \subseteq Conns
      BY <1>a DEF TypeOK
    <2>2. up \subseteq S /\ retried \subseteq S /\ timed \subseteq up /\ retried \cap up = {}
      OBVIOUS
    <2>3. \A a \in up : new[a] \in Conns \ connections
      BY <1>c, <2>2
    <2>4. \A a \in S : out[a] # "connected"
      BY <1>b
    <2>. QED  BY <2>1, <2>2, <2>3, <2>4
  <1>e. /\ \A a \in Accounts : T(a) \in Event /\ T(a).cb = "auto_reconnect" /\ T(a).arg = a
        /\ \A c \in Conns : L(c) \in Event /\ L(c).cb = "account_on_timeout" /\ L(c).arg = c
    BY <1>a, TimeoutType DEF Timeout
  <1>f. \A a \in S : (CHOOSE x \in S : new[x] = new[a]) = a
    BY <1>c
  <1>g. Null \notin Event /\ Null \notin Conns
    BY ConstantsAssumption
  <1>h. /\ accounts' = accounts /\ autoReconnect' = autoReconnect /\ delaySetting' = delaySetting
        /\ connections' = connections \cup started
        /\ accIc' = [a \in Accounts |-> IF a \in up THEN new[a] ELSE accIc[a]]
        /\ reconnect' = [a \in Accounts |-> IF a \in retried THEN T(a)
                            ELSE IF a \in S THEN Null ELSE reconnect[a]]
        /\ wanted' = [a \in Accounts |-> IF a \in S THEN (user \/ wanted[a]) /\ out[a] # "refused"
                                         ELSE wanted[a]]
        /\ delay' = [a \in Accounts |-> IF a \in failed THEN DelayAfter(a, {}, TRUE, nested)
                                        ELSE delay[a]]
    BY <1>b, <1>d DEF ClearHandles
  <1>i. events' = (events \ {reconnect[a] : a \in S}) \cup {L(new[a]) : a \in timed}
                  \cup {T(a) : a \in retried}
    <2>1. {a \in S : out[a] = "connected"} = {}
      BY <1>d
    <2>2. events' = (events \ removed) \cup {L(new[a]) : a \in timed}
            \cup {Timeout("send_keepalive", new[a]) : a \in {x \in S : out[x] = "connected"}}
            \cup {T(a) : a \in retried}
      BY <1>b DEF LoginTimer
    <2>. QED  BY <2>1, <2>2
  <1>j. /\ \A c \in Conns \ started : keepalive'[c] = keepalive[c] /\ flags'[c] = flags[c]
        /\ \A a \in up : keepalive'[new[a]] = IF a \in timed THEN L(new[a]) ELSE keepalive[new[a]]
        /\ \A a \in up : flags'[new[a]] = IF out[a] = "slow" THEN {"SLOW_LOGIN"} ELSE {}
        /\ DOMAIN keepalive' = Conns /\ DOMAIN flags' = Conns
        /\ keepalive' = [c \in Conns |-> keepalive'[c]] /\ flags' = [c \in Conns |-> flags'[c]]
    <2>. DEFINE For(c) == CHOOSE x \in S : new[x] = c
                Out(c) == out[For(c)]
    <2>1. /\ flags' = [c \in Conns |->
                          IF c \notin started THEN flags[c]
                          ELSE IF Out(c) = "slow" THEN {"SLOW_LOGIN"}
                          ELSE IF Out(c) = "connected" THEN {"LOGGED_IN"} ELSE {}]
          /\ keepalive' = [c \in Conns |->
                              IF c \in started /\ Timed(Out(c)) THEN L(c) ELSE keepalive[c]]
      BY <1>b DEF LoginTimer
    <2>2. ASSUME NEW a \in up
          PROVE  new[a] \in Conns /\ new[a] \in started /\ For(new[a]) = a /\ Out(new[a]) = out[a]
                 /\ out[a] # "connected"
      <3>1. a \in S
        BY <1>d
      <3>2. For(new[a]) = a
        BY <1>f, <3>1
      <3>. QED  BY <1>c, <1>d, <3>1, <3>2
    <2>3. \A a \in up : Timed(out[a]) <=> a \in timed
      OBVIOUS
    <2>. HIDE DEF For, Out, up, timed, started, L
    <2>4. \A a \in up : /\ keepalive'[new[a]] = IF a \in timed THEN L(new[a]) ELSE keepalive[new[a]]
                        /\ flags'[new[a]] = IF out[a] = "slow" THEN {"SLOW_LOGIN"} ELSE {}
      BY <2>1, <2>2, <2>3
    <2>. QED  BY <2>1, <2>4
  <1>l. /\ \A c \in started : \E a \in up : c = new[a]
        /\ \A a \in up : new[a] \in started
        /\ \A a \in S : a \in up \/ out[a] \in {"refused", "failed"}
        /\ \A a \in retried \cup failed : out[a] = "failed"
        /\ \A a \in up : out[a] \notin {"refused", "failed"}
    <2>1. \A a \in S : out[a] \in AllOutcomes
      BY <1>b, ConstantsAssumption
    <2>2. \A a \in S : a \in up \/ out[a] \in {"refused", "failed"}
      BY <2>1 DEF AllOutcomes
    <2>3. \A c \in started : \E a \in up : c = new[a]
      OBVIOUS
    <2>4. \A a \in up : new[a] \in started
      OBVIOUS
    <2>5. \A a \in retried \cup failed : out[a] = "failed"
      OBVIOUS
    <2>6. \A a \in up : out[a] \notin {"refused", "failed"}
      OBVIOUS
    <2>. QED  BY <2>2, <2>3, <2>4, <2>5, <2>6
  <1>. HIDE DEF T, L, retried, started, timed, up, failed
  <1>k. \A c \in Conns \ connections : keepalive[c] = Null
    BY <1>a DEF TimersBelongToTheirOwner
  <1>1. TypeOK'
    <2>1. \A a \in Accounts : delay'[a] \in CInt
      <3>. TAKE a \in Accounts
      <3>1. delay[a] \in CInt /\ delaySetting \in DelaySetting
        BY <1>a, ConstantsAssumption DEF TypeOK
      <3>2. AccountReconnectDelay(delaySetting, delay[a]) \in CInt
        BY <3>1, DelayType
      <3>. QED  BY <1>h, <3>1, <3>2 DEF DelayAfter, NewDelay
    <2>2. delay' \in [Accounts -> CInt]
      BY <1>h, <2>1
    <2>3. reconnect' \in [Accounts -> Event \cup {Null}]
      BY <1>a, <1>d, <1>e, <1>h DEF TypeOK
    <2>4. events' \subseteq Event
      BY <1>a, <1>c, <1>d, <1>e, <1>i DEF TypeOK
    <2>5. /\ accIc' \in [Accounts -> Conns \cup {Null}]
          /\ connections' \subseteq Conns
          /\ wanted' \in [Accounts -> BOOLEAN]
      BY <1>a, <1>c, <1>d, <1>h DEF TypeOK
    <2>6. keepalive' \in [Conns -> Event \cup {Null}]
      <3>1. \A c \in Conns : keepalive'[c] \in Event \cup {Null}
        BY <1>a, <1>c, <1>d, <1>e, <1>j, <1>l DEF TypeOK
      <3>. QED  BY <3>1, <1>j
    <2>7. flags' \in [Conns -> SUBSET Flags]
      <3>1. \A c \in Conns : flags'[c] \in SUBSET Flags
        BY <1>a, <1>c, <1>d, <1>j, <1>l DEF TypeOK, Flags
      <3>. QED  BY <3>1, <1>j
    <2>. QED  BY <1>a, <1>h, <2>2, <2>3, <2>4, <2>5, <2>6, <2>7 DEF TypeOK
  <1>2. OneAccountPerConnection'
    <2>1. \A a \in up : accIc[a] = Null /\ a \in accounts /\ a \in Accounts
      BY <1>d DEF Offline
    <2>2. \A a \in Accounts : accIc[a] # Null => accIc[a] \in connections
      BY <1>a DEF OneAccountPerConnection
    <2>3. \A a, b \in Accounts : accIc'[a] = accIc'[b] /\ accIc'[a] # Null => a = b
      BY <1>a, <1>c, <1>d, <1>h, <2>2 DEF OneAccountPerConnection
    <2>4. \A a \in Accounts \ accounts' : accIc'[a] = Null
      BY <1>a, <1>h, <2>1 DEF OneAccountPerConnection
    <2>5. connections' = {accIc'[a] : a \in accounts'} \ {Null}
      <3>1. ASSUME NEW c \in connections' PROVE c \in {accIc'[a] : a \in accounts'} \ {Null}
        <4>1. CASE c \in started
          BY <4>1, <1>d, <1>g, <1>h, <1>l, <2>1
        <4>2. CASE c \in connections
          <5>1. PICK a \in accounts : accIc[a] = c
            BY <4>2, <1>a DEF OneAccountPerConnection
          <5>2. a \in Accounts /\ c # Null /\ a \notin up
            BY <4>2, <5>1, <1>a, <1>d, <1>g, <2>1 DEF TypeOK
          <5>. QED  BY <5>1, <5>2, <1>h
        <4>. QED  BY <4>1, <4>2, <1>h
      <3>2. ASSUME NEW a \in accounts', accIc'[a] # Null PROVE accIc'[a] \in connections'
        BY <3>2, <1>a, <1>h, <1>l, <2>2 DEF TypeOK
      <3>. QED  BY <3>1, <3>2
    <2>. QED  BY <2>3, <2>4, <2>5 DEF OneAccountPerConnection
  <1>3. NoReconnectWhileConnected'
    BY <1>a, <1>d, <1>h DEF NoReconnectWhileConnected, Offline
  <1>4. OffStaysOff'
    <2>. SUFFICES ASSUME NEW a \in Accounts, ~wanted'[a]
                  PROVE  accIc'[a] = Null /\ reconnect'[a] = Null
      BY DEF OffStaysOff
    <2>1. CASE a \notin S
      BY <2>1, <1>a, <1>d, <1>h DEF OffStaysOff
    <2>2. CASE a \in S
      <3>1. out[a] = "refused" /\ accIc[a] = Null
        BY <2>2, <1>h DEF Offline
      <3>2. a \notin up /\ a \notin retried
        BY <3>1, <1>l
      <3>. QED  BY <2>2, <3>1, <3>2, <1>h
    <2>. QED  BY <2>1, <2>2
  <1>5. TimersBelongToTheirOwner'
    <2>1. ASSUME NEW e \in events'
          PROVE  \/ e.cb = "auto_reconnect" /\ e.arg \in accounts' /\ reconnect'[e.arg] = e
                 \/ e.cb # "auto_reconnect" /\ e.arg \in connections' /\ keepalive'[e.arg] = e
      <3>1. CASE e \in {T(a) : a \in retried}
        BY <3>1, <1>d, <1>e, <1>h
      <3>2. CASE e \in {L(new[a]) : a \in timed}
        <4>1. PICK a \in timed : e = L(new[a])
          BY <3>2
        <4>2. new[a] \in Conns /\ new[a] \in started
          BY <1>c, <1>d, <1>l, <4>1
        <4>. QED  BY <4>1, <4>2, <1>d, <1>e, <1>h, <1>j
      <3>3. CASE e \in events /\ e \notin {reconnect[a] : a \in S}
        <4>1. CASE e.cb = "auto_reconnect"
          BY <3>3, <4>1, <1>a, <1>d, <1>h DEF TimersBelongToTheirOwner, TypeOK
        <4>2. CASE e.cb # "auto_reconnect"
          BY <3>3, <4>2, <1>a, <1>d, <1>h, <1>j DEF TimersBelongToTheirOwner
        <4>. QED  BY <4>1, <4>2
      <3>. QED  BY <3>1, <3>2, <3>3, <1>i
    <2>2. ASSUME NEW a \in Accounts, reconnect'[a] # Null
          PROVE  reconnect'[a] \in events' /\ reconnect'[a].cb = "auto_reconnect" /\ reconnect'[a].arg = a
      <3>1. CASE a \in retried
        BY <3>1, <1>e, <1>h, <1>i
      <3>2. CASE a \notin retried
        <4>1. a \notin S /\ reconnect'[a] = reconnect[a] /\ reconnect[a] # Null
          BY <3>2, <2>2, <1>h
        <4>2. reconnect[a] \in events /\ reconnect[a].cb = "auto_reconnect" /\ reconnect[a].arg = a
          BY <4>1, <1>a DEF TimersBelongToTheirOwner
        <4>3. \A b \in S : reconnect[b] # reconnect[a]
          BY <4>1, <4>2, <1>a, <1>d DEF TimersBelongToTheirOwner
        <4>. QED  BY <4>1, <4>2, <4>3, <1>i
      <3>. QED  BY <3>1, <3>2
    <2>3. ASSUME NEW c \in Conns, keepalive'[c] # Null
          PROVE  keepalive'[c] \in events' /\ keepalive'[c].cb # "auto_reconnect" /\ keepalive'[c].arg = c
      <3>1. CASE c \in started
        <4>1. PICK a \in up : c = new[a]
          BY <3>1, <1>l
        <4>2. a \in timed /\ keepalive'[c] = L(c)
          BY <4>1, <2>3, <1>c, <1>d, <1>j, <1>k
        <4>. QED  BY <4>1, <4>2, <1>e, <1>i
      <3>2. CASE c \notin started
        <4>1. keepalive'[c] = keepalive[c] /\ keepalive[c] # Null
          BY <3>2, <2>3, <1>j
        <4>2. keepalive[c] \in events /\ keepalive[c].cb # "auto_reconnect" /\ keepalive[c].arg = c
          BY <4>1, <1>a DEF TimersBelongToTheirOwner
        <4>3. \A b \in S : reconnect[b] # keepalive[c]
          BY <4>1, <4>2, <1>a, <1>d DEF TimersBelongToTheirOwner
        <4>. QED  BY <4>1, <4>2, <4>3, <1>i
      <3>. QED  BY <3>1, <3>2
    <2>. QED  BY <2>1, <2>2, <2>3 DEF TimersBelongToTheirOwner
  <1>. QED
    BY <1>1, <1>2, <1>3, <1>4, <1>5 DEF IInv

\* Commands that only change the account list or a setting.
LEMMA SettingsKeepIInv ==
    ASSUME IInv, NEW a \in Accounts,
           AccountAdd(a) \/ AccountDel(a) \/ SetAutoReconnect(a) \/ SetDelaySetting
    PROVE  IInv'
  <1>a. TypeOK /\ OneAccountPerConnection /\ TimersBelongToTheirOwner
        /\ NoReconnectWhileConnected /\ OffStaysOff
    BY DEF IInv
  <1>1. CASE AccountAdd(a)
    <2>1. TypeOK' /\ OffStaysOff'
      BY <1>1, <1>a, IntMaxAssumption DEF AccountAdd, TypeOK, CInt, OffStaysOff
    <2>2. OneAccountPerConnection'
      BY <1>1, <1>a DEF AccountAdd, OneAccountPerConnection
    <2>3. TimersBelongToTheirOwner'
      BY <1>1, <1>a DEF AccountAdd, TimersBelongToTheirOwner
    <2>4. NoReconnectWhileConnected'
      BY <1>1, <1>a DEF AccountAdd, NoReconnectWhileConnected, Offline
    <2>. QED  BY <2>1, <2>2, <2>3, <2>4 DEF IInv
  <1>2. CASE AccountDel(a)
    <2>1. /\ a \in accounts /\ accIc[a] = Null /\ accounts' = accounts \ {a}
          /\ events' = events \ {reconnect[a]} /\ reconnect' = [reconnect EXCEPT ![a] = Null]
          /\ wanted' = [wanted EXCEPT ![a] = FALSE]
          /\ UNCHANGED <<accIc, delay, autoReconnect, delaySetting, connections, flags, keepalive>>
      BY <1>2 DEF AccountDel, Offline, CancelReconnect
    <2>2. TypeOK'
      BY <2>1, <1>a DEF TypeOK
    <2>3. OneAccountPerConnection'
      BY <2>1, <1>a DEF OneAccountPerConnection
    <2>4. NoReconnectWhileConnected' /\ OffStaysOff'
      BY <2>1, <1>a DEF NoReconnectWhileConnected, OffStaysOff, Offline, TypeOK
    <2>5. TimersBelongToTheirOwner'
      <3>1. \A e \in events' : e \in events /\ e # reconnect[a]
        BY <2>1
      <3>2. \A x \in Accounts : reconnect'[x] = IF x = a THEN Null ELSE reconnect[x]
        BY <2>1, <1>a DEF TypeOK
      <3>3. \A x \in Accounts : reconnect'[x] # Null => reconnect[x] # reconnect[a]
        BY <3>2, <1>a DEF TimersBelongToTheirOwner
      <3>4. \A c \in Conns : keepalive[c] # Null => keepalive[c] # reconnect[a]
        BY <1>a DEF TimersBelongToTheirOwner
      <3>5. \A e \in events' : e.cb = "auto_reconnect" => e.arg # a
        BY <3>1, <1>a DEF TimersBelongToTheirOwner
      <3>6. events' = events \ {reconnect[a]} /\ keepalive' = keepalive
            /\ connections' = connections /\ accounts' = accounts \ {a}
        BY <2>1
      <3>7. accounts \subseteq Accounts
        BY <1>a DEF TypeOK
      <3>. QED  BY <3>1, <3>2, <3>3, <3>4, <3>5, <3>6, <3>7, <1>a DEF TimersBelongToTheirOwner
    <2>. QED  BY <2>2, <2>3, <2>4, <2>5 DEF IInv
  <1>3. CASE SetAutoReconnect(a)
    BY <1>3, <1>a DEF SetAutoReconnect, IInv, TypeOK, OneAccountPerConnection,
       TimersBelongToTheirOwner, NoReconnectWhileConnected, OffStaysOff, Offline
  <1>4. CASE SetDelaySetting
    BY <1>4, <1>a DEF SetDelaySetting, IInv, TypeOK, OneAccountPerConnection,
       TimersBelongToTheirOwner, NoReconnectWhileConnected, OffStaysOff, Offline
  <1>. QED  BY <1>1, <1>2, <1>3, <1>4

\* imcb_connected() replaces the login timer by the keepalive timer.
LEMMA ConnectedKeepsIInv ==
    ASSUME IInv, NEW a \in Accounts, ImcbConnected(a)
    PROVE  IInv'
  <1>. DEFINE c == accIc[a]
              K == Timeout("send_keepalive", c)
  <1>a. TypeOK /\ OneAccountPerConnection /\ TimersBelongToTheirOwner
        /\ NoReconnectWhileConnected /\ OffStaysOff
    BY DEF IInv
  <1>1. /\ a \in accounts /\ c # Null
        /\ events' = (events \ {keepalive[c]}) \cup {K}
        /\ keepalive' = [keepalive EXCEPT ![c] = K]
        /\ flags' = [flags EXCEPT ![c] = @ \cup {"LOGGED_IN"}]
        /\ delay' = [delay EXCEPT ![a] = 0]
        /\ UNCHANGED <<accounts, accIc, reconnect, autoReconnect, delaySetting,
                       connections, wanted>>
    BY DEF ImcbConnected, Connected, ConnectedRemoves
  <1>2. c \in Conns /\ c \in connections
    BY <1>1, <1>a DEF TypeOK, OneAccountPerConnection
  <1>3. K \in Event /\ K.cb = "send_keepalive" /\ K.arg = c
    BY <1>2, <1>a, TimeoutType DEF Timeout
  <1>. HIDE DEF c, K
  <1>4. TypeOK'
    BY <1>1, <1>2, <1>3, <1>a, IntMaxAssumption DEF TypeOK, CInt, Flags
  <1>5. OneAccountPerConnection' /\ NoReconnectWhileConnected' /\ OffStaysOff'
    BY <1>1, <1>a DEF OneAccountPerConnection, NoReconnectWhileConnected, OffStaysOff, Offline
  <1>6. TimersBelongToTheirOwner'
    <2>1. \A d \in Conns : keepalive'[d] = IF d = c THEN K ELSE keepalive[d]
      BY <1>1, <1>a DEF TypeOK
    <2>2. \A e \in events' : e = K \/ (e \in events /\ e # keepalive[c])
      BY <1>1
    <2>3. \A d \in Conns : d # c /\ keepalive[d] # Null => keepalive[d] # keepalive[c]
      BY <1>2, <1>a DEF TimersBelongToTheirOwner
    <2>4. \A x \in Accounts : reconnect[x] # Null => reconnect[x] # keepalive[c]
      BY <1>2, <1>a DEF TimersBelongToTheirOwner
    <2>5. \A e \in events : e # keepalive[c] => e.cb = "auto_reconnect" \/ e.arg # c
      BY <1>a DEF TimersBelongToTheirOwner
    <2>6. connections \subseteq Conns
      BY <1>a DEF TypeOK
    <2>7. \A e \in events' :
             \/ e.cb = "auto_reconnect" /\ e.arg \in accounts' /\ reconnect'[e.arg] = e
             \/ e.cb # "auto_reconnect" /\ e.arg \in connections' /\ keepalive'[e.arg] = e
      BY <2>1, <2>2, <2>5, <2>6, <1>1, <1>2, <1>3, <1>a DEF TimersBelongToTheirOwner
    <2>8. \A x \in Accounts :
             reconnect'[x] # Null => /\ reconnect'[x] \in events'
                                    /\ reconnect'[x].cb = "auto_reconnect" /\ reconnect'[x].arg = x
      BY <2>4, <1>1, <1>a DEF TimersBelongToTheirOwner
    <2>9. \A d \in Conns :
             keepalive'[d] # Null => /\ keepalive'[d] \in events'
                                    /\ keepalive'[d].cb # "auto_reconnect" /\ keepalive'[d].arg = d
      BY <2>1, <2>3, <1>1, <1>3, <1>a DEF TimersBelongToTheirOwner
    <2>. QED  BY <2>7, <2>8, <2>9 DEF TimersBelongToTheirOwner
  <1>. QED  BY <1>4, <1>5, <1>6 DEF IInv

-----------------------------------------------------------------------------
(* The theorems *)

LEMMA InitIInv == Init => IInv
  <1>. SUFFICES ASSUME Init PROVE IInv
    OBVIOUS
  <1>1. TypeOK
    BY IntMaxAssumption DEF Init, TypeOK, CInt
  <1>2. OneAccountPerConnection
    BY DEF Init, OneAccountPerConnection
  <1>3. TimersBelongToTheirOwner /\ NoReconnectWhileConnected /\ OffStaysOff
    BY DEF Init, TimersBelongToTheirOwner, NoReconnectWhileConnected, OffStaysOff
  <1>. QED  BY <1>1, <1>2, <1>3 DEF IInv

LEMMA NextIInv ==
    ASSUME "connected" \notin LoginOutcomes, IInv, [Next]_vars
    PROVE  IInv'
  <1>a. TypeOK /\ OneAccountPerConnection /\ TimersBelongToTheirOwner
        /\ NoReconnectWhileConnected /\ OffStaysOff
    BY DEF IInv
  <1>1. CASE \E a \in Accounts : AccountAdd(a) \/ AccountDel(a) \/ SetAutoReconnect(a)
    BY <1>1, SettingsKeepIInv
  <1>2. CASE CmdAccountOn
    <2>1. PICK S \in SUBSET {a \in accounts : Offline(a)} :
              AccountOn(S, CancelReconnect(S), TRUE)
      BY <1>2 DEF CmdAccountOn
    <2>2. PICK removed : removed = {reconnect[a] : a \in S}
      OBVIOUS
    <2>3. AccountOn(S, removed, TRUE)
      BY <2>1, <2>2 DEF CancelReconnect
    <2>4. S \subseteq accounts /\ \A a \in S : Offline(a)
      BY <2>1
    <2>. QED  BY <2>2, <2>3, <2>4, AccountOnKeepsIInv
  <1>3. CASE CmdAccountOff
    <2>1. PICK S \in {accounts} \cup {{a} : a \in accounts}, nested \in BOOLEAN :
              /\ ImcLogout({a \in S : accIc[a] # Null}, S, FALSE, nested, {})
              /\ UNCHANGED <<accounts, autoReconnect, delaySetting>>
      BY <1>3 DEF CmdAccountOff
    <2>2. S \subseteq accounts
      BY <2>1
    <2>3. PICK C : C = {a \in S : accIc[a] # Null}
      OBVIOUS
    <2>4. C \subseteq accounts /\ \A a \in C : accIc[a] # Null
      BY <2>2, <2>3
    <2>5. \A a \in S : accIc[a] # Null => a \in C
      BY <2>3
    <2>6. PICK allow \in BOOLEAN, fired \in {{}} : allow = FALSE
      OBVIOUS
    <2>7. ImcLogout(C, S, allow, nested, fired) /\ fired \subseteq {keepalive[accIc[a]] : a \in C}
      BY <2>1, <2>3, <2>6
    <2>8. accounts' = accounts /\ UNCHANGED <<autoReconnect, delaySetting>>
      BY <2>1
    <2>. QED  BY <2>2, <2>4, <2>5, <2>7, <2>8, LogoutKeepsIInv
  <1>4. CASE SetDelaySetting
    <2>1. CASE Accounts = {}
      BY <1>4, <1>a DEF SetDelaySetting, IInv, TypeOK, OneAccountPerConnection,
         TimersBelongToTheirOwner, NoReconnectWhileConnected, OffStaysOff, Offline
    <2>2. CASE Accounts # {}
      BY <2>2, <1>4, SettingsKeepIInv
    <2>. QED  BY <2>1, <2>2
  <1>5. CASE BeeFree
    <2>1. PICK nested \in BOOLEAN :
              ImcLogout({a \in accounts : accIc[a] # Null}, accounts, FALSE, nested, {})
      BY <1>5 DEF BeeFree
    <2>2. accounts' = {} /\ UNCHANGED <<autoReconnect, delaySetting>>
      BY <1>5 DEF BeeFree
    <2>3. PICK C : C = {a \in accounts : accIc[a] # Null}
      OBVIOUS
    <2>4. /\ C \subseteq accounts /\ \A a \in C : accIc[a] # Null
          /\ \A a \in accounts : accIc[a] # Null => a \in C
      BY <2>3
    <2>5. PICK A : A = accounts
      OBVIOUS
    <2>6. PICK allow \in BOOLEAN, fired \in {{}} : allow = FALSE
      OBVIOUS
    <2>7. /\ ImcLogout(C, A, allow, nested, fired) /\ A \subseteq accounts
          /\ \A a \in A : accIc[a] # Null => a \in C
          /\ fired \subseteq {keepalive[accIc[a]] : a \in C}
      BY <2>1, <2>3, <2>4, <2>5, <2>6
    <2>8. accounts' = {} /\ A = accounts
      BY <2>2, <2>5
    <2>. QED  BY <2>2, <2>4, <2>7, <2>8, LogoutKeepsIInv
  <1>6. ASSUME NEW a \in Accounts, ImcbConnected(a) PROVE IInv'
    BY <1>6, ConnectedKeepsIInv
  <1>7. ASSUME NEW a \in Accounts, ProtocolLogout(a) PROVE IInv'
    <2>1. PICK allow \in BOOLEAN, nested \in BOOLEAN : ImcLogout({a}, {}, allow, nested, {})
      BY <1>7 DEF ProtocolLogout
    <2>2. a \in accounts /\ accIc[a] # Null /\ UNCHANGED <<accounts, autoReconnect, delaySetting>>
      BY <1>7 DEF ProtocolLogout, Connected
    <2>3. {} \subseteq {keepalive[accIc[x]] : x \in {a}}
      OBVIOUS
    <2>4. {a} \subseteq accounts /\ {} \subseteq accounts /\ (\A x \in {a} : accIc[x] # Null)
          /\ (\A x \in {} : accIc[x] # Null => x \in {a})
      BY <2>2
    <2>. QED  BY <2>1, <2>2, <2>3, <2>4, LogoutKeepsIInv
  <1>8. ASSUME NEW a \in Accounts, AccountOnTimeout(a) PROVE IInv'
    <2>1. PICK e \in events, nested \in BOOLEAN :
              /\ e.cb = "account_on_timeout" /\ e.arg = accIc[a]
              /\ ImcLogout({a}, {}, TRUE, nested, {e})
      BY <1>8 DEF AccountOnTimeout
    <2>2. a \in accounts /\ accIc[a] # Null /\ UNCHANGED <<accounts, autoReconnect, delaySetting>>
      BY <1>8 DEF AccountOnTimeout, Connected
    <2>3. keepalive[accIc[a]] = e
      BY <2>1, <1>a DEF TimersBelongToTheirOwner
    <2>4. PICK allow \in BOOLEAN, fired \in {{e}} : allow = TRUE
      OBVIOUS
    <2>5. /\ ImcLogout({a}, {}, allow, nested, fired)
          /\ fired \subseteq {keepalive[accIc[x]] : x \in {a}}
      BY <2>1, <2>3, <2>4
    <2>6. {a} \subseteq accounts /\ {} \subseteq accounts /\ (\A x \in {a} : accIc[x] # Null)
          /\ (\A x \in {} : accIc[x] # Null => x \in {a})
      BY <2>2
    <2>. QED  BY <2>2, <2>6, <2>5, LogoutKeepsIInv
  <1>9. ASSUME NEW a \in Accounts, AutoReconnect(a) PROVE IInv'
    <2>1. PICK e \in events :
              /\ e.cb = "auto_reconnect" /\ e.arg = a
              /\ accIc[a] = Null => AccountOn({a}, {e}, FALSE)
      BY <1>9 DEF AutoReconnect
    <2>2. reconnect[a] = e /\ reconnect[a] # Null
      BY <2>1, <1>a, ConstantsAssumption DEF TimersBelongToTheirOwner, TypeOK
    <2>3. Offline(a) /\ wanted[a]
      BY <2>2, <1>a DEF NoReconnectWhileConnected, OffStaysOff
    <2>4. AccountOn({a}, {e}, FALSE)
      BY <2>1, <2>3 DEF Offline
    <2>5. /\ {a} \subseteq accounts
          /\ \A x \in {a} : Offline(x) /\ (FALSE \/ wanted[x])
          /\ {e} = {reconnect[x] : x \in {a}}
      BY <2>2, <2>3 DEF Offline
    <2>. QED  BY <2>4, <2>5, AccountOnKeepsIInv
  <1>10. CASE UNCHANGED vars
    BY <1>10, <1>a DEF vars, IInv, TypeOK, OneAccountPerConnection,
       TimersBelongToTheirOwner, NoReconnectWhileConnected, OffStaysOff, Offline
  <1>. QED
    BY <1>1, <1>2, <1>3, <1>4, <1>5, <1>6, <1>7, <1>8, <1>9, <1>10 DEF Next, UserCommand

LEMMA AlwaysIInv == ASSUME "connected" \notin LoginOutcomes PROVE Spec => []IInv
  <1>1. Init => IInv
    BY InitIInv
  <1>2. IInv /\ [Next]_vars => IInv'
    BY NextIInv
  <1>. QED  BY <1>1, <1>2, PTL DEF Spec

\* The variables keep their types; above all, b_timeout_add() always returns
\* a handle of its own, and no C int of the back-off leaves its range.
THEOREM TypeCorrect ==
    ASSUME "connected" \notin LoginOutcomes PROVE Spec => []TypeOK
  <1>1. IInv => TypeOK
    BY DEF IInv
  <1>. QED  BY <1>1, AlwaysIInv, PTL

\* imc_free() and imc_logout() always find the one account of a connection,
\* and no account is left with the pointer to a freed one.
THEOREM ConnectionsHaveOneAccount ==
    ASSUME "connected" \notin LoginOutcomes PROVE Spec => []OneAccountPerConnection
  <1>1. IInv => OneAccountPerConnection
    BY DEF IInv
  <1>. QED  BY <1>1, AlwaysIInv, PTL

\* No timer outlives the account or the connection it was armed for, and no
\* handle outlives its timer.
THEOREM NoTimerIsLeftBehind ==
    ASSUME "connected" \notin LoginOutcomes PROVE Spec => []TimersBelongToTheirOwner
  <1>1. IInv => TimersBelongToTheirOwner
    BY DEF IInv
  <1>. QED  BY <1>1, AlwaysIInv, PTL

\* What account_off() says should not happen does not happen.
THEOREM ReconnectsOnlyWhileOffline ==
    ASSUME "connected" \notin LoginOutcomes PROVE Spec => []NoReconnectWhileConnected
  <1>1. IInv => NoReconnectWhileConnected
    BY DEF IInv
  <1>. QED  BY <1>1, AlwaysIInv, PTL

\* Nothing but the user switches on an account that was switched off, however
\* imc_logout() is re-entered on the way.
THEOREM SwitchedOffForGood ==
    ASSUME "connected" \notin LoginOutcomes PROVE Spec => []OffStaysOff
  <1>1. IInv => OffStaysOff
    BY DEF IInv
  <1>. QED  BY <1>1, AlwaysIInv, PTL

-----------------------------------------------------------------------------
(* The back-off *)

\* What the settings the user may choose from must satisfy: none of them makes
\* a delay that any of them can lead to smaller.  "*0" does, and so does a
\* product or a sum that no longer fits an int.
BackoffGrows == \A p, q \in DelaySettings : \A d \in 0 .. q.max : Grow(p, d) >= d

\* Every delay is one that some setting allows.
DelayInv == \A a \in Accounts : \E q \in DelaySettings : delay[a] \in 0 .. q.max

LEMMA DelayGrows ==
    ASSUME BackoffGrows, NEW p \in DelaySettings, NEW q \in DelaySettings, NEW d \in 0 .. q.max
    PROVE  /\ AccountReconnectDelay(p, d) \in 0 .. p.max
           /\ p.max >= d => AccountReconnectDelay(p, d) >= d
  <1>1. p \in DelaySetting /\ q \in DelaySetting
    BY ConstantsAssumption
  <1>2. p.max \in Int /\ p.max >= 1 /\ q.max \in Int /\ q.max <= IntMax /\ IntMax \in Nat
    BY <1>1, IntMaxAssumption DEF DelaySetting
  <1>3. d \in CInt
    BY <1>2 DEF CInt
  <1>4. AccountReconnectDelay(p, d) \in Int /\ AccountReconnectDelay(p, d) <= p.max
    BY <1>1, <1>3, DelayType DEF CInt
  <1>5. Grow(p, d) >= d
    BY DEF BackoffGrows
  <1>6. AccountReconnectDelay(p, d) = p.max \/ AccountReconnectDelay(p, d) = Grow(p, d)
    BY DEF AccountReconnectDelay
  <1>. QED  BY <1>2, <1>4, <1>5, <1>6

\* The three things that can happen to a delay.
DelayStep(a) ==
    \/ delay'[a] = delay[a]
    \/ delay'[a] = AccountReconnectDelay(delaySetting, delay[a])
    \/ /\ delay'[a] = 0
       /\ \/ accIc'[a] # Null /\ "LOGGED_IN" \in flags'[accIc'[a]]
          \/ a \notin accounts

LEMMA LogoutDelay ==
    ASSUME TypeOK, NEW S, NEW cancel, NEW allow, NEW nested, NEW fired,
           ImcLogout(S, cancel, allow, nested, fired)
    PROVE  \A a \in Accounts : DelayStep(a)
  <1>1. delay' = [a \in Accounts |-> IF a \in S
                     THEN DelayAfter(a, flags[accIc[a]], allow, nested) ELSE delay[a]]
    BY DEF ImcLogout
  <1>. QED  BY <1>1 DEF DelayAfter, NewDelay, DelayStep

LEMMA AccountOnDelay ==
    ASSUME TypeOK, "connected" \notin LoginOutcomes, NEW S, NEW removed, NEW user,
           AccountOn(S, removed, user)
    PROVE  \A a \in Accounts : DelayStep(a)
  <1>1. PICK out \in [S -> LoginOutcomes], new \in Injection(S, Conns \ connections),
             nested \in BOOLEAN : AccountOn(S, removed, user)!(out, new, nested)
    BY DEF AccountOn
  <1>2. \A a \in S : out[a] # "connected"
    BY <1>1
  <1>3. delay' = [a \in Accounts |->
                     IF a \in {x \in S : out[x] = "connected"} THEN 0
                     ELSE IF a \in {x \in S : out[x] = "failed"}
                     THEN DelayAfter(a, {}, TRUE, nested) ELSE delay[a]]
    BY <1>1
  <1>. QED  BY <1>2, <1>3 DEF DelayAfter, NewDelay, DelayStep

LEMMA StepDelay ==
    ASSUME "connected" \notin LoginOutcomes, IInv, [Next]_vars
    PROVE  \A a \in Accounts : DelayStep(a)
  <1>a. TypeOK
    BY DEF IInv
  <1>1. CASE \E b \in Accounts : AccountAdd(b)
    BY <1>1, <1>a DEF AccountAdd, DelayStep, TypeOK
  <1>2. CASE \/ \E b \in Accounts : AccountDel(b) \/ SetAutoReconnect(b)
             \/ SetDelaySetting
             \/ UNCHANGED vars
    BY <1>2 DEF AccountDel, SetAutoReconnect, SetDelaySetting, vars, DelayStep
  <1>3. CASE CmdAccountOn
    <2>1. PICK S : AccountOn(S, CancelReconnect(S), TRUE)
      BY <1>3 DEF CmdAccountOn
    <2>. QED  BY <2>1, <1>a, AccountOnDelay
  <1>4. CASE CmdAccountOff \/ BeeFree
    <2>1. PICK S, cancel, nested : ImcLogout(S, cancel, FALSE, nested, {})
      BY <1>4 DEF CmdAccountOff, BeeFree
    <2>. QED  BY <2>1, <1>a, LogoutDelay
  <1>5. CASE \E b \in Accounts : ProtocolLogout(b) \/ AccountOnTimeout(b)
    <2>1. PICK S, allow, nested, fired : ImcLogout(S, {}, allow, nested, fired)
      BY <1>5 DEF ProtocolLogout, AccountOnTimeout
    <2>. QED  BY <2>1, <1>a, LogoutDelay
  <1>6. ASSUME NEW b \in Accounts, ImcbConnected(b)
        PROVE  \A a \in Accounts : DelayStep(a)
    <2>1. /\ accIc[b] # Null /\ accIc' = accIc
          /\ delay' = [delay EXCEPT ![b] = 0]
          /\ flags' = [flags EXCEPT ![accIc[b]] = @ \cup {"LOGGED_IN"}]
      BY <1>6 DEF ImcbConnected, Connected
    <2>2. accIc[b] \in Conns
      BY <1>a, <2>1 DEF TypeOK
    <2>3. "LOGGED_IN" \in flags'[accIc'[b]]
      BY <1>a, <2>1, <2>2 DEF TypeOK
    <2>. QED  BY <1>a, <2>1, <2>3 DEF DelayStep, TypeOK
  <1>7. ASSUME NEW b \in Accounts, AutoReconnect(b)
        PROVE  \A a \in Accounts : DelayStep(a)
    <2>1. PICK e : AccountOn({b}, {e}, FALSE) \/ delay' = delay
      BY <1>7 DEF AutoReconnect
    <2>2. CASE AccountOn({b}, {e}, FALSE)
      BY <2>2, <1>a, AccountOnDelay
    <2>3. CASE delay' = delay
      BY <2>3 DEF DelayStep
    <2>. QED  BY <2>1, <2>2, <2>3
  <1>. QED
    BY <1>1, <1>2, <1>3, <1>4, <1>5, <1>6, <1>7 DEF Next, UserCommand

LEMMA AlwaysDelayInv ==
    ASSUME "connected" \notin LoginOutcomes, BackoffGrows PROVE Spec => []DelayInv
  <1>1. Init => DelayInv
    <2>. SUFFICES ASSUME Init PROVE DelayInv
      OBVIOUS
    <2>1. delaySetting \in DelaySettings /\ 0 \in 0 .. delaySetting.max
      BY ConstantsAssumption DEF Init, DelaySetting
    <2>. QED  BY <2>1 DEF Init, DelayInv
  <1>2. IInv /\ DelayInv /\ [Next]_vars => DelayInv'
    <2>. SUFFICES ASSUME IInv, DelayInv, [Next]_vars, NEW a \in Accounts
         PROVE  \E q \in DelaySettings : delay'[a] \in 0 .. q.max
      BY DEF DelayInv
    <2>1. PICK q \in DelaySettings : delay[a] \in 0 .. q.max
      BY DEF DelayInv
    <2>2. delaySetting \in DelaySettings /\ 0 \in 0 .. delaySetting.max
      BY ConstantsAssumption DEF IInv, TypeOK, DelaySetting
    <2>3. AccountReconnectDelay(delaySetting, delay[a]) \in 0 .. delaySetting.max
      BY <2>1, <2>2, DelayGrows
    <2>4. DelayStep(a)
      BY StepDelay
    <2>. QED  BY <2>1, <2>2, <2>3, <2>4 DEF DelayStep
  <1>. QED  BY <1>1, <1>2, AlwaysIInv, PTL DEF Spec

\* Attempts that keep failing come further and further apart, up to the cap:
\* nothing but a login that succeeds, a new account or the user's changing the
\* setting brings them closer together again.
THEOREM OnlySuccessShrinksTheDelay ==
    ASSUME "connected" \notin LoginOutcomes, BackoffGrows
    PROVE  Spec => DelayShrinksOnlyOnSuccess
  <1>. DEFINE A == \A a \in Accounts :
                      /\ delay'[a] < delay[a]
                      /\ delaySetting.max >= delay[a]
                      => \/ accIc'[a] # Null /\ "LOGGED_IN" \in flags'[accIc'[a]]
                         \/ a \notin accounts
  <1>1. IInv /\ DelayInv /\ [Next]_vars => A
    <2>. SUFFICES ASSUME IInv, DelayInv, [Next]_vars, NEW a \in Accounts,
                         delay'[a] < delay[a], delaySetting.max >= delay[a]
         PROVE  \/ accIc'[a] # Null /\ "LOGGED_IN" \in flags'[accIc'[a]]
                \/ a \notin accounts
      OBVIOUS
    <2>1. PICK q \in DelaySettings : delay[a] \in 0 .. q.max
      BY DEF DelayInv
    <2>2. delaySetting \in DelaySettings
      BY DEF IInv, TypeOK
    <2>3. /\ AccountReconnectDelay(delaySetting, delay[a]) >= delay[a]
          /\ AccountReconnectDelay(delaySetting, delay[a]) \in Int
      BY <2>1, <2>2, DelayGrows
    <2>4. DelayStep(a) /\ delay[a] \in Int
      BY <2>1, StepDelay
    <2>. QED  BY <2>3, <2>4 DEF DelayStep
  <1>. QED
    BY <1>1, AlwaysIInv, AlwaysDelayInv, PTL DEF Spec, DelayShrinksOnlyOnSuccess

-----------------------------------------------------------------------------
(* The login timer, and the status that `account list' shows.               *)

\* What a connection's flags can be, and what its keepalive handle says of
\* them: it is the login timer's exactly while an attended login is not done.
LoginTimed(c) == keepalive[c] # Null /\ keepalive[c].cb = "account_on_timeout"

FlagsInv ==
    \A c \in connections :
        /\ "LOGGED_IN" \in flags[c] \/ flags[c] = {} \/ flags[c] = {"SLOW_LOGIN"}
        /\ "LOGGING_OUT" \notin flags[c]
        /\ LoginTimed(c) <=> flags[c] = {}

SInv == IInv /\ FlagsInv

\* imc_logout() leaves the other connections alone.
LEMMA LogoutKeepsFlags ==
    ASSUME IInv, FlagsInv,
           NEW S, NEW cancel, NEW allow, NEW nested, NEW fired,
           ImcLogout(S, cancel, allow, nested, fired)
    PROVE  FlagsInv'
  <1>. DEFINE C == {accIc[a] : a \in S}
  <1>1. /\ connections' = connections \ C
        /\ flags' = [c \in Conns |-> IF c \in C THEN {} ELSE flags[c]]
        /\ keepalive' = [c \in Conns |-> IF c \in C THEN Null ELSE keepalive[c]]
    BY DEF ImcLogout
  <1>2. connections \subseteq Conns
    BY DEF IInv, TypeOK
  <1>. HIDE DEF C
  <1>3. \A c \in connections' : c \in connections /\ flags'[c] = flags[c]
                                /\ keepalive'[c] = keepalive[c]
    BY <1>1, <1>2
  <1>. QED  BY <1>3 DEF FlagsInv, LoginTimed

\* What account_on() does to the accounts and connections it is not about, and
\* what it leaves of those it is about: the accounts of up get the connections
\* that new gives them.
SwitchedOn(S, up, new) ==
    /\ \A a, b \in S : new[a] = new[b] => a = b
    /\ accounts' = accounts
    /\ connections' = connections \cup {new[a] : a \in up}
    /\ \A a \in Accounts : accIc'[a] = IF a \in up THEN new[a] ELSE accIc[a]
    /\ \A a \in Accounts \ S : reconnect'[a] = reconnect[a]
    /\ \A c \in connections : flags'[c] = flags[c] /\ keepalive'[c] = keepalive[c]
    /\ \A a \in up :
         \/ flags'[new[a]] = {} /\ keepalive'[new[a]] = LoginTimer(a, new[a])
         \/ flags'[new[a]] = {"SLOW_LOGIN"} /\ keepalive'[new[a]] = keepalive[new[a]]

\* Every account_on() is one.
LEMMA AccountOnDoes ==
    ASSUME IInv, "connected" \notin LoginOutcomes,
           NEW S, NEW removed, NEW user, S \subseteq accounts,
           AccountOn(S, removed, user)
    PROVE  \E up \in SUBSET S, new \in [S -> Conns \ connections] : SwitchedOn(S, up, new)
  <1>b. PICK out \in [S -> LoginOutcomes], new \in Injection(S, Conns \ connections),
             nested \in BOOLEAN : AccountOn(S, removed, user)!(out, new, nested)
    BY DEF AccountOn
  <1>. DEFINE up == {a \in S : out[a] \in {"connecting", "slow", "connected"}}
              retried == {a \in {x \in S : out[x] = "failed"} : Reconnects(a, {}, TRUE, nested)}
              started == {new[a] : a \in up}
              For(c) == CHOOSE a \in S : new[a] = c
  <1>c. /\ new \in [S -> Conns \ connections]
        /\ \A a, b \in S : new[a] = new[b] => a = b
    BY <1>b DEF Injection, IsInjective
  <1>d. connections \subseteq Conns /\ S \subseteq Accounts
    BY DEF IInv, TypeOK
  <1>e. \A a \in S : out[a] # "connected"
    BY <1>b
  <1>f. \A a \in S : For(new[a]) = a
    BY <1>c
  <1>1. /\ accounts' = accounts
        /\ connections' = connections \cup started
        /\ accIc' = [a \in Accounts |-> IF a \in up THEN new[a] ELSE accIc[a]]
        /\ reconnect' = [a \in Accounts |-> IF a \in retried THEN Timeout("auto_reconnect", a)
                            ELSE IF a \in S THEN Null ELSE reconnect[a]]
    BY <1>b, <1>d DEF ClearHandles
  <1>2. /\ flags' = [c \in Conns |->
                        IF c \notin started THEN flags[c]
                        ELSE IF out[For(c)] = "slow" THEN {"SLOW_LOGIN"}
                        ELSE IF out[For(c)] = "connected" THEN {"LOGGED_IN"} ELSE {}]
        /\ keepalive' = [c \in Conns |->
                            IF c \in started /\ Timed(out[For(c)])
                            THEN LoginTimer(For(c), c) ELSE keepalive[c]]
    BY <1>b
  <1>3. \A c \in connections : flags'[c] = flags[c] /\ keepalive'[c] = keepalive[c]
    <2>1. \A c \in connections : c \in Conns /\ c \notin started
      BY <1>c, <1>d
    <2>. QED  BY <1>2, <2>1
  <1>4. ASSUME NEW a \in up
        PROVE  \/ flags'[new[a]] = {} /\ keepalive'[new[a]] = LoginTimer(a, new[a])
               \/ flags'[new[a]] = {"SLOW_LOGIN"} /\ keepalive'[new[a]] = keepalive[new[a]]
    <2>1. new[a] \in Conns /\ new[a] \in started /\ For(new[a]) = a /\ out[a] # "connected"
      BY <1>c, <1>e, <1>f
    <2>. HIDE DEF started, For
    <2>2. CASE out[a] = "slow"
      BY <2>1, <2>2, <1>2 DEF Timed
    <2>3. CASE out[a] # "slow"
      BY <2>1, <2>3, <1>2 DEF Timed
    <2>. QED  BY <2>2, <2>3
  <1>5. up \in SUBSET S
    OBVIOUS
  <1>6. \A a \in Accounts \ S : reconnect'[a] = reconnect[a]
    BY <1>1
  <1>7. \A a \in Accounts : accIc'[a] = IF a \in up THEN new[a] ELSE accIc[a]
    BY <1>1
  <1>. HIDE DEF up
  <1>. QED  BY <1>c, <1>1, <1>3, <1>4, <1>5, <1>6, <1>7, ZenonT(40) DEF SwitchedOn

\* account_on() times the logins that nobody attends to, and only those: a
\* connection it allocates has no handle yet.
LEMMA AccountOnKeepsFlags ==
    ASSUME IInv, FlagsInv, "connected" \notin LoginOutcomes,
           NEW S, NEW removed, NEW user, S \subseteq accounts,
           AccountOn(S, removed, user)
    PROVE  FlagsInv'
  <1>1. PICK up \in SUBSET S, new \in [S -> Conns \ connections] : SwitchedOn(S, up, new)
    BY AccountOnDoes
  <1>2. \A c \in Conns \ connections : keepalive[c] = Null
    BY DEF IInv, TypeOK, TimersBelongToTheirOwner
  <1>3. ASSUME NEW c \in connections
        PROVE  /\ "LOGGED_IN" \in flags'[c] \/ flags'[c] = {} \/ flags'[c] = {"SLOW_LOGIN"}
               /\ "LOGGING_OUT" \notin flags'[c]
               /\ LoginTimed(c)' <=> flags'[c] = {}
    BY <1>1, <1>3 DEF FlagsInv, LoginTimed, SwitchedOn
  <1>4. ASSUME NEW a \in up
        PROVE  /\ flags'[new[a]] = {} \/ flags'[new[a]] = {"SLOW_LOGIN"}
               /\ LoginTimed(new[a])' <=> flags'[new[a]] = {}
    <2>1. new[a] \in Conns \ connections
      BY <1>1
    <2>2. LoginTimer(a, new[a]) # Null /\ LoginTimer(a, new[a]).cb = "account_on_timeout"
      BY <2>1, TimeoutType, ConstantsAssumption DEF IInv, LoginTimer, Timeout
    <2>. QED  BY <1>1, <1>2, <2>1, <2>2 DEF LoginTimed, SwitchedOn
  <1>. QED  BY <1>1, <1>3, <1>4 DEF FlagsInv, SwitchedOn

\* imcb_connected() replaces the login timer.
LEMMA ConnectedKeepsFlags ==
    ASSUME IInv, FlagsInv, NEW a \in Accounts, ImcbConnected(a)
    PROVE  FlagsInv'
  <1>. DEFINE c == accIc[a]
  <1>1. /\ connections' = connections
        /\ flags' = [flags EXCEPT ![c] = @ \cup {"LOGGED_IN"}]
        /\ keepalive' = [keepalive EXCEPT ![c] = Timeout("send_keepalive", c)]
    BY DEF ImcbConnected
  <1>2. Timeout("send_keepalive", c).cb = "send_keepalive"
    BY DEF Timeout
  <1>3. /\ connections \subseteq Conns
        /\ flags \in [Conns -> SUBSET Flags] /\ keepalive \in [Conns -> Event \cup {Null}]
    BY DEF IInv, TypeOK
  <1>. HIDE DEF c
  <1>. QED  BY <1>1, <1>2, <1>3 DEF FlagsInv, LoginTimed

\* auto_reconnect() never finds its account connected.
LEMMA ReconnectFindsOffline ==
    ASSUME IInv, NEW a \in Accounts, AutoReconnect(a)
    PROVE  \E e \in events : AccountOn({a}, {e}, FALSE) /\ Offline(a) /\ a \in accounts
  <1>1. PICK e \in events :
            /\ e.cb = "auto_reconnect" /\ e.arg = a
            /\ accIc[a] = Null => AccountOn({a}, {e}, FALSE)
    BY DEF AutoReconnect
  <1>2. reconnect[a] # Null
    BY <1>1, ConstantsAssumption DEF IInv, TimersBelongToTheirOwner, TypeOK
  <1>3. Offline(a)
    BY <1>2 DEF IInv, NoReconnectWhileConnected
  <1>. QED  BY <1>1, <1>3 DEF Offline

LEMMA NextSInv ==
    ASSUME "connected" \notin LoginOutcomes, SInv, [Next]_vars
    PROVE  SInv'
  <1>a. IInv /\ FlagsInv
    BY DEF SInv
  <1>1. IInv'
    BY <1>a, NextIInv
  <1>. SUFFICES FlagsInv'
    BY <1>1 DEF SInv
  <1>2. CASE \E a \in Accounts : AccountAdd(a) \/ AccountDel(a) \/ SetAutoReconnect(a)
    BY <1>2, <1>a DEF AccountAdd, AccountDel, SetAutoReconnect, FlagsInv, LoginTimed
  <1>3. CASE CmdAccountOn
    <2>1. PICK S \in SUBSET accounts : AccountOn(S, CancelReconnect(S), TRUE)
      BY <1>3 DEF CmdAccountOn
    <2>. QED  BY <2>1, <1>a, AccountOnKeepsFlags
  <1>4. CASE CmdAccountOff
    <2>1. PICK S, nested : ImcLogout({a \in S : accIc[a] # Null}, S, FALSE, nested, {})
      BY <1>4 DEF CmdAccountOff
    <2>. QED  BY <2>1, <1>a, LogoutKeepsFlags
  <1>5. CASE SetDelaySetting \/ UNCHANGED vars
    BY <1>5, <1>a DEF SetDelaySetting, vars, FlagsInv, LoginTimed
  <1>6. CASE BeeFree
    <2>1. PICK nested :
              ImcLogout({a \in accounts : accIc[a] # Null}, accounts, FALSE, nested, {})
      BY <1>6 DEF BeeFree
    <2>. QED  BY <2>1, <1>a, LogoutKeepsFlags
  <1>7. ASSUME NEW a \in Accounts, ImcbConnected(a) PROVE FlagsInv'
    BY <1>7, <1>a, ConnectedKeepsFlags
  <1>8. ASSUME NEW a \in Accounts, ProtocolLogout(a) PROVE FlagsInv'
    <2>1. PICK allow, nested : ImcLogout({a}, {}, allow, nested, {})
      BY <1>8 DEF ProtocolLogout
    <2>. QED  BY <2>1, <1>a, LogoutKeepsFlags
  <1>9. ASSUME NEW a \in Accounts, AccountOnTimeout(a) PROVE FlagsInv'
    <2>1. PICK e, nested : ImcLogout({a}, {}, TRUE, nested, {e})
      BY <1>9 DEF AccountOnTimeout
    <2>. QED  BY <2>1, <1>a, LogoutKeepsFlags
  <1>10. ASSUME NEW a \in Accounts, AutoReconnect(a) PROVE FlagsInv'
    <2>1. PICK e \in events : AccountOn({a}, {e}, FALSE) /\ a \in accounts
      BY <1>10, <1>a, ReconnectFindsOffline
    <2>2. {a} \subseteq accounts
      BY <2>1
    <2>. QED  BY <2>1, <2>2, <1>a, AccountOnKeepsFlags
  <1>. QED
    BY <1>2, <1>3, <1>4, <1>5, <1>6, <1>7, <1>8, <1>9, <1>10 DEF Next, UserCommand

LEMMA AlwaysSInv == ASSUME "connected" \notin LoginOutcomes PROVE Spec => []SInv
  <1>1. Init => SInv
    BY InitIInv DEF Init, SInv, FlagsInv
  <1>2. SInv /\ [Next]_vars => SInv'
    BY NextSInv
  <1>. QED  BY <1>1, <1>2, PTL DEF Spec

\* No connection is thrown out after its login, none waits for a dead server
\* for ever, and nobody who must visit a web page first is given two minutes.
THEOREM LoginsAreTimed ==
    ASSUME "connected" \notin LoginOutcomes PROVE Spec => []LoginTimerOnlyBeforeLogin
  <1>1. SInv => LoginTimerOnlyBeforeLogin
    <2>. SUFFICES ASSUME SInv, NEW c \in connections
         PROVE  (\E e \in events : e.cb = "account_on_timeout" /\ e.arg = c)
                  <=> flags[c] \cap {"LOGGED_IN", "SLOW_LOGIN"} = {}
      BY DEF LoginTimerOnlyBeforeLogin
    <2>1. c \in Conns /\ TimersBelongToTheirOwner
      BY DEF SInv, IInv, TypeOK
    <2>2. (\E e \in events : e.cb = "account_on_timeout" /\ e.arg = c) => LoginTimed(c)
      <3>. SUFFICES ASSUME NEW e \in events, e.cb = "account_on_timeout", e.arg = c
           PROVE  LoginTimed(c)
        OBVIOUS
      <3>1. keepalive[c] = e
        BY <2>1 DEF TimersBelongToTheirOwner
      <3>2. e # Null
        BY ConstantsAssumption DEF SInv, IInv, TypeOK
      <3>. QED  BY <3>1, <3>2 DEF LoginTimed
    <2>3. LoginTimed(c) => \E e \in events : e.cb = "account_on_timeout" /\ e.arg = c
      BY <2>1 DEF TimersBelongToTheirOwner, LoginTimed
    <2>4. LoginTimed(c) <=> flags[c] = {}
      BY DEF SInv, FlagsInv
    <2>5. flags[c] = {} <=> flags[c] \cap {"LOGGED_IN", "SLOW_LOGIN"} = {}
      BY DEF SInv, FlagsInv
    <2>. QED  BY <2>2, <2>3, <2>4, <2>5
  <1>. QED  BY <1>1, AlwaysSInv, PTL

-----------------------------------------------------------------------------
(* What is wanted is tried again *)

\* An account the user wants, and that is up or about to be, is so after the
\* step; or reconnecting is off.
TriedAgain(a) ==
    /\ wanted'[a] /\ (wanted[a] => accIc[a] # Null \/ reconnect[a] # Null)
    /\ autoReconnect[a] /\ NewDelay(a) > 0
    => accIc'[a] # Null \/ reconnect'[a] # Null

\* imc_logout() starts the timer of an account it leaves wanted.
LEMMA LogoutTriesAgain ==
    ASSUME SInv, NEW S \in SUBSET accounts, NEW cancel \in SUBSET accounts,
           NEW allow, NEW nested, NEW fired,
           ImcLogout(S, cancel, allow, nested, fired), \A a \in S : accIc[a] # Null
    PROVE  \A a \in Accounts : TriedAgain(a)
  <1>0. TypeOK /\ TimersBelongToTheirOwner
    BY DEF SInv, IInv
  <1>. DEFINE R == {a \in S \ cancel : Reconnects(a, flags[accIc[a]], allow, nested)}
  <1>1. /\ accIc' = [a \in Accounts |-> IF a \in S THEN Null ELSE accIc[a]]
        /\ reconnect' = [a \in Accounts |->
                            IF a \in R THEN Timeout("auto_reconnect", a)
                            ELSE IF a \in cancel THEN Null ELSE reconnect[a]]
        /\ wanted' = [a \in Accounts |-> wanted[a] /\ (a \in S => allow) /\ a \notin cancel]
    BY DEF ImcLogout, ImcFree
  <1>. SUFFICES ASSUME NEW a \in Accounts, wanted'[a],
                       wanted[a] => accIc[a] # Null \/ reconnect[a] # Null,
                       autoReconnect[a], NewDelay(a) > 0
       PROVE  accIc'[a] # Null \/ reconnect'[a] # Null
    BY DEF TriedAgain
  <1>2. wanted[a] /\ (a \in S => allow) /\ a \notin cancel
    BY <1>1, Zenon
  <1>3. CASE a \in S
    <2>1. accIc[a] \in connections
      BY <1>3 DEF SInv, IInv, OneAccountPerConnection
    <2>2. MayEnter(flags[accIc[a]])
      BY <2>1, <1>0 DEF MayEnter, SInv, FlagsInv
    <2>3. a \in R
      BY <1>2, <1>3, <2>2 DEF Reconnects, ReconnectAllowed
    <2>4. Timeout("auto_reconnect", a) # Null
      BY <1>0, TimeoutType, ConstantsAssumption
    <2>. HIDE DEF R
    <2>. QED  BY <1>1, <2>3, <2>4
  <1>4. CASE a \notin S
    BY <1>1, <1>2, <1>4
  <1>. QED  BY <1>3, <1>4

\* account_on() leaves a connection or, where login() failed, a timer.
LEMMA AccountOnTriesAgain ==
    ASSUME SInv, "connected" \notin LoginOutcomes,
           NEW S \in SUBSET accounts, NEW removed, NEW user,
           AccountOn(S, removed, user)
    PROVE  \A a \in Accounts : TriedAgain(a)
  <1>0. TypeOK /\ TimersBelongToTheirOwner
    BY DEF SInv, IInv
  <1>1. PICK out \in [S -> LoginOutcomes], new \in Injection(S, Conns \ connections),
             nested \in BOOLEAN : AccountOn(S, removed, user)!(out, new, nested)
    BY DEF AccountOn
  <1>. DEFINE up == {a \in S : out[a] \in {"connecting", "slow", "connected"}}
              retried == {a \in {x \in S : out[x] = "failed"} : Reconnects(a, {}, TRUE, nested)}
  <1>2. new \in [S -> Conns \ connections]
    BY <1>1 DEF Injection
  <1>3. /\ accIc' = [a \in Accounts |-> IF a \in up THEN new[a] ELSE accIc[a]]
        /\ reconnect' = [a \in Accounts |-> IF a \in retried THEN Timeout("auto_reconnect", a)
                            ELSE IF a \in S THEN Null ELSE reconnect[a]]
    BY <1>0, <1>1 DEF ClearHandles
  <1>4. wanted' = [a \in Accounts |->
                      IF a \in S THEN (user \/ wanted[a]) /\ out[a] # "refused" ELSE wanted[a]]
    BY <1>1
  <1>. SUFFICES ASSUME NEW a \in Accounts, wanted'[a],
                       wanted[a] => accIc[a] # Null \/ reconnect[a] # Null,
                       autoReconnect[a], NewDelay(a) > 0
       PROVE  accIc'[a] # Null \/ reconnect'[a] # Null
    BY DEF TriedAgain
  <1>5. CASE a \in S
    <2>1. out[a] # "refused"
      BY <1>4, <1>5, Zenon
    <2>2. out[a] \in AllOutcomes
      BY <1>5, ConstantsAssumption
    <2>3. CASE out[a] = "failed"
      <3>1. a \in retried
        BY <1>5, <2>3 DEF Reconnects, ReconnectAllowed, MayEnter
      <3>2. Timeout("auto_reconnect", a) # Null
        BY <1>0, TimeoutType, ConstantsAssumption
      <3>. HIDE DEF retried
      <3>. QED  BY <1>3, <3>1, <3>2
    <2>4. CASE out[a] # "failed"
      <3>1. a \in up
        BY <1>5, <2>1, <2>2, <2>4 DEF AllOutcomes
      <3>2. new[a] # Null
        BY <1>2, <1>5, ConstantsAssumption
      <3>. HIDE DEF up
      <3>. QED  BY <1>3, <3>1, <3>2
    <2>. QED  BY <2>3, <2>4
  <1>6. CASE a \notin S
    BY <1>3, <1>4, <1>6
  <1>. QED  BY <1>5, <1>6

\* Every connection that is lost, and every attempt that fails, is followed by
\* another attempt or by a timer, until the user has had enough.
THEOREM LostConnectionsComeBack ==
    ASSUME "connected" \notin LoginOutcomes PROVE Spec => WantedIsRetried
  <1>1. SInv /\ [Next]_vars => [\A a \in Accounts : TriedAgain(a)]_vars
    <2>. SUFFICES ASSUME SInv, Next PROVE \A a \in Accounts : TriedAgain(a)
      OBVIOUS
    <2>0. IInv
      BY DEF SInv
    <2>1. CASE \E b \in Accounts : AccountAdd(b) \/ SetAutoReconnect(b) \/ ImcbConnected(b)
      BY <2>1 DEF AccountAdd, SetAutoReconnect, ImcbConnected, TriedAgain
    <2>2. CASE SetDelaySetting
      BY <2>2 DEF SetDelaySetting, TriedAgain
    <2>3. CASE \E b \in Accounts : AccountDel(b)
      BY <2>0, <2>3 DEF AccountDel, TriedAgain, IInv, TypeOK
    <2>4. CASE CmdAccountOn
      <3>1. PICK S \in SUBSET accounts : AccountOn(S, CancelReconnect(S), TRUE)
        BY <2>4 DEF CmdAccountOn
      <3>. QED  BY <3>1, AccountOnTriesAgain
    <2>5. CASE CmdAccountOff
      <3>1. PICK S \in {accounts} \cup {{a} : a \in accounts}, nested \in BOOLEAN :
                ImcLogout({a \in S : accIc[a] # Null}, S, FALSE, nested, {})
        BY <2>5 DEF CmdAccountOff
      <3>2. PICK C : C = {a \in S : accIc[a] # Null}
        OBVIOUS
      <3>3. S \in SUBSET accounts /\ C \in SUBSET accounts /\ \A a \in C : accIc[a] # Null
        BY <3>1, <3>2
      <3>4. ImcLogout(C, S, FALSE, nested, {})
        BY <3>1, <3>2
      <3>. QED  BY <3>3, <3>4, LogoutTriesAgain
    <2>6. CASE BeeFree
      <3>1. PICK nested :
                ImcLogout({a \in accounts : accIc[a] # Null}, accounts, FALSE, nested, {})
        BY <2>6 DEF BeeFree
      <3>2. PICK C : C = {a \in accounts : accIc[a] # Null}
        OBVIOUS
      <3>3. C \in SUBSET accounts /\ accounts \in SUBSET accounts /\ \A a \in C : accIc[a] # Null
        BY <3>2
      <3>4. ImcLogout(C, accounts, FALSE, nested, {})
        BY <3>1, <3>2
      <3>. QED  BY <3>3, <3>4, LogoutTriesAgain
    <2>7. ASSUME NEW b \in Accounts, ProtocolLogout(b) \/ AccountOnTimeout(b)
          PROVE  \A a \in Accounts : TriedAgain(a)
      <3>1. PICK allow, nested, fired : ImcLogout({b}, {}, allow, nested, fired)
        BY <2>7 DEF ProtocolLogout, AccountOnTimeout
      <3>2. {b} \in SUBSET accounts /\ {} \in SUBSET accounts /\ \A a \in {b} : accIc[a] # Null
        BY <2>7 DEF ProtocolLogout, AccountOnTimeout, Connected
      <3>. QED  BY <3>1, <3>2, LogoutTriesAgain
    <2>8. ASSUME NEW b \in Accounts, AutoReconnect(b)
          PROVE  \A a \in Accounts : TriedAgain(a)
      <3>1. PICK e \in events : AccountOn({b}, {e}, FALSE) /\ b \in accounts
        BY <2>0, <2>8, ReconnectFindsOffline
      <3>2. {b} \in SUBSET accounts
        BY <3>1
      <3>. QED  BY <3>1, <3>2, AccountOnTriesAgain
    <2>. QED
      BY <2>1, <2>2, <2>3, <2>4, <2>5, <2>6, <2>7, <2>8 DEF Next, UserCommand
  <1>. QED  BY <1>1, AlwaysSInv, PTL DEF Spec, WantedIsRetried, TriedAgain

-----------------------------------------------------------------------------
(* The refinement *)

\* What `account list' says of an account, one case at a time.
StatusSays(a) ==
    /\ a \notin accounts => Status(a) = "absent"
    /\ Offline(a) => Status(a) = IF reconnect[a] # Null THEN "waiting" ELSE "offline"
    /\ Connected(a) => Status(a) = IF "LOGGED_IN" \in flags[accIc[a]] THEN "connected"
                                   ELSE IF flags[accIc[a]] = {} THEN "connecting"
                                   ELSE "authorizing"

StatusIsShown == \A a \in Accounts : StatusSays(a)

LEMMA StatusIs == SInv => StatusIsShown
  <1>. SUFFICES ASSUME SInv, NEW a \in Accounts PROVE StatusSays(a)
    BY DEF StatusIsShown
  <1>1. CASE a \notin accounts
    BY <1>1 DEF StatusSays, Status, Offline, Connected
  <1>2. CASE Offline(a)
    BY <1>2 DEF StatusSays, Status, Offline, Connected
  <1>3. CASE Connected(a)
    <2>1. accIc[a] \in connections
      BY <1>3 DEF SInv, IInv, OneAccountPerConnection, Connected
    <2>2. \/ "LOGGED_IN" \in flags[accIc[a]] \/ flags[accIc[a]] = {}
          \/ flags[accIc[a]] = {"SLOW_LOGIN"}
      BY <2>1 DEF SInv, FlagsInv
    <2>. QED  BY <1>3, <2>2 DEF StatusSays, Status, Offline, Connected
  <1>. QED  BY <1>1, <1>2, <1>3 DEF Offline, Connected

\* What a step can do to an account: nothing that `account list' shows ...
Stays(a) ==
    /\ a \in accounts' <=> a \in accounts
    /\ accIc'[a] = accIc[a]
    /\ reconnect'[a] = reconnect[a]
    /\ a \in accounts /\ accIc[a] # Null => flags'[accIc[a]] = flags[accIc[a]]

\* ... or one of the moves of its life.
Moves(a) ==
    \/ a \notin accounts /\ Offline(a)' /\ reconnect'[a] = Null     \* added
    \/ Offline(a) /\ (Offline(a)' \/ Connected(a)')                 \* tried or cancelled
    \/ Offline(a) /\ a \notin accounts'                             \* deleted
    \/ Connected(a) /\ Offline(a)'                                  \* logged out
    \/ Connected(a) /\ accounts' = {}                               \* the end
    \/ /\ Connected(a) /\ Connected(a)'                             \* logged in
       /\ "LOGGED_IN" \notin flags[accIc[a]] /\ "LOGGED_IN" \in flags'[accIc'[a]]

\* imc_logout(), followed by the deletion of all accounts or not.
LEMMA LogoutMoves ==
    ASSUME SInv, NEW S \in SUBSET accounts, NEW cancel \in SUBSET accounts,
           NEW allow, NEW nested, NEW fired,
           ImcLogout(S, cancel, allow, nested, fired),
           \A a \in S : accIc[a] # Null,
           \/ accounts' = accounts
           \/ accounts' = {}
    PROVE  \A a \in Accounts : Stays(a) \/ Moves(a)
  <1>. DEFINE R == {a \in S \ cancel : Reconnects(a, flags[accIc[a]], allow, nested)}
              C == {accIc[a] : a \in S}
  <1>1. /\ accIc' = [a \in Accounts |-> IF a \in S THEN Null ELSE accIc[a]]
        /\ flags' = [c \in Conns |-> IF c \in C THEN {} ELSE flags[c]]
        /\ reconnect' = [a \in Accounts |->
                            IF a \in R THEN Timeout("auto_reconnect", a)
                            ELSE IF a \in cancel THEN Null ELSE reconnect[a]]
    BY DEF ImcLogout, ImcFree
  <1>2. R \subseteq S
    OBVIOUS
  <1>3. accounts \subseteq Accounts /\ accIc \in [Accounts -> Conns \cup {Null}]
    BY DEF SInv, IInv, TypeOK
  <1>. SUFFICES ASSUME NEW a \in Accounts PROVE Stays(a) \/ Moves(a)
    OBVIOUS
  <1>. HIDE DEF R
  <1>4. CASE a \notin accounts
    BY <1>1, <1>2, <1>3, <1>4 DEF Stays
  <1>5. CASE a \in accounts /\ accounts' = {}
    BY <1>5 DEF Moves, Offline, Connected
  <1>6. CASE a \in accounts /\ accounts' = accounts /\ a \in S
    BY <1>1, <1>6 DEF Moves, Offline, Connected
  <1>7. CASE a \in accounts /\ accounts' = accounts /\ a \notin S /\ accIc[a] = Null
    BY <1>1, <1>7 DEF Moves, Offline, Connected
  <1>8. CASE a \in accounts /\ accounts' = accounts /\ a \notin S /\ accIc[a] # Null
    <2>1. accIc[a] \in Conns /\ accIc[a] \notin C
      BY <1>3, <1>8 DEF SInv, IInv, OneAccountPerConnection
    <2>2. reconnect[a] = Null
      BY <1>8 DEF SInv, IInv, NoReconnectWhileConnected, Offline
    <2>3. reconnect'[a] = Null
      BY <1>1, <1>2, <1>8, <2>2
    <2>. HIDE DEF C
    <2>. QED  BY <1>1, <1>8, <2>1, <2>2, <2>3 DEF Stays
  <1>. QED  BY <1>4, <1>5, <1>6, <1>7, <1>8

LEMMA AccountOnMoves ==
    ASSUME SInv, "connected" \notin LoginOutcomes,
           NEW S \in SUBSET accounts, NEW removed, NEW user,
           \A a \in S : Offline(a),
           AccountOn(S, removed, user)
    PROVE  \A a \in Accounts : Stays(a) \/ Moves(a)
  <1>0. S \subseteq accounts /\ IInv
    BY DEF SInv
  <1>1. PICK up \in SUBSET S, new \in [S -> Conns \ connections] : SwitchedOn(S, up, new)
    BY <1>0, AccountOnDoes
  <1>2. Null \notin Conns
    BY ConstantsAssumption
  <1>. SUFFICES ASSUME NEW a \in Accounts PROVE Stays(a) \/ Moves(a)
    OBVIOUS
  <1>3. CASE a \in S
    BY <1>1, <1>2, <1>3 DEF SwitchedOn, Moves, Offline, Connected
  <1>4. CASE a \notin S
    <2>1. a \in accounts /\ accIc[a] # Null => accIc[a] \in connections
      BY <1>0 DEF IInv, OneAccountPerConnection
    <2>. QED  BY <1>1, <1>4, <2>1 DEF SwitchedOn, Stays
  <1>. QED  BY <1>3, <1>4

\* Every step moves each account along its life, or not at all.
LEMMA StepMoves ==
    ASSUME "connected" \notin LoginOutcomes, SInv, [Next]_vars
    PROVE  \A a \in Accounts : Stays(a) \/ Moves(a)
  <1>0. IInv
    BY DEF SInv
  <1>1. ASSUME NEW b \in Accounts, AccountAdd(b)
        PROVE  \A a \in Accounts : Stays(a) \/ Moves(a)
    <2>1. accIc[b] = Null /\ reconnect[b] = Null
      BY <1>0, <1>1 DEF AccountAdd, IInv, OneAccountPerConnection, NoReconnectWhileConnected, Offline
    <2>. QED  BY <1>1, <2>1 DEF AccountAdd, Stays, Moves, Offline
  <1>2. ASSUME NEW b \in Accounts, AccountDel(b)
        PROVE  \A a \in Accounts : Stays(a) \/ Moves(a)
    <2>1. reconnect \in [Accounts -> Event \cup {Null}]
      BY <1>0 DEF IInv, TypeOK
    <2>. QED  BY <1>2, <2>1 DEF AccountDel, Stays, Moves, Offline
  <1>3. CASE \E b \in Accounts : SetAutoReconnect(b)
    BY <1>3 DEF SetAutoReconnect, Stays
  <1>4. CASE SetDelaySetting \/ UNCHANGED vars
    BY <1>4 DEF SetDelaySetting, vars, Stays
  <1>5. CASE CmdAccountOn
    <2>1. PICK S \in SUBSET {a \in accounts : Offline(a)} :
              AccountOn(S, CancelReconnect(S), TRUE)
      BY <1>5 DEF CmdAccountOn
    <2>2. S \in SUBSET accounts /\ \A a \in S : Offline(a)
      BY <2>1
    <2>. QED  BY <2>1, <2>2, AccountOnMoves
  <1>6. CASE CmdAccountOff
    <2>1. PICK S \in {accounts} \cup {{a} : a \in accounts}, nested \in BOOLEAN :
              /\ ImcLogout({a \in S : accIc[a] # Null}, S, FALSE, nested, {})
              /\ accounts' = accounts
      BY <1>6 DEF CmdAccountOff
    <2>2. PICK C : C = {a \in S : accIc[a] # Null}
      OBVIOUS
    <2>3. S \in SUBSET accounts /\ C \in SUBSET accounts /\ \A a \in C : accIc[a] # Null
      BY <2>1, <2>2
    <2>4. ImcLogout(C, S, FALSE, nested, {})
      BY <2>1, <2>2
    <2>. QED  BY <2>1, <2>3, <2>4, LogoutMoves
  <1>7. CASE BeeFree
    <2>1. PICK nested :
              ImcLogout({a \in accounts : accIc[a] # Null}, accounts, FALSE, nested, {})
      BY <1>7 DEF BeeFree
    <2>2. accounts' = {}
      BY <1>7 DEF BeeFree
    <2>3. PICK C : C = {a \in accounts : accIc[a] # Null}
      OBVIOUS
    <2>4. C \in SUBSET accounts /\ accounts \in SUBSET accounts /\ \A a \in C : accIc[a] # Null
      BY <2>3
    <2>5. ImcLogout(C, accounts, FALSE, nested, {})
      BY <2>1, <2>3
    <2>. QED  BY <2>2, <2>4, <2>5, LogoutMoves
  <1>8. ASSUME NEW b \in Accounts, ImcbConnected(b)
        PROVE  \A a \in Accounts : Stays(a) \/ Moves(a)
    <2>. DEFINE c == accIc[b]
    <2>1. /\ Connected(b) /\ "LOGGED_IN" \notin flags[c]
          /\ flags' = [flags EXCEPT ![c] = @ \cup {"LOGGED_IN"}]
          /\ UNCHANGED <<accounts, accIc, reconnect>>
      BY <1>8 DEF ImcbConnected
    <2>2. c \in Conns /\ flags \in [Conns -> SUBSET Flags]
      BY <1>0, <2>1 DEF IInv, TypeOK, Connected
    <2>3. Moves(b)
      BY <2>1, <2>2 DEF Moves, Connected
    <2>4. ASSUME NEW a \in Accounts, a # b PROVE Stays(a)
      <3>1. accIc[a] # Null => accIc[a] # c
        BY <1>0, <2>4 DEF IInv, OneAccountPerConnection
      <3>2. a \in accounts /\ accIc[a] # Null => accIc[a] \in Conns
        BY <1>0 DEF IInv, TypeOK
      <3>. HIDE DEF c
      <3>. QED  BY <2>1, <2>2, <3>1, <3>2 DEF Stays
    <2>. QED  BY <2>3, <2>4
  <1>9. ASSUME NEW b \in Accounts, ProtocolLogout(b) \/ AccountOnTimeout(b)
        PROVE  \A a \in Accounts : Stays(a) \/ Moves(a)
    <2>1. PICK allow, nested, fired : ImcLogout({b}, {}, allow, nested, fired)
      BY <1>9 DEF ProtocolLogout, AccountOnTimeout
    <2>2. b \in accounts /\ accIc[b] # Null /\ accounts' = accounts
      BY <1>9 DEF ProtocolLogout, AccountOnTimeout, Connected
    <2>3. {b} \in SUBSET accounts /\ {} \in SUBSET accounts /\ \A a \in {b} : accIc[a] # Null
      BY <2>2
    <2>. QED  BY <2>1, <2>2, <2>3, LogoutMoves
  <1>10. ASSUME NEW b \in Accounts, AutoReconnect(b)
         PROVE  \A a \in Accounts : Stays(a) \/ Moves(a)
    <2>1. PICK e \in events : AccountOn({b}, {e}, FALSE) /\ Offline(b) /\ b \in accounts
      BY <1>0, <1>10, ReconnectFindsOffline
    <2>2. {b} \in SUBSET accounts /\ \A a \in {b} : Offline(a)
      BY <2>1
    <2>. QED  BY <2>1, <2>2, AccountOnMoves
  <1>. QED
    BY <1>1, <1>2, <1>3, <1>4, <1>5, <1>6, <1>7, <1>8, <1>9, <1>10 DEF Next, UserCommand

\* The initial states are those of AccountStatus.
LEMMA InitStatus == Init => Abstract!Init
  <1>. SUFFICES ASSUME Init, NEW a \in Accounts PROVE Status(a) = "absent"
    BY DEF Abstract!Init
  <1>1. SInv
    BY InitIInv DEF Init, SInv, FlagsInv
  <1>2. a \notin accounts
    BY DEF Init
  <1>. QED  BY <1>1, <1>2, StatusIs DEF StatusSays, StatusIsShown

\* Every step is a step of AccountStatus or a stutter.
LEMMA StepStatus ==
    ASSUME "connected" \notin LoginOutcomes, SInv, [Next]_vars
    PROVE  Abstract!Next
  <1>. DEFINE old == [a \in Accounts |-> Status(a)]
              new == [a \in Accounts |-> Status(a)']
  <1>1. SInv'
    BY NextSInv
  <1>2. \A a \in Accounts : StatusSays(a) /\ StatusSays(a)'
    <2>1. StatusIsShown'
      BY <1>1, StatusIs, PTL
    <2>. QED  BY <2>1, StatusIs DEF StatusIsShown
  <1>3. \A a \in Accounts : Stays(a) \/ Moves(a)
    BY StepMoves
  <1>4. ASSUME NEW a \in Accounts
        PROVE  /\ Status(a)' \in Abstract!Status
               /\ Status(a)' # Status(a) => <<Status(a), Status(a)'>> \in Abstract!Edges
               /\ Status(a) \in Abstract!Busy /\ Status(a)' = "absent" => accounts' = {}
    <2>1. StatusSays(a) /\ StatusSays(a)'
      BY <1>2
    <2>2. Status(a)' \in Abstract!Status
      BY <2>1 DEF StatusSays, Offline, Connected, Abstract!Status
    <2>3. CASE Stays(a)
      <3>1. a \in accounts /\ accIc[a] # Null => flags'[accIc'[a]] = flags[accIc[a]]
        BY <2>3 DEF Stays
      <3>2. Status(a)' = Status(a)
        BY <2>1, <2>3, <3>1 DEF StatusSays, Stays, Offline, Connected
      <3>3. Status(a) \in Abstract!Busy => Status(a) # "absent"
        BY DEF Abstract!Busy
      <3>. QED  BY <2>2, <3>2, <3>3
    <2>4. CASE Moves(a)
      <3>. DEFINE was == Status(a)
                  is == Status(a)'
      <3>1. a \notin accounts => was = "absent"
        BY <2>1 DEF StatusSays
      <3>2. Offline(a) => was \in Abstract!Idle
        BY <2>1 DEF StatusSays, Abstract!Idle
      <3>3. Connected(a) => was \in Abstract!Busy
        BY <2>1 DEF StatusSays, Abstract!Busy
      <3>4. Connected(a) /\ "LOGGED_IN" \notin flags[accIc[a]]
              => was \in {"connecting", "authorizing"}
        BY <2>1 DEF StatusSays
      <3>5. a \notin accounts' => is = "absent"
        BY <2>1 DEF StatusSays
      <3>6. Offline(a)' => is \in Abstract!Idle /\ (reconnect'[a] = Null => is = "offline")
        BY <2>1 DEF StatusSays, Abstract!Idle
      <3>7. Connected(a)' => is \in Abstract!Busy
        BY <2>1 DEF StatusSays, Abstract!Busy
      <3>8. Connected(a)' /\ "LOGGED_IN" \in flags'[accIc'[a]] => is = "connected"
        BY <2>1 DEF StatusSays
      <3>9. "absent" \notin Abstract!Idle \cup Abstract!Busy
            /\ Abstract!Idle \cap Abstract!Busy = {}
        BY DEF Abstract!Idle, Abstract!Busy
      <3>. HIDE DEF was, is
      <3>10. <<was, is>> \in Abstract!Edges
        BY <2>4, <3>1, <3>2, <3>3, <3>4, <3>5, <3>6, <3>7, <3>8 DEF Moves, Abstract!Edges
      <3>11. was \in Abstract!Busy /\ is = "absent" => accounts' = {}
        BY <2>4, <3>1, <3>2, <3>6, <3>7, <3>9 DEF Moves
      <3>. QED  BY <2>2, <3>10, <3>11 DEF was, is
    <2>. QED  BY <1>3, <2>3, <2>4
  <1>5. /\ \A a \in Accounts : old[a] = Status(a) /\ new[a] = Status(a)'
        /\ new \in [Accounts -> Abstract!Status]
    BY <1>4
  <1>6. accounts' = {} => \A a \in Accounts : new[a] = "absent"
    BY <1>2, <1>5 DEF StatusSays
  <1>. HIDE DEF old, new
  <1>7. /\ new \in [Accounts -> Abstract!Status]
        /\ \A a \in Accounts : new[a] # old[a] => <<old[a], new[a]>> \in Abstract!Edges
        /\ (\E a \in Accounts : old[a] \in Abstract!Busy /\ new[a] = "absent")
             => \A a \in Accounts : new[a] = "absent"
    BY <1>4, <1>5, <1>6
  <1>. QED  BY <1>7 DEF Abstract!Next, old, new

\* What `account list' tells the user is an account's life as AccountStatus
\* describes it: no timer, failure or command takes an account from one state
\* to another that does not follow.
THEOREM AccountImplementsAccountStatus ==
    ASSUME "connected" \notin LoginOutcomes PROVE Spec => ImplementsAccountStatus
  <1>1. Init => Abstract!Init
    BY InitStatus
  <1>2. SInv /\ [Next]_vars => Abstract!Next
    BY StepStatus
  <1>. QED
    BY <1>1, <1>2, AlwaysSInv, PTL DEF Spec, ImplementsAccountStatus, Abstract!Spec
=============================================================================
