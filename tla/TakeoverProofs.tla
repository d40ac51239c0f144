---------------------------- MODULE TakeoverProofs ----------------------------
(***************************************************************************)
(* Proofs about Takeover, for any processes and nicks: what the master     *)
(* believes about two children agrees, and a session moves only to whom    *)
(* asked for it.                                                           *)
(***************************************************************************)
EXTENDS Takeover, SequenceTheorems, WellFoundedInduction, TLAPS

-----------------------------------------------------------------------------
(* Induction over the length of a list: a set of numbers that has 0 and    *)
(* the successor of each of its members has all of them.                   *)

LEMMA LeastExists ==
    ASSUME NEW T, T \subseteq Nat, T # {}
    PROVE  \E x \in T : \A y \in T : ~ (y < x)
  <1>1. \E x \in T : \A y \in T : ~ (<<y, x>> \in OpToRel(<, Nat))
    BY NatLessThanWellFounded, WFMin
  <1>2. \A x, y \in Nat : y < x => <<y, x>> \in OpToRel(<, Nat)
    BY DEF OpToRel
  <1>. QED  BY <1>1, <1>2

LEMMA SetInduction ==
    ASSUME NEW S, 0 \in S, \A n \in Nat : n \in S => n + 1 \in S
    PROVE  Nat \subseteq S
  <1>. DEFINE T == Nat \ S
  <1>. SUFFICES ASSUME T # {}
                PROVE  FALSE
    OBVIOUS
  <1>1. PICK x \in T : \A y \in T : ~ (y < x)
    BY LeastExists
  <1>2. CASE x = 0
    BY <1>2
  <1>3. CASE x # 0
    <2>1. x - 1 \in Nat /\ x - 1 < x
      BY <1>3
    <2>2. x - 1 \in S
      BY <2>1, <1>1
    <2>. QED  BY <2>1, <2>2
  <1>. QED  BY <1>2, <1>3

-----------------------------------------------------------------------------
(* Deleting from the list *)

IsWalk(f, s, S) ==
    \A i \in 0 .. Len(s) :
        f[i] = IF i = 0 THEN <<>> ELSE IF s[i] \in S THEN f[i - 1] ELSE Append(f[i - 1], s[i])

\* The list that is left is what the walk along it says.
LEMMA WithoutWalks ==
    ASSUME NEW T, NEW s \in Seq(T), NEW S
    PROVE  \E f \in [0 .. Len(s) -> Seq(T)] : Without(s, S) = f[Len(s)] /\ IsWalk(f, s, S)
  <1>. DEFINE Step(f, i) == IF i = 0 THEN <<>> ELSE IF s[i] \in S THEN f[i - 1] ELSE Append(f[i - 1], s[i])
              Walk(f, n) == \A i \in 0 .. n : f[i] = Step(f, i)
              Good == {n \in Nat : n <= Len(s) => \E f \in [0 .. n -> Seq(T)] : Walk(f, n)}
  <1>1. Len(s) \in Nat /\ \A i \in 1 .. Len(s) : s[i] \in T
    OBVIOUS
  <1>2. 0 \in Good
    <2>. DEFINE f == [i \in 0 .. 0 |-> <<>>]
    <2>1. f \in [0 .. 0 -> Seq(T)] /\ \A i \in 0 .. 0 : f[i] = <<>> /\ i = 0
      OBVIOUS
    <2>. QED  BY <2>1
  <1>3. ASSUME NEW n \in Nat, n \in Good
        PROVE  n + 1 \in Good
    <2>. HIDE DEF Walk
    <2>. SUFFICES ASSUME n + 1 <= Len(s)
                  PROVE  \E f \in [0 .. (n + 1) -> Seq(T)] : Walk(f, n + 1)
      OBVIOUS
    <2>0. n <= Len(s)
      BY <1>1
    <2>1. PICK g \in [0 .. n -> Seq(T)] : Walk(g, n)
      BY <2>0, <1>3
    <2>. USE DEF Walk
    <2>. DEFINE f == [i \in 0 .. (n + 1) |-> IF i = n + 1 THEN Step(g, n + 1) ELSE g[i]]
    <2>2. n + 1 \in 1 .. Len(s) /\ s[n + 1] \in T /\ g[n] \in Seq(T)
      BY <1>1
    <2>3. Step(g, n + 1) \in Seq(T)
      BY <2>2
    <2>4. f \in [0 .. (n + 1) -> Seq(T)]
      BY <2>3
    <2>5. ASSUME NEW i \in 0 .. (n + 1)
          PROVE  f[i] = Step(f, i)
      <3>1. CASE i = n + 1
        <4>1. f[n] = g[n] /\ (n + 1) - 1 = n /\ f[n + 1] = Step(g, n + 1)
          OBVIOUS
        <4>. HIDE DEF f
        <4>. QED  BY <3>1, <4>1
      <3>2. CASE i # n + 1
        <4>1. i \in 0 .. n /\ (i # 0 => i - 1 \in 0 .. n)
          BY <3>2
        <4>2. f[i] = g[i] /\ (i # 0 => f[i - 1] = g[i - 1])
          BY <4>1
        <4>3. g[i] = Step(g, i)
          BY <4>1, <2>1
        <4>. HIDE DEF f
        <4>. QED  BY <4>2, <4>3
      <3>. QED  BY <3>1, <3>2
    <2>. HIDE DEF f, Step
    <2>. QED  BY <2>4, <2>5
  <1>4. Len(s) \in Good
    <2>. HIDE DEF Good
    <2>. QED  BY <1>1, <1>2, <1>3, SetInduction
  <1>5. PICK g \in [0 .. Len(s) -> Seq(T)] : Walk(g, Len(s))
    BY <1>4
  <1>6. g = [i \in 0 .. Len(s) |-> Step(g, i)]
    BY <1>5
  <1>. DEFINE f == CHOOSE h : h = [i \in 0 .. Len(s) |-> Step(h, i)]
  <1>7. f = [i \in 0 .. Len(s) |-> Step(f, i)]
    BY <1>6
  <1>8. Without(s, S) = f[Len(s)]
    BY DEF Without
  <1>. HIDE DEF f
  <1>9. Walk(f, Len(s))
    BY <1>7
  <1>10. f \in [0 .. Len(s) -> Seq(T)]
    <2>. DEFINE Typed == {n \in Nat : n <= Len(s) => f[n] \in Seq(T)}
    <2>1. 0 \in Typed
      <3>1. 0 \in 0 .. Len(s)
        BY <1>1
      <3>2. f[0] = <<>>
        BY <3>1, <1>9
      <3>3. f[0] \in Seq(T)
        BY <3>2
      <3>. HIDE DEF Step, Walk, Good
      <3>. QED  BY <3>3
    <2>2. ASSUME NEW n \in Nat, n \in Typed
          PROVE  n + 1 \in Typed
      <3>. SUFFICES ASSUME n + 1 <= Len(s)
                    PROVE  f[n + 1] \in Seq(T)
        OBVIOUS
      <3>1. n + 1 \in 0 .. Len(s) /\ n + 1 # 0 /\ (n + 1) - 1 = n /\ f[n] \in Seq(T) /\ s[n + 1] \in T
        BY <1>1, <2>2
      <3>2. f[n + 1] = IF s[n + 1] \in S THEN f[n] ELSE Append(f[n], s[n + 1])
        BY <3>1, <1>9
      <3>. QED  BY <3>1, <3>2
    <2>3. Nat \subseteq Typed
      <3>. HIDE DEF Typed
      <3>. QED  BY <2>1, <2>2, SetInduction
    <2>4. \A n \in 0 .. Len(s) : f[n] \in Seq(T)
      BY <2>3, <1>1
    <2>. QED  BY <2>4, <1>7
  <1>. QED  BY <1>8, <1>9, <1>10 DEF IsWalk

LEMMA RangeAppend ==
    ASSUME NEW T, NEW q \in Seq(T), NEW m \in T
    PROVE  /\ Append(q, m) \in Seq(T) /\ q \o <<m>> = Append(q, m)
           /\ Range(Append(q, m)) = Range(q) \cup {m}
  <1>1. /\ DOMAIN q = 1 .. Len(q) /\ Len(q) \in Nat /\ DOMAIN Append(q, m) = 1 .. (Len(q) + 1)
        /\ \A i \in 1 .. Len(q) : Append(q, m)[i] = q[i]
        /\ Append(q, m)[Len(q) + 1] = m
    OBVIOUS
  <1>2. Range(Append(q, m)) \subseteq Range(q) \cup {m}
    BY <1>1 DEF Range
  <1>3. Range(q) \subseteq Range(Append(q, m))
    BY <1>1 DEF Range
  <1>4. m \in Range(Append(q, m))
    BY <1>1 DEF Range
  <1>. QED  BY <1>2, <1>3, <1>4, AppendIsConcat

LEMMA RangeTail ==
    ASSUME NEW T, NEW q \in Seq(T), q # <<>>
    PROVE  /\ Head(q) \in T /\ Tail(q) \in Seq(T) /\ Range(q) \subseteq T
           /\ Head(q) \in Range(q) /\ Range(Tail(q)) \subseteq Range(q)
  <1>1. /\ Head(q) \in T /\ Tail(q) \in Seq(T) /\ Len(Tail(q)) = Len(q) - 1
        /\ \A i \in 1 .. Len(Tail(q)) : Tail(q)[i] = q[i + 1]
    BY HeadTailProperties
  <1>2. Len(q) \in Nat \ {0} /\ DOMAIN q = 1 .. Len(q) /\ DOMAIN Tail(q) = 1 .. Len(Tail(q))
        /\ Head(q) = q[1] /\ \A i \in 1 .. Len(q) : q[i] \in T
    BY <1>1, EmptySeq, LenProperties
  <1>. QED  BY <1>1, <1>2 DEF Range

LEMMA RangeReverse ==
    ASSUME NEW T, NEW q \in Seq(T)
    PROVE  Reverse(q) \in Seq(T) /\ Range(Reverse(q)) = Range(q)
  <1>. DEFINE r == Reverse(q)
  <1>1. Len(q) \in Nat /\ DOMAIN q = 1 .. Len(q) /\ \A i \in 1 .. Len(q) : q[i] \in T
    OBVIOUS
  <1>2. /\ DOMAIN r = 1 .. Len(q) /\ \A i \in 1 .. Len(q) : r[i] = q[(Len(q) - i) + 1]
        /\ \A i \in 1 .. Len(q) : (Len(q) - i) + 1 \in 1 .. Len(q)
    BY <1>1 DEF Reverse
  <1>3. r \in Seq(T)
    BY <1>1, <1>2, IsASeq DEF Reverse
  <1>. HIDE DEF r
  <1>4. Range(r) \subseteq Range(q)
    BY <1>1, <1>2 DEF Range
  <1>5. ASSUME NEW i \in 1 .. Len(q)  PROVE q[i] \in Range(r)
    <2>1. (Len(q) - i) + 1 \in 1 .. Len(q) /\ (Len(q) - ((Len(q) - i) + 1)) + 1 = i
      BY <1>1
    <2>. QED  BY <1>2, <2>1 DEF Range
  <1>6. Range(q) \subseteq Range(r)
    BY <1>1, <1>5 DEF Range
  <1>. QED  BY <1>3, <1>4, <1>6 DEF r

\* Of a list the others are left.
LEMMA WithoutIs ==
    ASSUME NEW T, NEW s \in Seq(T), NEW S
    PROVE  Without(s, S) \in Seq(T) /\ Range(Without(s, S)) = Range(s) \ S
  <1>0. PICK f \in [0 .. Len(s) -> Seq(T)] : Without(s, S) = f[Len(s)] /\ IsWalk(f, s, S)
    BY WithoutWalks
  <1>1. \A i \in 0 .. Len(s) :
           f[i] = IF i = 0 THEN <<>> ELSE IF s[i] \in S THEN f[i - 1] ELSE Append(f[i - 1], s[i])
    BY <1>0 DEF IsWalk
  <1>2. Len(s) \in Nat /\ DOMAIN s = 1 .. Len(s) /\ \A i \in 1 .. Len(s) : s[i] \in T
    OBVIOUS
  <1>. DEFINE First(n) == {s[i] : i \in 1 .. n}
              Good == {n \in Nat : n <= Len(s) => Range(f[n]) = First(n) \ S}
  <1>3. 0 \in Good
    <2>1. f[0] = <<>> /\ First(0) = {}
      BY <1>1, <1>2
    <2>2. Range(<<>>) = {}
      BY DEF Range
    <2>. QED  BY <2>1, <2>2
  <1>4. ASSUME NEW n \in Nat, n \in Good
        PROVE  n + 1 \in Good
    <2>. SUFFICES ASSUME n + 1 <= Len(s)
                  PROVE  Range(f[n + 1]) = First(n + 1) \ S
      OBVIOUS
    <2>. DEFINE g == f[n]
                x == s[n + 1]
    <2>1. n + 1 \in 0 .. Len(s) /\ n \in 0 .. Len(s) /\ n + 1 \in 1 .. Len(s) /\ n + 1 # 0 /\ (n + 1) - 1 = n
      BY <1>2
    <2>2. f[n + 1] = IF x \in S THEN g ELSE Append(g, x)
      BY <2>1, <1>1
    <2>3. g \in Seq(T) /\ x \in T
      BY <2>1, <1>1, <1>2
    <2>4. Range(g) = First(n) \ S
      BY <2>1, <1>4
    <2>5. First(n + 1) = First(n) \cup {x}
      <3>1. 1 .. (n + 1) = (1 .. n) \cup {n + 1}
        OBVIOUS
      <3>. QED  BY <3>1
    <2>. HIDE DEF g, x, First
    <2>6. Range(Append(g, x)) = Range(g) \cup {x}
      BY <2>3, RangeAppend
    <2>. QED  BY <2>2, <2>4, <2>5, <2>6
  <1>5. Nat \subseteq Good
    <2>. HIDE DEF Good
    <2>. QED  BY <1>3, <1>4, SetInduction
  <1>6. Range(f[Len(s)]) = First(Len(s)) \ S
    <2>1. Len(s) \in Good
      <3>. HIDE DEF Good
      <3>. QED  BY <1>2, <1>5
    <2>2. Len(s) <= Len(s)
      BY <1>2
    <2>. HIDE DEF First
    <2>. QED  BY <2>1, <2>2
  <1>7. First(Len(s)) = Range(s)
    BY <1>2 DEF Range
  <1>. QED  BY <1>0, <1>2, <1>6, <1>7

-----------------------------------------------------------------------------
(* Types *)

\* A child that writes to the master appends to its queue or loses it.
LEMMA ToMasterTypes ==
    ASSUME TypeOK, NEW p \in Procs, NEW ms \in Seq(UpMessages), ToMaster(p, ms)
    PROVE  up' \in [Procs -> Seq(UpMessages)] /\ ipc' \in [Procs -> BOOLEAN]
  <1>1. up \in [Procs -> Seq(UpMessages)] /\ ipc \in [Procs -> BOOLEAN]
    BY DEF TypeOK
  <1>2. CASE up' = [up EXCEPT ![p] = @ \o ms] /\ UNCHANGED ipc
    <2>1. up[p] \o ms \in Seq(UpMessages)
      BY <1>1, ConcatProperties
    <2>. QED  BY <1>1, <1>2, <2>1
  <1>3. CASE ipc' = [ipc EXCEPT ![p] = FALSE] /\ UNCHANGED up
    BY <1>1, <1>3
  <1>. QED  BY <1>2, <1>3 DEF ToMaster

LEMMA ReceivesTypes ==
    ASSUME TypeOK, NEW p \in Procs, down[p] # <<>>
    PROVE  /\ Head(down[p]) \in DownMessages
           /\ [down EXCEPT ![p] = Tail(@)] \in [Procs -> Seq(DownMessages)]
  <1>1. down \in [Procs -> Seq(DownMessages)]
    BY DEF TypeOK
  <1>. QED  BY <1>1, RangeTail

ChildTypes ==
    /\ life \in [Procs -> {"new", "running", "aborting", "gone"}]
    /\ ipc \in [Procs -> BOOLEAN]
    /\ conn \in [Procs -> Procs \cup {Null}]
    /\ nick \in [Procs -> Nicks \cup {Null}]
    /\ password \in [Procs -> Nicks \cup {Null}]
    /\ recv_fd \in [Procs -> Procs \cup {Null}]
    /\ asked \in [Procs -> Nat]

FlagTypes ==
    /\ login_source_id \in [Procs -> {"new", "timer", "none"}] /\ stray \in [Procs -> BOOLEAN] /\ started \in [Procs -> BOOLEAN]
    /\ allow \in [Procs -> BOOLEAN] /\ auto \in [Procs -> BOOLEAN]

RunningServes == \A p \in Procs : Running(p) => conn[p] # Null /\ nick[p] # Null

MasterTypes ==
    /\ child_list \in Seq(Procs)
    /\ nick_of \in [Procs -> Nicks \cup {Null}] /\ pass_of \in [Procs -> Nicks \cup {Null}]
    /\ to_child \in [Procs -> Procs \cup {Null}] /\ to_fd \in [Procs -> Procs \cup {Null}]

QueueTypes == up \in [Procs -> Seq(UpMessages)] /\ down \in [Procs -> Seq(DownMessages)]

ClientTypes ==
    /\ open \in [Procs -> BOOLEAN]
    /\ said \subseteq Procs \X (Nicks \cup {Null}) /\ moved \subseteq Procs
    /\ logins \in [Procs -> 0..MaxLogins] /\ events \in 0..MaxEvents

ListedForked == \A p \in Listed : life[p] # "new"

LEMMA TypeOKMeans ==
    TypeOK <=> /\ ChildTypes /\ FlagTypes /\ RunningServes /\ MasterTypes /\ QueueTypes
               /\ ClientTypes /\ ListedForked
  BY DEF TypeOK, ChildTypes, FlagTypes, RunningServes, MasterTypes, QueueTypes, ClientTypes, ListedForked

LEMMA TypesMakeTypeOK ==
    ChildTypes' /\ FlagTypes' /\ RunningServes' /\ MasterTypes' /\ QueueTypes' /\ ClientTypes' /\ ListedForked'
      => TypeOK'
  BY DEF TypeOK, ChildTypes, FlagTypes, RunningServes, MasterTypes, QueueTypes, ClientTypes, ListedForked

LEMMA InitTypeOK == Init => TypeOK
  <1>. SUFFICES ASSUME Init PROVE TypeOK
    OBVIOUS
  <1>1. child_list \in Seq(Procs) /\ Listed = {}
    BY DEF Init, Listed, Range
  <1>2. ChildTypes /\ FlagTypes
    BY DEF Init, ChildTypes, FlagTypes
  <1>3. MasterTypes /\ QueueTypes
    BY <1>1 DEF Init, MasterTypes, QueueTypes
  <1>4. ClientTypes
    BY ConstantsAssumption DEF Init, ClientTypes
  <1>5. RunningServes /\ ListedForked
    BY <1>1 DEF Init, Running, RunningServes, ListedForked
  <1>. QED  BY <1>2, <1>3, <1>4, <1>5, TypeOKMeans

LEMMA ConnectTypes ==
    ASSUME TypeOK, NEW p \in Procs, NEW n \in Nicks, Connect(p, n)
    PROVE  TypeOK'
  <1>. USE DEF Connect, login
  <1>0. ChildTypes /\ FlagTypes /\ RunningServes /\ MasterTypes /\ QueueTypes /\ ClientTypes /\ ListedForked
    BY TypeOKMeans
  <1>1. child_list' \in Seq(Procs) /\ Listed' = Listed \cup {p}
    BY <1>0, RangeAppend DEF MasterTypes, Listed
  <1>2. ChildTypes'
    BY <1>0 DEF ChildTypes
  <1>3. FlagTypes' /\ MasterTypes' /\ ClientTypes'
    BY <1>0, <1>1 DEF FlagTypes, MasterTypes, ClientTypes
  <1>4. RunningServes'
    BY <1>0, ConstantsAssumption DEF RunningServes, Running, ChildTypes
  <1>5. ListedForked'
    BY <1>0, <1>1 DEF ListedForked, ChildTypes
  <1>6. QueueTypes'
    <2>1. <<Msg("CLIENT", n, Null)>> \in Seq(UpMessages)
      BY DEF Msg, UpMessages
    <2>. QED  BY <1>0, <2>1 DEF QueueTypes
  <1>. QED  BY <1>2, <1>3, <1>4, <1>5, <1>6, TypesMakeTypeOK

\* What the user does with a session that is there
LEMMA UserTypes ==
    ASSUME TypeOK, NEW p \in Procs,
           \/ \E n \in Nicks : ChangeNick(p, n)
           \/ \E b \in BOOLEAN : Identify(p, b) \/ SetAllowTakeover(p, b)
           \/ Drop(p) \/ AnswerYes(p) \/ AnswerNo(p) \/ ClientCloses(p) \/ Abort(p)
    PROVE  TypeOK'
  <1>0. ChildTypes /\ FlagTypes /\ RunningServes /\ MasterTypes /\ QueueTypes /\ ClientTypes /\ ListedForked
    BY TypeOKMeans
  <1>1. CASE \E n \in Nicks : ChangeNick(p, n)
    <2>1. PICK n \in Nicks : ChangeNick(p, n)
      BY <1>1
    <2>. USE <2>1 DEF ChangeNick
    <2>2. <<Msg("NICK", n, Null)>> \in Seq(UpMessages)
      BY DEF Msg, UpMessages
    <2>3. up' \in [Procs -> Seq(UpMessages)] /\ ipc' \in [Procs -> BOOLEAN]
      BY <2>2, ToMasterTypes
    <2>4. ChildTypes' /\ QueueTypes' /\ RunningServes'
      BY <1>0, <2>3, ConstantsAssumption DEF ChildTypes, QueueTypes, RunningServes, Running
    <2>5. FlagTypes' /\ MasterTypes' /\ ClientTypes' /\ ListedForked'
      BY <1>0, ConstantsAssumption DEF FlagTypes, MasterTypes, ClientTypes, ListedForked, Listed, login, master, Event
    <2>. QED  BY <2>4, <2>5, TypesMakeTypeOK
  <1>2. CASE \E b \in BOOLEAN : Identify(p, b)
    <2>1. PICK b \in BOOLEAN : Identify(p, b)
      BY <1>2
    <2>. USE <2>1 DEF Identify
    <2>2. Running(p) /\ conn[p] \in Procs /\ nick[p] \in Nicks
      BY <1>0 DEF Typing, Running, RunningServes, ChildTypes
    <2>3. <<Msg("FD", conn[p], Null), Msg("IDENTIFY", nick[p], nick[p])>> \in Seq(UpMessages)
      <3>1. Msg("FD", conn[p], Null) \in UpMessages /\ Msg("IDENTIFY", nick[p], nick[p]) \in UpMessages
        BY <2>2 DEF Msg, UpMessages, FdMessages
      <3>. QED  BY <3>1
    <2>4. up' \in [Procs -> Seq(UpMessages)] /\ ipc' \in [Procs -> BOOLEAN]
      BY <2>3, ToMasterTypes
    <2>5. ChildTypes' /\ QueueTypes' /\ RunningServes'
      BY <1>0, <2>2, <2>4 DEF ChildTypes, QueueTypes, RunningServes, Running
    <2>6. FlagTypes'
      BY <1>0 DEF FlagTypes
    <2>7. logins' \in [Procs -> 0..MaxLogins]
      BY <1>0, ConstantsAssumption DEF ClientTypes
    <2>8. MasterTypes' /\ ClientTypes' /\ ListedForked'
      BY <1>0, <2>7 DEF MasterTypes, ClientTypes, ListedForked, Listed, master
    <2>. QED  BY <2>5, <2>6, <2>8, TypesMakeTypeOK
  <1>3. CASE (\E b \in BOOLEAN : SetAllowTakeover(p, b)) \/ Drop(p) \/ ClientCloses(p) \/ Abort(p)
    <2>. USE DEF SetAllowTakeover, Drop, ClientCloses, Abort, child, master, login
    <2>1. up' = up /\ down' = down /\ UNCHANGED <<ipc, conn, nick, recv_fd, asked, login_source_id, stray, started, auto>>
      BY <1>3
    <2>2. UNCHANGED <<child_list, nick_of, pass_of, to_child, to_fd, said, moved, logins>>
      BY <1>3
    <2>3. life' \in [Procs -> {"new", "running", "aborting", "gone"}]
          /\ \A q \in Procs : life'[q] = life[q] \/ (life[q] = "running" /\ life'[q] = "aborting")
      BY <1>0, <1>3 DEF ChildTypes
    <2>4. password' \in [Procs -> Nicks \cup {Null}]
      BY <1>0, <1>3 DEF ChildTypes
    <2>5. allow' \in [Procs -> BOOLEAN] /\ open' \in [Procs -> BOOLEAN]
      BY <1>0, <1>3 DEF FlagTypes, ClientTypes
    <2>6. events' \in 0..MaxEvents
      BY <1>0, <1>3, ConstantsAssumption DEF Event, ClientTypes
    <2>7. ChildTypes' /\ QueueTypes'
      BY <1>0, <2>1, <2>3, <2>4 DEF ChildTypes, QueueTypes
    <2>8. FlagTypes' /\ MasterTypes' /\ ClientTypes'
      BY <1>0, <2>1, <2>2, <2>5, <2>6 DEF FlagTypes, MasterTypes, ClientTypes
    <2>9. RunningServes' /\ ListedForked'
      BY <1>0, <2>1, <2>2, <2>3 DEF RunningServes, Running, ListedForked, Listed, MasterTypes, Range
    <2>. QED  BY <2>7, <2>8, <2>9, TypesMakeTypeOK
  <1>4. CASE AnswerYes(p)
    <2>. USE <1>4 DEF AnswerYes
    <2>1. Running(p) /\ conn[p] \in Procs /\ nick[p] \in Nicks
      BY <1>0 DEF Answers, Typing, Running, RunningServes, ChildTypes
    <2>2. <<Msg("AUTH", nick[p], password[p])>> \in Seq(UpMessages)
      BY <1>0, <2>1 DEF Msg, UpMessages, ChildTypes
    <2>3. up' \in [Procs -> Seq(UpMessages)] /\ ipc' \in [Procs -> BOOLEAN]
      BY <2>2, ToMasterTypes
    <2>4. asked' \in [Procs -> Nat]
      BY <1>0 DEF Answers, ChildTypes
    <2>5. ChildTypes' /\ QueueTypes' /\ RunningServes'
      BY <1>0, <2>3, <2>4 DEF ChildTypes, QueueTypes, RunningServes, Running
    <2>6. said' \subseteq Procs \X (Nicks \cup {Null})
      BY <1>0, <2>1 DEF ClientTypes, ChildTypes
    <2>7. FlagTypes' /\ MasterTypes' /\ ClientTypes' /\ ListedForked'
      BY <1>0, <2>6 DEF FlagTypes, MasterTypes, ClientTypes, ListedForked, Listed, login, master
    <2>. QED  BY <2>5, <2>7, TypesMakeTypeOK
  <1>5. CASE AnswerNo(p)
    <2>. USE <1>5 DEF AnswerNo
    <2>1. <<Word("NO")>> \in Seq(UpMessages)
      BY DEF Word, Msg, UpMessages
    <2>2. up' \in [Procs -> Seq(UpMessages)] /\ ipc' \in [Procs -> BOOLEAN]
      BY <2>1, ToMasterTypes
    <2>3. asked' \in [Procs -> Nat]
      BY <1>0 DEF Answers, ChildTypes
    <2>4. ChildTypes' /\ QueueTypes' /\ RunningServes'
      BY <1>0, <2>2, <2>3 DEF ChildTypes, QueueTypes, RunningServes, Running
    <2>5. FlagTypes' /\ MasterTypes' /\ ClientTypes' /\ ListedForked'
      BY <1>0 DEF FlagTypes, IdentifyFinish, MasterTypes, ClientTypes, ListedForked, Listed, master
    <2>. QED  BY <2>4, <2>5, TypesMakeTypeOK
  <1>. QED  BY <1>1, <1>2, <1>3, <1>4, <1>5

\* A process that ends
LEMMA IrcFreeTypes ==
    ASSUME TypeOK, NEW p \in Procs, Running(p), IrcFree(p),
           UNCHANGED <<master, open, said, moved, logins, events>>
    PROVE  TypeOK'
  <1>0. ChildTypes /\ FlagTypes /\ RunningServes /\ MasterTypes /\ QueueTypes /\ ClientTypes /\ ListedForked
    BY TypeOKMeans
  <1>1. ChildTypes' /\ QueueTypes'
    BY <1>0 DEF IrcFree, ChildTypes, QueueTypes
  <1>2. FlagTypes' /\ MasterTypes' /\ ClientTypes'
    BY <1>0 DEF IrcFree, FlagTypes, MasterTypes, ClientTypes, master
  <1>3. RunningServes' /\ ListedForked'
    BY <1>0 DEF IrcFree, RunningServes, Running, ListedForked, Listed, ChildTypes, master
  <1>. QED  BY <1>0, <1>1, <1>2, <1>3, TypesMakeTypeOK

\* What a child does by itself or reads from the master
LEMMA ChildStepTypes ==
    ASSUME TypeOK, NEW p \in Procs, LoginTimer(p) \/ Exit(p) \/ ChildReads(p)
    PROVE  TypeOK'
  <1>0. ChildTypes /\ FlagTypes /\ RunningServes /\ MasterTypes /\ QueueTypes /\ ClientTypes /\ ListedForked
    BY TypeOKMeans
  <1>1. CASE LoginTimer(p)
    <2>. USE <1>1 DEF LoginTimer, IdentifyFinish, master
    <2>1. ChildTypes' /\ QueueTypes' /\ RunningServes'
      BY <1>0 DEF ChildTypes, QueueTypes, RunningServes, Running
    <2>2. FlagTypes' /\ MasterTypes' /\ ClientTypes' /\ ListedForked'
      BY <1>0 DEF FlagTypes, MasterTypes, ClientTypes, ListedForked, Listed
    <2>. QED  BY <2>1, <2>2, TypesMakeTypeOK
  <1>2. CASE Exit(p)
    BY <1>2, IrcFreeTypes DEF Exit, Running
  <1>3. CASE ReceiveDone(p)
    BY <1>3, IrcFreeTypes DEF ReceiveDone
  <1>4. ASSUME NEW type, Receives(p, type)
        PROVE  /\ Running(p) /\ Head(down[p]) \in DownMessages /\ Head(down[p]).type = type
               /\ down' \in [Procs -> Seq(DownMessages)]
    BY <1>4, ReceivesTypes DEF Receives
  <1>5. CASE ReceiveFd(p)
    <2>. USE <1>5 DEF ReceiveFd
    <2>1. Head(down[p]).arg \in Procs /\ down' \in [Procs -> Seq(DownMessages)]
      BY <1>4 DEF DownMessages, FdMessages
    <2>2. ChildTypes' /\ QueueTypes' /\ RunningServes'
      BY <1>0, <2>1 DEF ChildTypes, QueueTypes, RunningServes, Running
    <2>3. FlagTypes' /\ MasterTypes' /\ ClientTypes' /\ ListedForked'
      BY <1>0 DEF FlagTypes, MasterTypes, ClientTypes, ListedForked, Listed, login, master
    <2>. QED  BY <2>2, <2>3, TypesMakeTypeOK
  <1>6. CASE ReceiveHello(p)
    <2>. USE <1>6 DEF ReceiveHello
    <2>1. Running(p) /\ nick[p] \in Nicks /\ down' \in [Procs -> Seq(DownMessages)]
      BY <1>0, <1>4 DEF RunningServes, ChildTypes
    <2>2. <<Msg("HELLO", nick[p], Null)>> \in Seq(UpMessages)
      BY <2>1 DEF Msg, UpMessages
    <2>3. up' \in [Procs -> Seq(UpMessages)] /\ ipc' \in [Procs -> BOOLEAN]
      BY <2>2, ToMasterTypes
    <2>4. ChildTypes' /\ QueueTypes' /\ RunningServes'
      BY <1>0, <2>1, <2>3 DEF ChildTypes, QueueTypes, RunningServes, Running
    <2>5. FlagTypes' /\ MasterTypes' /\ ClientTypes' /\ ListedForked'
      BY <1>0 DEF FlagTypes, MasterTypes, ClientTypes, ListedForked, Listed, login, master
    <2>. QED  BY <2>4, <2>5, TypesMakeTypeOK
  <1>7. CASE ReceiveInit(p)
    <2>. USE <1>7 DEF ReceiveInit
    <2>1. down' \in [Procs -> Seq(DownMessages)]
      BY <1>4
    <2>2. up' \in [Procs -> Seq(UpMessages)] /\ ipc' \in [Procs -> BOOLEAN]
      <3>1. <<Word("NO")>> \in Seq(UpMessages)
        BY DEF Word, Msg, UpMessages
      <3>. QED  BY <1>0, <3>1, ToMasterTypes DEF ChildTypes, QueueTypes
    <2>3. asked' \in [Procs -> Nat]
      BY <1>0 DEF ChildTypes
    <2>4. ChildTypes' /\ QueueTypes' /\ RunningServes'
      BY <1>0, <2>1, <2>2, <2>3 DEF ChildTypes, QueueTypes, RunningServes, Running
    <2>5. FlagTypes'
      BY <1>0 DEF FlagTypes, IdentifyFinish
    <2>6. MasterTypes' /\ ClientTypes' /\ ListedForked'
      BY <1>0 DEF MasterTypes, ClientTypes, ListedForked, Listed, master
    <2>. QED  BY <2>4, <2>5, <2>6, TypesMakeTypeOK
  <1>8. CASE ReceiveAuth(p)
    <2>. USE <1>8 DEF ReceiveAuth
    <2>1. down' \in [Procs -> Seq(DownMessages)]
      BY <1>4
    <2>2. up' \in [Procs -> Seq(UpMessages)] /\ ipc' \in [Procs -> BOOLEAN]
      <3>1. <<Word("DONE")>> \in Seq(UpMessages) /\ <<Word("FAIL")>> \in Seq(UpMessages)
        BY DEF Word, Msg, UpMessages
      <3>. QED  BY <3>1, ToMasterTypes
    <2>3. /\ conn' \in [Procs -> Procs \cup {Null}] /\ recv_fd' \in [Procs -> Procs \cup {Null}]
          /\ moved' \subseteq Procs /\ \A q \in Procs : conn[q] # Null => conn'[q] # Null
      BY <1>0 DEF ChildTypes, ClientTypes, Accepts
    <2>4. ChildTypes' /\ QueueTypes' /\ RunningServes'
      BY <1>0, <2>1, <2>2, <2>3 DEF ChildTypes, QueueTypes, RunningServes, Running
    <2>5. FlagTypes' /\ MasterTypes' /\ ClientTypes' /\ ListedForked'
      BY <1>0, <2>3 DEF FlagTypes, MasterTypes, ClientTypes, ListedForked, Listed, login, master
    <2>. QED  BY <2>4, <2>5, TypesMakeTypeOK
  <1>9. CASE ReceiveRefusal(p) \/ LoseMaster(p)
    <2>. USE DEF ReceiveRefusal, LoseMaster, child, login, master
    <2>1. down' \in [Procs -> Seq(DownMessages)]
      BY <1>0, <1>4, <1>9 DEF QueueTypes
    <2>2. ipc' \in [Procs -> BOOLEAN]
      BY <1>0, <1>9 DEF ChildTypes
    <2>3. /\ UNCHANGED <<life, conn, nick, password, asked, recv_fd, up, login_source_id, stray, started, allow, auto>>
          /\ UNCHANGED <<child_list, nick_of, pass_of, to_child, to_fd, open, said, moved, logins, events>>
      BY <1>9
    <2>4. ChildTypes' /\ QueueTypes' /\ RunningServes'
      BY <1>0, <2>1, <2>2, <2>3 DEF ChildTypes, QueueTypes, RunningServes, Running
    <2>5. FlagTypes' /\ MasterTypes' /\ ClientTypes' /\ ListedForked'
      BY <1>0, <2>3 DEF FlagTypes, MasterTypes, ClientTypes, ListedForked, Listed
    <2>. QED  BY <2>4, <2>5, TypesMakeTypeOK
  <1>. QED  BY <1>1, <1>2, <1>3, <1>5, <1>6, <1>7, <1>8, <1>9 DEF ChildReads

\* What the master frees and tells is known to it.
LEMMA FreeAndFailTypes ==
    ASSUME TypeOK, NEW F, NEW S \in SUBSET Procs, FreeAndFail(F, S)
    PROVE  /\ MasterTypes' /\ down' \in [Procs -> Seq(DownMessages)]
           /\ Listed' \subseteq Listed /\ Listed' = Listed \ (F \cup {o \in S : to_fd[o] # Null /\ ~Writable(o)})
  <1>. DEFINE waiting == {o \in S : to_fd[o] # Null}
              freed == F \cup {o \in waiting : ~Writable(o)}
  <1>0. MasterTypes /\ QueueTypes
    BY TypeOKMeans
  <1>1. child_list' = Without(child_list, freed)
    BY DEF FreeAndFail
  <1>2. child_list' \in Seq(Procs) /\ Listed' = Listed \ freed
    BY <1>0, <1>1, WithoutIs DEF MasterTypes, Listed
  <1>3. MasterTypes'
    BY <1>0, <1>2 DEF FreeAndFail, MasterTypes
  <1>4. down' \in [Procs -> Seq(DownMessages)]
    <2>1. \A q \in Procs : Append(down[q], Word("FAIL")) \in Seq(DownMessages)
      <3>1. Word("FAIL") \in DownMessages
        BY DEF Word, Msg, DownMessages
      <3>. QED  BY <1>0, <3>1, RangeAppend DEF QueueTypes
    <2>2. down' = [q \in Procs |-> IF q \in waiting \ freed THEN Append(down[q], Word("FAIL")) ELSE down[q]]
      BY DEF FreeAndFail
    <2>. QED  BY <1>0, <2>1, <2>2 DEF QueueTypes
  <1>. QED  BY <1>2, <1>3, <1>4

\* A line that the master reads, and that it leaves the queue
LEMMA ReadsTypes ==
    ASSUME TypeOK, NEW p, NEW types, Reads(p, types)
    PROVE  /\ p \in Procs /\ p \in Listed /\ up[p] \in Seq(UpMessages) /\ up[p] # <<>>
           /\ Head(up[p]) \in UpMessages /\ Head(up[p]).type \in types
           /\ up' = [up EXCEPT ![p] = Tail(up[p])] /\ up' \in [Procs -> Seq(UpMessages)]
  <1>1. child_list \in Seq(Procs) /\ up \in [Procs -> Seq(UpMessages)]
    BY DEF TypeOK
  <1>2. p \in Procs
    BY <1>1 DEF Reads, Listed, Range
  <1>. QED  BY <1>1, <1>2, RangeTail DEF Reads

\* The first of the sessions of the same user is one.
LEMMA OldIs ==
    ASSUME TypeOK, NEW p, NEW m, Old(p, m) # Null
    PROVE  Old(p, m) \in Listed /\ Old(p, m) \in Procs /\ Old(p, m) # p
  <1>. DEFINE I == SameUser(p, m)
  <1>1. child_list \in Seq(Procs)
    BY DEF TypeOK
  <1>2. I \subseteq Nat /\ I # {}
    BY <1>1 DEF SameUser, Old
  <1>3. PICK x \in I : \A y \in I : ~ (y < x)
    BY <1>2, LeastExists
  <1>4. \E z \in I : \A y \in I : z =< y
    BY <1>2, <1>3
  <1>5. Min(I) \in I
    BY <1>4 DEF Min
  <1>6. PICK i \in I : Old(p, m) = child_list[i]
    BY <1>2, <1>5 DEF Old
  <1>7. i \in DOMAIN child_list /\ child_list[i] # p
    BY DEF SameUser
  <1>8. child_list[i] \in Procs /\ child_list[i] \in Listed
    BY <1>1, <1>7 DEF Listed, Range
  <1>. QED  BY <1>6, <1>7, <1>8

LEMMA MasterReadsTypes ==
    ASSUME TypeOK, NEW p \in Procs, MasterReads(p)
    PROVE  TypeOK'
  <1>0. ChildTypes /\ FlagTypes /\ RunningServes /\ MasterTypes /\ QueueTypes /\ ClientTypes /\ ListedForked
    BY TypeOKMeans
  <1>1. UNCHANGED child /\ UNCHANGED <<open, said, moved, logins, events>>
    BY DEF MasterReads, MasterNick, MasterFd, MasterIdentify, MasterNoTakeover, MasterAuth, MasterDone,
           MasterNo, MasterLosesChild
  <1>2. ChildTypes' /\ FlagTypes' /\ RunningServes' /\ ClientTypes'
    BY <1>0, <1>1 DEF ChildTypes, FlagTypes, RunningServes, Running, ClientTypes, child
  <1>3. up' \in [Procs -> Seq(UpMessages)]
    BY <1>0, ReadsTypes DEF MasterReads, MasterNick, MasterFd, MasterIdentify, MasterNoTakeover, MasterAuth,
           MasterDone, MasterNo, MasterLosesChild, QueueTypes
  <1>4. SUFFICES MasterTypes' /\ down' \in [Procs -> Seq(DownMessages)] /\ Listed' \subseteq Listed
    <2>1. ASSUME Listed' \subseteq Listed  PROVE ListedForked'
      BY <1>0, <1>1, <2>1 DEF ListedForked, child
    <2>. QED  BY <1>2, <1>3, <2>1, TypesMakeTypeOK DEF QueueTypes
  <1>5. CASE MasterNick(p)
    <2>0. Head(up[p]) \in UpMessages /\ Head(up[p]).type \in {"CLIENT", "HELLO", "NICK"}
      BY <1>5, ReadsTypes DEF MasterNick
    <2>1. Head(up[p]).arg \in Nicks \cup {Null}
      BY <2>0 DEF UpMessages, FdMessages
    <2>. QED  BY <1>0, <1>5, <2>1 DEF MasterNick, MasterTypes, QueueTypes, Listed
  <1>6. CASE MasterFd(p)
    <2>0. Head(up[p]) \in UpMessages /\ Head(up[p]).type = "FD"
      BY <1>6, ReadsTypes DEF MasterFd
    <2>1. Head(up[p]).arg \in Procs
      BY <2>0 DEF UpMessages, FdMessages
    <2>. QED  BY <1>0, <1>6, <2>1 DEF MasterFd, MasterTypes, QueueTypes, Listed
  <1>7. CASE MasterIdentify(p)
    <2>. DEFINE m == Head(up[p])
                o == Old(p, m)
    <2>1. m.password \in Nicks
      BY <1>7, ReadsTypes DEF MasterIdentify, UpMessages, FdMessages
    <2>2. MayTakeOver(p, o) => o \in Procs
      BY OldIs DEF MayTakeOver
    <2>3. \/ UNCHANGED <<master, down>>
          \/ FreeAndFail({p}, Partners(p) \cup IF MayTakeOver(p, o) THEN {o} ELSE {})
          \/ /\ pass_of' = [pass_of EXCEPT ![p] = m.password]
             /\ \/ /\ MayTakeOver(p, o)
                   /\ to_child' = [to_child EXCEPT ![p] = o, ![o] = p]
                   /\ down' = [down EXCEPT ![p] = Append(@, Word("INIT"))]
                   /\ UNCHANGED to_fd
                \/ /\ to_fd' = [to_fd EXCEPT ![p] = Null]
                   /\ down' = [down EXCEPT ![p] = Append(@, Word("NO"))]
                   /\ UNCHANGED to_child
             /\ UNCHANGED <<child_list, nick_of>>
      BY <1>7 DEF MasterIdentify
    <2>. HIDE DEF o, m
    <2>4. CASE UNCHANGED <<master, down>>
      BY <1>0, <2>4 DEF master, MasterTypes, QueueTypes, Listed
    <2>5. CASE FreeAndFail({p}, Partners(p) \cup IF MayTakeOver(p, o) THEN {o} ELSE {})
      <3>1. Partners(p) \cup (IF MayTakeOver(p, o) THEN {o} ELSE {}) \in SUBSET Procs
        BY <1>0, <2>2 DEF Partners, Listed, Range, MasterTypes
      <3>. QED  BY <2>5, <3>1, FreeAndFailTypes
    <2>6. CASE /\ pass_of' = [pass_of EXCEPT ![p] = m.password]
               /\ \/ /\ MayTakeOver(p, o)
                     /\ to_child' = [to_child EXCEPT ![p] = o, ![o] = p]
                     /\ down' = [down EXCEPT ![p] = Append(@, Word("INIT"))]
                     /\ UNCHANGED to_fd
                  \/ /\ to_fd' = [to_fd EXCEPT ![p] = Null]
                     /\ down' = [down EXCEPT ![p] = Append(@, Word("NO"))]
                     /\ UNCHANGED to_child
               /\ UNCHANGED <<child_list, nick_of>>
      <3>1. \A w \in {"INIT", "NO"} : Append(down[p], Word(w)) \in Seq(DownMessages)
        <4>1. Word("INIT") \in DownMessages /\ Word("NO") \in DownMessages
          BY DEF Word, Msg, DownMessages
        <4>. QED  BY <1>0, <4>1, RangeAppend DEF QueueTypes
      <3>. QED  BY <1>0, <2>1, <2>2, <2>6, <3>1, ZenonT(40) DEF MasterTypes, QueueTypes, Listed
    <2>. QED  BY <2>3, <2>4, <2>5, <2>6
  <1>8. CASE MasterNoTakeover(p)
    BY <1>8, FreeAndFailTypes DEF MasterNoTakeover
  <1>9. CASE MasterAuth(p)
    <2>. DEFINE m == Head(up[p])
                o == to_child[p]
    <2>1. m \in UpMessages /\ m.type = "AUTH" /\ o \in Procs
      BY <1>0, <1>9, ReadsTypes DEF MasterAuth, Listed, Range, MasterTypes
    <2>2. \/ FreeAndFail({}, {p, o}) \/ FreeAndFail({p}, {o})
          \/ /\ Authorized(p, m)
             /\ down' = [down EXCEPT ![o] =
                   @ \o (IF to_fd[p] = Null THEN <<>> ELSE <<Msg("FD", to_fd[p], Null)>>) \o <<m>>]
             /\ UNCHANGED master
      BY <1>9 DEF MasterAuth
    <2>3. CASE /\ Authorized(p, m)
               /\ down' = [down EXCEPT ![o] =
                     @ \o (IF to_fd[p] = Null THEN <<>> ELSE <<Msg("FD", to_fd[p], Null)>>) \o <<m>>]
               /\ UNCHANGED master
      <3>1. m \in DownMessages
        BY <1>0, <2>1, <2>3 DEF Authorized, UpMessages, FdMessages, DownMessages, MasterTypes
      <3>2. (IF to_fd[p] = Null THEN <<>> ELSE <<Msg("FD", to_fd[p], Null)>>) \in Seq(DownMessages)
        <4>1. to_fd[p] # Null => Msg("FD", to_fd[p], Null) \in DownMessages
          BY <1>0 DEF Msg, DownMessages, FdMessages, MasterTypes
        <4>. QED  BY <4>1
      <3>3. down[o] \o (IF to_fd[p] = Null THEN <<>> ELSE <<Msg("FD", to_fd[p], Null)>>) \o <<m>> \in Seq(DownMessages)
        <4>1. down[o] \in Seq(DownMessages) /\ <<m>> \in Seq(DownMessages)
          BY <1>0, <2>1, <3>1 DEF QueueTypes
        <4>. QED  BY <3>2, <4>1, ConcatProperties
      <3>. HIDE DEF m, o
      <3>. QED  BY <1>0, <2>1, <2>3, <3>3 DEF master, MasterTypes, QueueTypes, Listed
    <2>. HIDE DEF o
    <2>. QED  BY <2>1, <2>2, <2>3, FreeAndFailTypes
  <1>10. CASE MasterDone(p)
    <2>. DEFINE m == Head(up[p])
                o == to_child[p]
    <2>1. m \in UpMessages /\ m.type \in {"DONE", "FAIL"} /\ o \in Procs
      BY <1>0, <1>10, ReadsTypes DEF MasterDone, Listed, Range, MasterTypes
    <2>2. \/ FreeAndFail({p}, {})
          \/ /\ to_fd' = [to_fd EXCEPT ![p] = Null]
             /\ to_child' = [to_child EXCEPT ![p] = Null, ![o] = Null]
             /\ down' = [down EXCEPT ![o] = Append(@, m)]
             /\ UNCHANGED <<child_list, nick_of, pass_of>>
      BY <1>10 DEF MasterDone
    <2>3. CASE /\ to_fd' = [to_fd EXCEPT ![p] = Null]
               /\ to_child' = [to_child EXCEPT ![p] = Null, ![o] = Null]
               /\ down' = [down EXCEPT ![o] = Append(@, m)]
               /\ UNCHANGED <<child_list, nick_of, pass_of>>
      <3>1. m \in DownMessages
        BY <2>1 DEF UpMessages, FdMessages, DownMessages
      <3>. HIDE DEF m, o
      <3>2. Append(down[o], m) \in Seq(DownMessages)
        BY <1>0, <2>1, <3>1, RangeAppend DEF QueueTypes
      <3>. QED  BY <1>0, <2>1, <2>3, <3>2 DEF MasterTypes, QueueTypes, Listed
    <2>. HIDE DEF o
    <2>. QED  BY <2>2, <2>3, FreeAndFailTypes
  <1>11. CASE MasterNo(p)
    BY <1>0, <1>11 DEF MasterNo, master, MasterTypes, QueueTypes, Listed
  <1>12. CASE MasterLosesChild(p)
    <2>1. Partners(p) \in SUBSET Procs
      BY <1>0 DEF Partners, Listed, Range, MasterTypes
    <2>. QED  BY <1>12, <2>1, FreeAndFailTypes DEF MasterLosesChild
  <1>. QED  BY <1>5, <1>6, <1>7, <1>8, <1>9, <1>10, <1>11, <1>12 DEF MasterReads

\* What is known after a restart was before.
LEMMA RestartLists ==
    ASSUME TypeOK, MasterRestart
    PROVE  child_list' \in Seq(Procs) /\ Listed' \subseteq Listed /\ \A p \in Listed' : Writable(p)
  <1>. DEFINE W == {p \in Procs : ~Writable(p)}
              s == Without(child_list, W)
  <1>1. child_list \in Seq(Procs) /\ child_list' = Reverse(s)
    BY DEF TypeOK, MasterRestart
  <1>2. s \in Seq(Procs) /\ Range(s) = Listed \ W
    BY <1>1, WithoutIs DEF Listed
  <1>. HIDE DEF s
  <1>3. child_list' \in Seq(Procs) /\ Listed' = Listed \ W
    BY <1>1, <1>2, RangeReverse DEF Listed
  <1>. QED  BY <1>1, <1>3 DEF Listed, Range

LEMMA RestartTypes ==
    ASSUME TypeOK, MasterRestart
    PROVE  TypeOK'
  <1>. USE DEF MasterRestart
  <1>0. ChildTypes /\ FlagTypes /\ RunningServes /\ MasterTypes /\ QueueTypes /\ ClientTypes /\ ListedForked
    BY TypeOKMeans
  <1>1. ChildTypes' /\ FlagTypes' /\ RunningServes'
    BY <1>0 DEF ChildTypes, FlagTypes, RunningServes, Running, child
  <1>2. ClientTypes' /\ MasterTypes' /\ ListedForked'
    BY <1>0, RestartLists, ConstantsAssumption DEF ClientTypes, Event, MasterTypes, ListedForked, child
  <1>3. QueueTypes'
    <2>1. \A q \in Procs : Append(down[q], Word("HELLO")) \in Seq(DownMessages)
      <3>1. Word("HELLO") \in DownMessages
        BY DEF Word, Msg, DownMessages
      <3>. QED  BY <1>0, <3>1, RangeAppend DEF QueueTypes
    <2>. QED  BY <1>0, <2>1 DEF QueueTypes
  <1>. QED  BY <1>1, <1>2, <1>3, TypesMakeTypeOK

LEMMA NextTypeOK == TypeOK /\ [Next]_vars => TypeOK'
  <1>. SUFFICES ASSUME TypeOK, [Next]_vars PROVE TypeOK'
    OBVIOUS
  <1>1. CASE UNCHANGED vars
    BY <1>1 DEF vars, child, login, master, TypeOK, Running, Listed
  <1>2. ASSUME NEW p \in Procs, User(p)  PROVE TypeOK'
    BY <1>2, ConnectTypes, UserTypes DEF User
  <1>3. ASSUME NEW p \in Procs, LoginTimer(p) \/ Exit(p) \/ ChildReads(p) \/ MasterReads(p)  PROVE TypeOK'
    BY <1>3, ChildStepTypes, MasterReadsTypes
  <1>. QED  BY <1>1, <1>2, <1>3, RestartTypes DEF Next

\* The variables have their types.
THEOREM TypeCorrect == Spec => []TypeOK
  BY InitTypeOK, NextTypeOK, PTL DEF Spec, Safety

-----------------------------------------------------------------------------
(* Who is paired with whom *)

LEMMA InitLinks == Init => LinksPairSessions
  BY DEF Init, LinksPairSessions

\* Freeing some children and failing others leaves no half of a pair: who is
\* failed has no partner, or one that is freed or failed as well.
LEMMA FreeKeepsLinks ==
    ASSUME TypeOK, LinksPairSessions, NEW F, NEW S \in SUBSET Procs, FreeAndFail(F, S),
           \A o \in S : to_child[o] \in F \cup S \cup {Null}
    PROVE  LinksPairSessions'
  <1>0. MasterTypes
    BY TypeOKMeans
  <1>1. Listed' = Listed \ (F \cup {o \in S : to_fd[o] # Null /\ ~Writable(o)})
    BY FreeAndFailTypes
  <1>2. to_child' = [q \in Procs |-> IF q \in F \cup S \cup Unlinked(F) THEN Null ELSE to_child[q]]
    BY DEF FreeAndFail
  <1>. SUFFICES ASSUME NEW q \in Procs, to_child'[q] # Null
                PROVE  /\ {q, to_child'[q]} \subseteq Listed' /\ to_child'[q] # q
                       /\ to_child'[to_child'[q]] = q
    BY DEF LinksPairSessions
  <1>. DEFINE r == to_child[q]
  <1>3. q \notin F \cup S \cup Unlinked(F) /\ to_child'[q] = r /\ r # Null
    BY <1>2
  <1>4. {q, r} \subseteq Listed /\ r # q /\ to_child[r] = q /\ r \in Procs
    BY <1>0, <1>3 DEF LinksPairSessions, MasterTypes
  <1>5. r \notin F
    BY <1>3 DEF Unlinked
  <1>6. r \notin S
    BY <1>3, <1>4, ConstantsAssumption
  <1>7. r \notin Unlinked(F)
    BY <1>3, <1>4 DEF Unlinked
  <1>8. to_child'[r] = q
    BY <1>2, <1>4, <1>5, <1>6, <1>7
  <1>. HIDE DEF r
  <1>. QED  BY <1>1, <1>3, <1>4, <1>5, <1>6, <1>8

\* Two listed children without a partner become a pair, or a pair parts.
LEMMA PairKeepsLinks ==
    ASSUME TypeOK, LinksPairSessions, NEW p \in Listed, NEW o \in Listed, p # o,
           Listed' = Listed,
           \/ /\ to_child[p] = Null /\ to_child[o] = Null
              /\ to_child' = [to_child EXCEPT ![p] = o, ![o] = p]
           \/ /\ to_child[p] = o
              /\ to_child' = [to_child EXCEPT ![p] = Null, ![o] = Null]
    PROVE  LinksPairSessions'
  <1>0. MasterTypes
    BY TypeOKMeans
  <1>1. p \in Procs /\ o \in Procs
    BY <1>0 DEF MasterTypes, Listed, Range
  <1>. SUFFICES ASSUME NEW q \in Procs, to_child'[q] # Null
                PROVE  /\ {q, to_child'[q]} \subseteq Listed' /\ to_child'[q] # q
                       /\ to_child'[to_child'[q]] = q
    BY DEF LinksPairSessions
  <1>2. CASE /\ to_child[p] = Null /\ to_child[o] = Null
             /\ to_child' = [to_child EXCEPT ![p] = o, ![o] = p]
    <2>1. CASE q \in {p, o}
      BY <1>0, <1>1, <1>2, <2>1 DEF MasterTypes
    <2>2. CASE q \notin {p, o}
      <3>1. to_child'[q] = to_child[q] /\ to_child[q] # Null
        BY <1>0, <1>2, <2>2 DEF MasterTypes
      <3>2. {q, to_child[q]} \subseteq Listed /\ to_child[q] # q /\ to_child[to_child[q]] = q /\ to_child[q] \in Procs
        BY <1>0, <3>1 DEF LinksPairSessions, MasterTypes
      <3>3. to_child[q] \notin {p, o}
        BY <1>2, <3>2, ConstantsAssumption
      <3>. QED  BY <1>0, <1>2, <3>1, <3>2, <3>3 DEF MasterTypes
    <2>. QED  BY <2>1, <2>2
  <1>3. CASE /\ to_child[p] = o
             /\ to_child' = [to_child EXCEPT ![p] = Null, ![o] = Null]
    <2>1. to_child[o] = p
      BY <1>1, <1>3, ConstantsAssumption DEF LinksPairSessions
    <2>2. q \notin {p, o} /\ to_child'[q] = to_child[q] /\ to_child[q] # Null
      BY <1>0, <1>1, <1>3 DEF MasterTypes
    <2>3. {q, to_child[q]} \subseteq Listed /\ to_child[q] # q /\ to_child[to_child[q]] = q /\ to_child[q] \in Procs
      BY <1>0, <2>2 DEF LinksPairSessions, MasterTypes
    <2>4. to_child[q] \notin {p, o}
      BY <1>3, <2>1, <2>2, <2>3
    <2>. QED  BY <1>0, <1>3, <2>2, <2>3, <2>4 DEF MasterTypes
  <1>. QED  BY <1>2, <1>3

\* What a child does only adds to the children that the master knows.
LEMMA ChildKeepsLinks ==
    ASSUME LinksPairSessions, to_child' = to_child, Listed \subseteq Listed'
    PROVE  LinksPairSessions'
  BY DEF LinksPairSessions

\* The steps of the children and their users leave the master alone, but for
\* the new ones that it forks.
LEMMA ChildrenOnlyJoin ==
    ASSUME TypeOK, NEW p \in Procs, User(p) \/ LoginTimer(p) \/ Exit(p) \/ ChildReads(p)
    PROVE  to_child' = to_child /\ Listed \subseteq Listed'
  <1>1. CASE \E n \in Nicks : Connect(p, n)
    <2>1. child_list \in Seq(Procs) /\ child_list' = Append(child_list, p) /\ to_child' = to_child
      BY <1>1 DEF Connect, TypeOK
    <2>. QED  BY <2>1, RangeAppend DEF Listed
  <1>2. CASE ~ \E n \in Nicks : Connect(p, n)
    <2>1. UNCHANGED master
      BY <1>2 DEF User, ChangeNick, Identify, SetAllowTakeover, Drop, AnswerYes, AnswerNo, ClientCloses, Abort,
             LoginTimer, Exit, ChildReads, ReceiveFd, ReceiveHello, ReceiveInit, ReceiveAuth, ReceiveDone,
             ReceiveRefusal, LoseMaster
    <2>. QED  BY <2>1 DEF master, Listed
  <1>. QED  BY <1>1, <1>2

LEMMA MasterReadsKeepsLinks ==
    ASSUME TypeOK, LinksPairSessions, NEW p \in Procs, MasterReads(p)
    PROVE  LinksPairSessions'
  <1>0. MasterTypes /\ Null \notin Procs
    BY TypeOKMeans, ConstantsAssumption
  <1>1. CASE MasterNick(p) \/ MasterFd(p) \/ MasterNo(p)
    BY <1>1, ChildKeepsLinks DEF MasterNick, MasterFd, MasterNo, master, Listed
  <1>2. ASSUME NEW S \in SUBSET Procs, \A o \in S : o \in Partners(p) \/ to_child[o] = Null,
               FreeAndFail({p}, S)
        PROVE  LinksPairSessions'
    BY <1>2, FreeKeepsLinks DEF Partners
  <1>3. Partners(p) \in SUBSET Procs
    BY <1>0 DEF Partners, Listed, Range, MasterTypes
  <1>4. CASE MasterIdentify(p)
    <2>. DEFINE m == Head(up[p])
                o == Old(p, m)
    <2>0. p \in Listed
      BY <1>4, ReadsTypes DEF MasterIdentify
    <2>1. MayTakeOver(p, o) => o \in Procs /\ o \in Listed /\ o # p /\ to_child[o] = Null /\ to_child[p] = Null
      BY OldIs DEF MayTakeOver
    <2>2. \/ UNCHANGED master
          \/ FreeAndFail({p}, Partners(p) \cup IF MayTakeOver(p, o) THEN {o} ELSE {})
          \/ MayTakeOver(p, o) /\ to_child' = [to_child EXCEPT ![p] = o, ![o] = p] /\ UNCHANGED child_list
          \/ UNCHANGED <<to_child, child_list>>
      BY <1>4 DEF MasterIdentify
    <2>. HIDE DEF o
    <2>3. CASE UNCHANGED <<to_child, child_list>> \/ UNCHANGED master
      BY <2>3, ChildKeepsLinks DEF Listed, master
    <2>4. CASE FreeAndFail({p}, Partners(p) \cup IF MayTakeOver(p, o) THEN {o} ELSE {})
      BY <1>2, <1>3, <2>1, <2>4
    <2>5. CASE MayTakeOver(p, o) /\ to_child' = [to_child EXCEPT ![p] = o, ![o] = p] /\ UNCHANGED child_list
      BY <2>0, <2>1, <2>5, PairKeepsLinks DEF Listed
    <2>. QED  BY <2>2, <2>3, <2>4, <2>5
  <1>5. CASE MasterNoTakeover(p)
    <2>1. FreeAndFail({}, {p}) /\ to_child[p] = Null
      BY <1>5 DEF MasterNoTakeover, LinksPairSessions
    <2>. QED  BY <2>1, FreeKeepsLinks
  <1>6. ASSUME p \in Listed, to_child[p] \in Listed
        PROVE  to_child[p] \in Procs /\ to_child[p] # p /\ to_child[to_child[p]] = p
    BY <1>0, <1>6 DEF LinksPairSessions, MasterTypes, Listed, Range
  <1>7. CASE MasterAuth(p)
    <2>. DEFINE o == to_child[p]
    <2>1. o \in Procs /\ o # p /\ to_child[o] = p
      BY <1>6, <1>7, ReadsTypes DEF MasterAuth
    <2>2. FreeAndFail({}, {p, o}) \/ FreeAndFail({p}, {o}) \/ UNCHANGED master
      BY <1>7 DEF MasterAuth
    <2>3. CASE FreeAndFail({}, {p, o})
      BY <2>1, <2>3, FreeKeepsLinks
    <2>4. CASE FreeAndFail({p}, {o})
      BY <2>1, <2>4, FreeKeepsLinks
    <2>5. CASE UNCHANGED master
      BY <2>5, ChildKeepsLinks DEF master, Listed
    <2>. QED  BY <2>2, <2>3, <2>4, <2>5
  <1>8. CASE MasterDone(p)
    <2>. DEFINE o == to_child[p]
    <2>1. p \in Listed /\ o \in Listed /\ o # p
      BY <1>6, <1>8, ReadsTypes DEF MasterDone
    <2>2. \/ FreeAndFail({p}, {})
          \/ to_child' = [to_child EXCEPT ![p] = Null, ![o] = Null] /\ UNCHANGED child_list
      BY <1>8 DEF MasterDone
    <2>3. CASE FreeAndFail({p}, {})
      BY <1>2, <2>3
    <2>4. CASE to_child' = [to_child EXCEPT ![p] = Null, ![o] = Null] /\ UNCHANGED child_list
      BY <2>1, <2>4, PairKeepsLinks DEF Listed
    <2>. QED  BY <2>2, <2>3, <2>4
  <1>9. CASE MasterLosesChild(p)
    BY <1>2, <1>3, <1>9 DEF MasterLosesChild
  <1>. QED  BY <1>1, <1>4, <1>5, <1>7, <1>8, <1>9 DEF MasterReads

LEMMA NextLinks == TypeOK /\ LinksPairSessions /\ [Next]_vars => LinksPairSessions'
  <1>. SUFFICES ASSUME TypeOK, LinksPairSessions, [Next]_vars PROVE LinksPairSessions'
    OBVIOUS
  <1>1. CASE UNCHANGED vars
    BY <1>1, ChildKeepsLinks DEF vars, master, Listed
  <1>2. ASSUME NEW p \in Procs, User(p) \/ LoginTimer(p) \/ Exit(p) \/ ChildReads(p)
        PROVE  LinksPairSessions'
    BY <1>2, ChildrenOnlyJoin, ChildKeepsLinks
  <1>3. CASE MasterRestart
    BY <1>3 DEF MasterRestart, LinksPairSessions
  <1>. QED  BY <1>1, <1>2, <1>3, MasterReadsKeepsLinks DEF Next

\* The master pairs only different children that it knows, each with the other:
\* no to_child dangles, whichever of them is freed, told to fail, or restarted.
THEOREM PairsNeverDangle == Spec => []LinksPairSessions
  BY InitTypeOK, NextTypeOK, InitLinks, NextLinks, PTL DEF Spec, Safety

-----------------------------------------------------------------------------
(* Which descriptor an AUTH finds.  It is sent after its descriptor, over   *)
(* the same socket; the master keeps the last descriptor of each child, and *)
(* the child the last that came down.                                      *)

\* The messages of q between the i-th and the j-th report no move.
Still(q, i, j) == \A k \in i .. j : q[k].type # "DONE"

\* What is to be read from a child, when the master has the descriptor fd of
\* it: each AUTH stands for a question that was answered, on the connection
\* whose descriptor the master will have when it reads that line.
Asks(q, fd, S) ==
    \A i \in 1 .. Len(q) : q[i].type = "AUTH" =>
        /\ \E c \in Procs : <<c, q[i].password>> \in S
        /\ fd # Null /\ Still(q, 1, i) => <<fd, q[i].password>> \in S
        /\ \A j \in 1 .. i : q[j].type = "FD" /\ Still(q, j, i) => <<q[j].arg, q[i].password>> \in S

\* What the master would have in the end is the descriptor of the connection c.
Current(q, fd, c) ==
    /\ fd # Null /\ Still(q, 1, Len(q)) => fd = c
    /\ \A j \in 1 .. Len(q) : q[j].type = "FD" /\ Still(q, j, Len(q)) => q[j].arg = c

Alive(p) == Writable(p) /\ p \in Listed

Sent(p) ==
    /\ Asks(up[p], to_fd[p], said)
    /\ Alive(p) => Current(up[p], to_fd[p], conn[p])
    /\ to_fd[p] # Null => p \in Listed

\* What reaches a child: a descriptor of a connection, and an AUTH of a user,
\* where a question was answered.
Reached(fd, ms, S) ==
    /\ fd # Null => \E n \in Nicks : <<fd, n>> \in S
    /\ \A m \in ms : /\ m.type = "FD" => \E n \in Nicks : <<m.arg, n>> \in S
                     /\ m.type = "AUTH" => \E c \in Procs : <<c, m.password>> \in S

\* And where the child has had one user, whom the master takes for its user:
OneUser(p) ==
    /\ logins[p] = 0 =>
         /\ password[p] = Null /\ pass_of[p] = Null /\ recv_fd[p] = Null
         /\ \A m \in Range(up[p]) : m.type # "IDENTIFY"
         /\ \A m \in Range(down[p]) : m.type # "FD"
    /\ logins[p] = 1 /\ password[p] # Null =>
         /\ pass_of[p] \in {Null, password[p]}
         /\ \A m \in Range(up[p]) : m.type = "IDENTIFY" => m.password = password[p]
         /\ \A m \in Range(down[p]) : m.type = "FD" => <<m.arg, password[p]>> \in said
         /\ recv_fd[p] # Null => <<recv_fd[p], password[p]>> \in said

Holds(p) == Sent(p) /\ Reached(recv_fd[p], Range(down[p]), said) /\ OneUser(p)
Flow == \A p \in Procs : Holds(p)

LEMMA AppendIndices ==
    ASSUME NEW T, NEW q \in Seq(T), NEW m \in T
    PROVE  /\ Len(q) \in Nat /\ Len(Append(q, m)) = Len(q) + 1
           /\ \A i \in 1 .. Len(q) : Append(q, m)[i] = q[i]
           /\ Append(q, m)[Len(q) + 1] = m
  OBVIOUS

LEMMA TailIndices ==
    ASSUME NEW T, NEW q \in Seq(T), q # <<>>
    PROVE  /\ Len(q) \in Nat \ {0} /\ Len(Tail(q)) = Len(q) - 1
           /\ \A i \in 1 .. Len(Tail(q)) : Tail(q)[i] = q[i + 1]
           /\ Head(q) = q[1]
  BY HeadTailProperties, EmptySeq, LenProperties

\* An AUTH may be sent when the descriptor that goes before it is the one of
\* the connection where the question was answered.
LEMMA AsksAppend ==
    ASSUME NEW T, NEW q \in Seq(T), NEW m \in T, NEW fd, NEW S, NEW R, S \subseteq R, Asks(q, fd, S),
           m.type = "AUTH" => \E c \in Procs : Current(q, fd, c) /\ <<c, m.password>> \in R
    PROVE  Asks(Append(q, m), fd, R)
  <1>. DEFINE r == Append(q, m)
              n == Len(q)
  <1>1. n \in Nat /\ Len(r) = n + 1 /\ (\A i \in 1 .. n : r[i] = q[i]) /\ r[n + 1] = m
    BY AppendIndices
  <1>. HIDE DEF r, n
  <1>. SUFFICES ASSUME NEW i \in 1 .. Len(r), r[i].type = "AUTH"
                PROVE  /\ \E c \in Procs : <<c, r[i].password>> \in R
                       /\ fd # Null /\ Still(r, 1, i) => <<fd, r[i].password>> \in R
                       /\ \A j \in 1 .. i : r[j].type = "FD" /\ Still(r, j, i)
                                              => <<r[j].arg, r[i].password>> \in R
    BY DEF Asks, r
  <1>2. CASE i <= n
    <2>1. i \in 1 .. n /\ r[i] = q[i] /\ \A k \in 1 .. i : k \in 1 .. n /\ r[k] = q[k]
      BY <1>1, <1>2
    <2>2. \A j \in 1 .. i : Still(r, j, i) => Still(q, j, i)
      BY <1>1, <2>1 DEF Still
    <2>3. 1 \in 1 .. i
      BY <2>1
    <2>4. /\ \E c \in Procs : <<c, q[i].password>> \in S
          /\ fd # Null /\ Still(q, 1, i) => <<fd, q[i].password>> \in S
          /\ \A j \in 1 .. i : q[j].type = "FD" /\ Still(q, j, i) => <<q[j].arg, q[i].password>> \in S
      BY <2>1 DEF Asks, n
    <2>. QED  BY <2>1, <2>2, <2>3, <2>4
  <1>3. CASE i = n + 1
    <2>1. r[i] = m
      BY <1>1, <1>3
    <2>2. PICK c \in Procs : Current(q, fd, c) /\ <<c, m.password>> \in R
      BY <2>1
    <2>3. \A j \in 1 .. i : Still(r, j, i) => Still(q, j, n)
      BY <1>1, <1>3 DEF Still
    <2>4. fd # Null /\ Still(r, 1, i) => fd = c
      <3>1. 1 \in 1 .. i
        BY <1>1, <1>3
      <3>. QED  BY <2>2, <2>3, <3>1 DEF Current, n
    <2>5. ASSUME NEW j \in 1 .. i, r[j].type = "FD", Still(r, j, i)
          PROVE  r[j].arg = c
      <3>1. j # i
        BY <2>5, <2>1
      <3>2. j \in 1 .. n /\ r[j] = q[j]
        BY <1>1, <1>3, <3>1
      <3>. QED  BY <2>2, <2>3, <2>5, <3>2 DEF Current, n
    <2>. QED  BY <2>1, <2>2, <2>4, <2>5
  <1>4. i <= n \/ i = n + 1
    BY <1>1
  <1>. QED  BY <1>2, <1>3, <1>4

\* The descriptor is still that of the connection, or the move is reported.
LEMMA CurrentAppend ==
    ASSUME NEW T, NEW q \in Seq(T), NEW m \in T, NEW fd, NEW c,
           m.type = "DONE" \/ (Current(q, fd, c) /\ (m.type = "FD" => m.arg = c))
    PROVE  Current(Append(q, m), fd, c)
  <1>. DEFINE r == Append(q, m)
              n == Len(q)
  <1>1. n \in Nat /\ Len(r) = n + 1 /\ (\A i \in 1 .. n : r[i] = q[i]) /\ r[n + 1] = m
    BY AppendIndices
  <1>. HIDE DEF r, n
  <1>2. \A j \in 1 .. (n + 1) : Still(r, j, n + 1) => m.type # "DONE" /\ Still(q, j, n)
    BY <1>1 DEF Still
  <1>3. 1 \in 1 .. (n + 1)
    BY <1>1
  <1>4. fd # Null /\ Still(r, 1, n + 1) => fd = c
    BY <1>2, <1>3 DEF Current, n
  <1>5. ASSUME NEW j \in 1 .. (n + 1), r[j].type = "FD", Still(r, j, n + 1)
        PROVE  r[j].arg = c
    <2>1. CASE j = n + 1
      BY <1>1, <1>2, <1>5, <2>1
    <2>2. CASE j # n + 1
      <3>1. j \in 1 .. n /\ r[j] = q[j]
        BY <1>1, <2>2
      <3>. QED  BY <1>2, <1>5, <3>1 DEF Current, n
    <2>. QED  BY <2>1, <2>2
  <1>. QED  BY <1>1, <1>4, <1>5 DEF Current, r

\* What the master may have as the descriptor when it has read the first line
NextFd(q, fd, g) ==
    \/ g = Null
    \/ g = fd /\ Head(q).type # "DONE"
    \/ Head(q).type = "FD" /\ g = Head(q).arg

LEMMA AsksTail ==
    ASSUME NEW T, NEW q \in Seq(T), q # <<>>, NEW fd, NEW g, NEW S, Asks(q, fd, S), NextFd(q, fd, g)
    PROVE  Asks(Tail(q), g, S)
  <1>. DEFINE r == Tail(q)
              n == Len(q)
  <1>1. n \in Nat \ {0} /\ Len(r) = n - 1 /\ (\A i \in 1 .. Len(r) : r[i] = q[i + 1]) /\ Head(q) = q[1]
    BY TailIndices
  <1>. HIDE DEF r, n
  <1>. SUFFICES ASSUME NEW i \in 1 .. Len(r), r[i].type = "AUTH"
                PROVE  /\ \E c \in Procs : <<c, r[i].password>> \in S
                       /\ g # Null /\ Still(r, 1, i) => <<g, r[i].password>> \in S
                       /\ \A j \in 1 .. i : r[j].type = "FD" /\ Still(r, j, i)
                                              => <<r[j].arg, r[i].password>> \in S
    BY DEF Asks, r
  <1>2. i + 1 \in 1 .. n /\ r[i] = q[i + 1] /\ \A j \in 1 .. i : j + 1 \in 1 .. (i + 1) /\ r[j] = q[j + 1]
    BY <1>1
  <1>3. /\ \E c \in Procs : <<c, q[i + 1].password>> \in S
        /\ fd # Null /\ Still(q, 1, i + 1) => <<fd, q[i + 1].password>> \in S
        /\ \A j \in 1 .. (i + 1) : q[j].type = "FD" /\ Still(q, j, i + 1)
                                      => <<q[j].arg, q[i + 1].password>> \in S
    BY <1>2 DEF Asks, n
  <1>4. \A j \in 1 .. i : Still(r, j, i) => Still(q, j + 1, i + 1)
    <2>. SUFFICES ASSUME NEW j \in 1 .. i, Still(r, j, i), NEW k \in (j + 1) .. (i + 1)
                  PROVE  q[k].type # "DONE"
      BY DEF Still
    <2>1. k - 1 \in j .. i /\ k - 1 \in 1 .. i /\ (k - 1) + 1 = k
      BY <1>1
    <2>. QED  BY <1>2, <2>1 DEF Still
  <1>5. ASSUME Still(r, 1, i), g # Null
        PROVE  <<g, r[i].password>> \in S
    <2>1. Head(q).type # "DONE" /\ (g = fd \/ (Head(q).type = "FD" /\ g = q[1].arg))
      BY <1>1, <1>5 DEF NextFd
    <2>2. Still(q, 1, i + 1)
      <3>. SUFFICES ASSUME NEW k \in 1 .. (i + 1) PROVE q[k].type # "DONE"
        BY DEF Still
      <3>1. k = 1 \/ (k - 1 \in 1 .. i /\ (k - 1) + 1 = k)
        BY <1>1
      <3>. QED  BY <1>1, <1>2, <1>5, <2>1, <3>1 DEF Still
    <2>3. 1 \in 1 .. (i + 1)
      BY <1>1
    <2>. QED  BY <1>1, <1>2, <1>3, <1>5, <2>1, <2>2, <2>3
  <1>. QED  BY <1>2, <1>3, <1>4, <1>5

LEMMA CurrentTail ==
    ASSUME NEW T, NEW q \in Seq(T), q # <<>>, NEW fd, NEW g, NEW c, Current(q, fd, c), NextFd(q, fd, g)
    PROVE  Current(Tail(q), g, c)
  <1>. DEFINE r == Tail(q)
              n == Len(q)
  <1>1. n \in Nat \ {0} /\ Len(r) = n - 1 /\ (\A i \in 1 .. Len(r) : r[i] = q[i + 1]) /\ Head(q) = q[1]
    BY TailIndices
  <1>. HIDE DEF r, n
  <1>2. \A j \in 1 .. (n - 1) : Still(r, j, n - 1) => Still(q, j + 1, n)
    <2>. SUFFICES ASSUME NEW j \in 1 .. (n - 1), Still(r, j, n - 1), NEW k \in (j + 1) .. n
                  PROVE  q[k].type # "DONE"
      BY DEF Still
    <2>1. k - 1 \in j .. (n - 1) /\ k - 1 \in 1 .. (n - 1) /\ (k - 1) + 1 = k
      BY <1>1
    <2>. QED  BY <1>1, <2>1 DEF Still
  <1>3. ASSUME g # Null, Still(r, 1, n - 1)
        PROVE  g = c
    <2>1. Head(q).type # "DONE" /\ (g = fd \/ (Head(q).type = "FD" /\ g = q[1].arg))
      BY <1>1, <1>3 DEF NextFd
    <2>2. Still(q, 1, n)
      <3>. SUFFICES ASSUME NEW k \in 1 .. n PROVE q[k].type # "DONE"
        BY DEF Still
      <3>1. k = 1 \/ (k - 1 \in 1 .. (n - 1) /\ (k - 1) + 1 = k)
        BY <1>1
      <3>. QED  BY <1>1, <1>3, <2>1, <3>1 DEF Still
    <2>3. 1 \in 1 .. n
      BY <1>1
    <2>. QED  BY <1>1, <1>3, <2>1, <2>2, <2>3 DEF Current, n
  <1>4. ASSUME NEW j \in 1 .. (n - 1), r[j].type = "FD", Still(r, j, n - 1)
        PROVE  r[j].arg = c
    <2>1. j + 1 \in 1 .. n /\ r[j] = q[j + 1]
      BY <1>1
    <2>. QED  BY <1>2, <1>4, <2>1 DEF Current, n
  <1>. QED  BY <1>1, <1>3, <1>4 DEF Current, r

LEMMA FewerDescriptors ==
    ASSUME NEW q, NEW fd, NEW g, g \in {fd, Null}, NEW S, NEW R, S \subseteq R, NEW c
    PROVE  /\ Asks(q, fd, S) => Asks(q, g, R)
           /\ Current(q, fd, c) => Current(q, g, c)
  BY DEF Asks, Current

-----------------------------------------------------------------------------
(* What the steps do to it *)

LEMMA InitFlow == Init => Flow
  <1>. SUFFICES ASSUME Init, NEW p \in Procs PROVE Holds(p)
    BY DEF Flow
  <1>1. /\ up[p] = <<>> /\ down[p] = <<>> /\ to_fd[p] = Null /\ recv_fd[p] = Null /\ password[p] = Null
        /\ pass_of[p] = Null /\ ~ Running(p) /\ logins[p] = 0
    BY DEF Init, Running
  <1>2. Range(<<>>) = {} /\ 1 .. Len(<<>>) = {}
    BY DEF Range
  <1>3. Sent(p)
    BY <1>1, <1>2 DEF Sent, Asks, Alive, Writable
  <1>4. Reached(recv_fd[p], Range(down[p]), said) /\ OneUser(p)
    BY <1>1, <1>2 DEF Reached, OneUser
  <1>. QED  BY <1>3, <1>4 DEF Holds

\* Nothing is sent up, and the master at most forgets a descriptor.
LEMMA SentQuiet ==
    ASSUME NEW p \in Procs, Sent(p), up'[p] = up[p], to_fd'[p] \in {to_fd[p], Null}, said \subseteq said',
           Alive(p)' => Alive(p) /\ conn'[p] = conn[p],
           to_fd'[p] # Null => p \in Listed'
    PROVE  Sent(p)'
  <1>1. Asks(up[p], to_fd'[p], said')
    BY FewerDescriptors DEF Sent
  <1>2. Alive(p)' => Current(up[p], to_fd'[p], conn'[p])
    BY FewerDescriptors DEF Sent
  <1>. QED  BY <1>1, <1>2 DEF Sent

\* A line of one message is sent up.
LEMMA SentMore ==
    ASSUME TypeOK, NEW p \in Procs, Sent(p), Running(p), NEW m \in UpMessages, ToMaster(p, <<m>>),
           UNCHANGED <<to_fd, child_list>>, said \subseteq said',
           m.type = "AUTH" => <<conn[p], m.password>> \in said',
           m.type # "FD", m.type = "DONE" \/ conn'[p] = conn[p]
    PROVE  Sent(p)'
  <1>0. up \in [Procs -> Seq(UpMessages)] /\ ipc \in [Procs -> BOOLEAN] /\ conn[p] \in Procs
    BY DEF TypeOK, Running
  <1>1. CASE ipc[p] /\ p \in Listed
    <2>1. up'[p] = Append(up[p], m)
      <3>1. up'[p] = up[p] \o <<m>>
        BY <1>0, <1>1 DEF ToMaster
      <3>. QED  BY <1>0, <3>1, RangeAppend
    <2>2. Alive(p)
      BY <1>1 DEF Alive, Writable
    <2>3. Current(up[p], to_fd[p], conn[p])
      BY <2>2 DEF Sent
    <2>4. Asks(up'[p], to_fd'[p], said')
      <3>1. m.type = "AUTH" => \E c \in Procs : Current(up[p], to_fd[p], c) /\ <<c, m.password>> \in said'
        BY <1>0, <2>3
      <3>2. Asks(up[p], to_fd[p], said) /\ up[p] \in Seq(UpMessages)
        BY <1>0 DEF Sent
      <3>3. Asks(Append(up[p], m), to_fd[p], said')
        BY <3>1, <3>2, AsksAppend
      <3>. QED  BY <2>1, <3>3
    <2>5. Current(up'[p], to_fd'[p], conn'[p])
      <3>1. m.type = "DONE" \/ (Current(up[p], to_fd[p], conn'[p]) /\ (m.type = "FD" => m.arg = conn'[p]))
        BY <2>3
      <3>2. up[p] \in Seq(UpMessages)
        BY <1>0
      <3>3. Current(Append(up[p], m), to_fd[p], conn'[p])
        BY <3>1, <3>2, CurrentAppend
      <3>. QED  BY <2>1, <3>3
    <2>6. to_fd'[p] # Null => p \in Listed'
      BY <1>1 DEF Listed
    <2>. QED  BY <2>4, <2>5, <2>6 DEF Sent
  <1>2. CASE ~ (ipc[p] /\ p \in Listed)
    <2>1. up' = up /\ ipc'[p] = FALSE
      BY <1>0, <1>2 DEF ToMaster
    <2>2. ~ Alive(p)'
      BY <2>1 DEF Alive, Writable
    <2>3. to_fd'[p] # Null => p \in Listed'
      BY DEF Sent, Listed
    <2>. QED  BY <2>1, <2>2, <2>3, SentQuiet
  <1>. QED  BY <1>1, <1>2

\* The master reads a line.
LEMMA SentRead ==
    ASSUME TypeOK, NEW p \in Procs, Sent(p), up[p] # <<>>, up'[p] = Tail(up[p]),
           NextFd(up[p], to_fd[p], to_fd'[p]), said' = said,
           Alive(p)' => Alive(p) /\ conn'[p] = conn[p],
           to_fd'[p] # Null => p \in Listed'
    PROVE  Sent(p)'
  <1>0. up[p] \in Seq(UpMessages)
    BY DEF TypeOK
  <1>1. Asks(up[p], to_fd[p], said) /\ (Alive(p) => Current(up[p], to_fd[p], conn[p]))
    BY DEF Sent
  <1>2. Asks(Tail(up[p]), to_fd'[p], said)
    BY <1>0, <1>1, AsksTail
  <1>3. Alive(p) => Current(Tail(up[p]), to_fd'[p], conn[p])
    BY <1>0, <1>1, CurrentTail
  <1>. QED  BY <1>2, <1>3 DEF Sent

LEMMA ReachedKept ==
    ASSUME NEW fd, NEW gd, NEW ms, NEW ns, NEW S, NEW R, S \subseteq R, Reached(fd, ms, S),
           gd \in {fd, Null}, \A m \in ns : m \in ms \/ m.type \notin {"FD", "AUTH"}
    PROVE  Reached(gd, ns, R)
  BY DEF Reached

\* Nothing that says whose the session is has been added.
LEMMA OneUserKept ==
    ASSUME NEW p \in Procs, OneUser(p), said \subseteq said', logins'[p] = logins[p],
           password'[p] \in {password[p], Null}, pass_of'[p] \in {pass_of[p], Null},
           recv_fd'[p] \in {recv_fd[p], Null},
           \A m \in Range(up'[p]) : m \in Range(up[p]) \/ m.type # "IDENTIFY",
           \A m \in Range(down'[p]) : m \in Range(down[p]) \/ m.type # "FD"
    PROVE  OneUser(p)'
  <1>1. logins[p] = 0 =>
          /\ password'[p] = Null /\ pass_of'[p] = Null /\ recv_fd'[p] = Null
          /\ \A m \in Range(up'[p]) : m.type # "IDENTIFY"
          /\ \A m \in Range(down'[p]) : m.type # "FD"
    BY DEF OneUser
  <1>2. ASSUME logins[p] = 1, password'[p] # Null
        PROVE  /\ pass_of'[p] \in {Null, password'[p]}
               /\ \A m \in Range(up'[p]) : m.type = "IDENTIFY" => m.password = password'[p]
               /\ \A m \in Range(down'[p]) : m.type = "FD" => <<m.arg, password'[p]>> \in said'
               /\ recv_fd'[p] # Null => <<recv_fd'[p], password'[p]>> \in said'
    <2>1. password'[p] = password[p]
      BY <1>2
    <2>. QED  BY <1>2, <2>1 DEF OneUser
  <1>. QED  BY <1>1, <1>2 DEF OneUser

\* A step that is not about p
LEMMA ApartHolds ==
    ASSUME NEW p \in Procs, Holds(p), said \subseteq said', up'[p] = up[p], down'[p] = down[p],
           to_fd'[p] \in {to_fd[p], Null}, to_fd'[p] # Null => p \in Listed', Alive(p)' => Alive(p),
           conn'[p] = conn[p], password'[p] = password[p], recv_fd'[p] = recv_fd[p],
           logins'[p] = logins[p], pass_of'[p] \in {pass_of[p], Null}
    PROVE  Holds(p)'
  <1>1. Sent(p)'
    BY SentQuiet DEF Holds
  <1>2. Reached(recv_fd'[p], Range(down'[p]), said')
    BY ReachedKept DEF Holds
  <1>3. OneUser(p)'
    BY OneUserKept DEF Holds
  <1>. QED  BY <1>1, <1>2, <1>3 DEF Holds

\* A step of p that sends up at most a line that is neither a descriptor nor
\* an IDENTIFY, and receives at most lines that tell it nothing
LEMMA ChildHolds ==
    ASSUME TypeOK, NEW p \in Procs, Holds(p), Running(p), UNCHANGED <<child_list, pass_of, to_fd>>,
           said \subseteq said', logins'[p] = logins[p], password'[p] \in {password[p], Null},
           recv_fd'[p] \in {recv_fd[p], Null}, Range(down'[p]) \subseteq Range(down[p]),
           \/ up'[p] = up[p] /\ (Alive(p)' => Alive(p) /\ conn'[p] = conn[p])
           \/ \E m \in UpMessages :
                 /\ ToMaster(p, <<m>>)
                 /\ m.type \notin {"FD", "IDENTIFY"}
                 /\ m.type = "AUTH" => <<conn[p], m.password>> \in said'
                 /\ m.type = "DONE" \/ conn'[p] = conn[p]
    PROVE  Holds(p)'
  <1>1. Reached(recv_fd'[p], Range(down'[p]), said')
    BY ReachedKept DEF Holds
  <1>2. CASE up'[p] = up[p] /\ (Alive(p)' => Alive(p) /\ conn'[p] = conn[p])
    <2>1. to_fd'[p] # Null => p \in Listed'
      BY DEF Holds, Sent, Listed
    <2>2. Sent(p)'
      BY <1>2, <2>1, SentQuiet DEF Holds
    <2>3. OneUser(p)'
      BY <1>2, OneUserKept DEF Holds
    <2>. QED  BY <1>1, <2>2, <2>3 DEF Holds
  <1>3. CASE \E m \in UpMessages :
                 /\ ToMaster(p, <<m>>)
                 /\ m.type \notin {"FD", "IDENTIFY"}
                 /\ m.type = "AUTH" => <<conn[p], m.password>> \in said'
                 /\ m.type = "DONE" \/ conn'[p] = conn[p]
    <2>1. PICK m \in UpMessages :
                 /\ ToMaster(p, <<m>>)
                 /\ m.type \notin {"FD", "IDENTIFY"}
                 /\ m.type = "AUTH" => <<conn[p], m.password>> \in said'
                 /\ m.type = "DONE" \/ conn'[p] = conn[p]
      BY <1>3
    <2>2. Sent(p)'
      BY <2>1, SentMore DEF Holds
    <2>3. up[p] \in Seq(UpMessages) /\ up \in [Procs -> Seq(UpMessages)]
      BY DEF TypeOK
    <2>4. up'[p] = up[p] \/ up'[p] = up[p] \o <<m>>
      BY <2>1, <2>3 DEF ToMaster
    <2>5. \A x \in Range(up'[p]) : x \in Range(up[p]) \/ x = m
      <3>1. up[p] \o <<m>> = Append(up[p], m) /\ Range(Append(up[p], m)) = Range(up[p]) \cup {m}
        BY <2>3, RangeAppend
      <3>2. Range(up'[p]) = Range(up[p]) \/ Range(up'[p]) = Range(up[p]) \cup {m}
        BY <2>4, <3>1
      <3>. QED  BY <3>2
    <2>6. OneUser(p)'
      BY <2>1, <2>5, OneUserKept DEF Holds
    <2>. QED  BY <1>1, <2>2, <2>6 DEF Holds
  <1>. QED  BY <1>2, <1>3

\* The other children, when one or its user makes a step
LEMMA OthersHold ==
    ASSUME TypeOK, Flow, NEW p \in Procs, User(p) \/ LoginTimer(p) \/ Exit(p) \/ ChildReads(p),
           NEW q \in Procs, q # p
    PROVE  Holds(q)'
  <1>. USE DEF User, Connect, ChangeNick, Identify, SetAllowTakeover, Drop, AnswerYes, AnswerNo, ClientCloses, Abort,
               LoginTimer, Exit, IrcFree, ChildReads, ReceiveFd, ReceiveHello, ReceiveInit, ReceiveAuth, ReceiveDone,
               ReceiveRefusal, LoseMaster, child, master
  <1>0. ChildTypes /\ MasterTypes /\ QueueTypes /\ ClientTypes
    BY TypeOKMeans
  <1>1. UNCHANGED <<to_fd, pass_of>>
    OBVIOUS
  <1>2. down'[q] = down[q] /\ recv_fd'[q] = recv_fd[q]
    BY <1>0 DEF Receives, QueueTypes, ChildTypes
  <1>3. up'[q] = up[q] /\ ipc'[q] = ipc[q]
    <2>1. \A ms : ToMaster(p, ms) => up'[q] = up[q] /\ ipc'[q] = ipc[q]
      BY <1>0 DEF ToMaster, QueueTypes, ChildTypes
    <2>. QED  BY <1>0, <2>1, ZenonT(40) DEF QueueTypes, ChildTypes
  <1>4. conn'[q] = conn[q] /\ life'[q] = life[q]
    BY <1>0 DEF ChildTypes
  <1>5. password'[q] = password[q] /\ logins'[q] = logins[q]
    BY <1>0 DEF ChildTypes, ClientTypes
  <1>6. said \subseteq said'
    OBVIOUS
  <1>7. q \in Listed' <=> q \in Listed
    <2>1. CASE \E n \in Nicks : Connect(p, n)
      <3>1. child_list \in Seq(Procs) /\ child_list' = Append(child_list, p)
        BY <1>0, <2>1 DEF MasterTypes
      <3>2. Listed' = Listed \cup {p}
        BY <3>1, RangeAppend DEF Listed
      <3>. QED  BY <3>2
    <2>2. CASE ~ \E n \in Nicks : Connect(p, n)
      <3>1. child_list' = child_list
        BY <2>2
      <3>. QED  BY <3>1 DEF Listed
    <2>. QED  BY <2>1, <2>2
  <1>8. to_fd'[q] # Null => q \in Listed'
    BY <1>1, <1>7 DEF Flow, Holds, Sent
  <1>9. Alive(q)' => Alive(q)
    BY <1>3, <1>4, <1>7 DEF Alive, Writable, Running
  <1>10. Holds(q)
    BY DEF Flow
  <1>. QED  BY <1>1, <1>2, <1>3, <1>4, <1>5, <1>6, <1>8, <1>9, <1>10, ApartHolds

\* The process that is forked
LEMMA ConnectHolds ==
    ASSUME TypeOK, NEW p \in Procs, Holds(p), NEW n \in Nicks, Connect(p, n)
    PROVE  Holds(p)'
  <1>0. up \in [Procs -> Seq(UpMessages)] /\ conn \in [Procs -> Procs \cup {Null}] /\ p \notin Listed
    BY TypeOKMeans DEF Connect, QueueTypes, ChildTypes, ListedForked
  <1>1. UNCHANGED <<to_fd, pass_of, down, recv_fd, said, logins, password>>
    BY DEF Connect
  <1>2. up'[p] = <<Msg("CLIENT", n, Null)>>
    BY <1>0 DEF Connect
  <1>3. to_fd[p] = Null
    BY <1>0 DEF Holds, Sent
  <1>4. /\ Len(up'[p]) = 1 /\ \A i \in 1 .. 1 : up'[p][i].type = "CLIENT"
        /\ \A m \in Range(up'[p]) : m.type = "CLIENT"
    BY <1>2 DEF Msg, Range
  <1>5. Sent(p)'
    BY <1>1, <1>3, <1>4 DEF Sent, Asks, Current
  <1>6. OneUser(p)'
    BY <1>1, <1>4, OneUserKept DEF Holds
  <1>. QED  BY <1>1, <1>5, <1>6 DEF Holds

\* The identify command sends a descriptor and credentials.  The first time
\* there is nothing yet that could be another user's.
LEMMA IdentifyHolds ==
    ASSUME TypeOK, NEW p \in Procs, Holds(p), NEW load \in BOOLEAN, Identify(p, load)
    PROVE  Holds(p)'
  <1>0. ChildTypes /\ RunningServes /\ QueueTypes /\ ClientTypes
    BY TypeOKMeans
  <1>. DEFINE a == Msg("FD", conn[p], Null)
              b == Msg("IDENTIFY", nick[p], nick[p])
              q == up[p]
  <1>1. Running(p) /\ conn[p] \in Procs /\ nick[p] \in Nicks /\ password[p] = Null
    BY <1>0 DEF Identify, Typing, Running, RunningServes, ChildTypes
  <1>2. UNCHANGED <<life, conn, nick, recv_fd, child_list, pass_of, to_fd, down, said>>
    BY DEF Identify, master
  <1>3. /\ logins[p] \in Nat /\ logins'[p] = logins[p] + 1 /\ password'[p] = nick[p]
        /\ ToMaster(p, <<a, b>>)
    BY <1>0 DEF Identify, ClientTypes, ChildTypes
  <1>4. /\ a \in UpMessages /\ a.type = "FD" /\ a.arg = conn[p]
        /\ b \in UpMessages /\ b.type = "IDENTIFY" /\ b.password = nick[p]
    BY <1>1 DEF Msg, UpMessages, FdMessages
  <1>5. q \in Seq(UpMessages) /\ up \in [Procs -> Seq(UpMessages)] /\ ipc \in [Procs -> BOOLEAN]
    BY <1>0 DEF QueueTypes, ChildTypes
  <1>6. q \o <<a, b>> = Append(Append(q, a), b)
    BY <1>4, <1>5
  <1>7. \/ ipc[p] /\ p \in Listed /\ up'[p] = q \o <<a, b>>
        \/ up'[p] = q /\ ipc'[p] = FALSE
    BY <1>3, <1>5 DEF ToMaster
  <1>. HIDE DEF a, b, q
  <1>8. Append(q, a) \in Seq(UpMessages) /\ Range(Append(q, a)) = Range(q) \cup {a}
    BY <1>4, <1>5, RangeAppend
  <1>9. Range(Append(Append(q, a), b)) = Range(q) \cup {a, b}
    <2>. DEFINE r == Append(q, a)
    <2>1. r \in Seq(UpMessages) /\ b \in UpMessages
      BY <1>4, <1>8
    <2>. HIDE DEF r
    <2>2. Range(Append(r, b)) = Range(r) \cup {b}
      BY <2>1, RangeAppend
    <2>. QED  BY <1>8, <2>2 DEF r
  <1>10. Sent(p)'
    <2>1. CASE ipc[p] /\ p \in Listed /\ up'[p] = q \o <<a, b>>
      <3>1. Asks(q, to_fd[p], said) /\ Current(q, to_fd[p], conn[p])
        BY <1>1, <2>1 DEF Holds, Sent, Alive, Writable, q
      <3>2. Asks(Append(q, a), to_fd[p], said)
        BY <1>4, <1>5, <3>1, AsksAppend
      <3>3. Current(Append(q, a), to_fd[p], conn[p])
        BY <1>4, <1>5, <3>1, CurrentAppend
      <3>4. Asks(Append(Append(q, a), b), to_fd[p], said)
        BY <1>4, <1>8, <3>2, AsksAppend
      <3>5. Current(Append(Append(q, a), b), to_fd[p], conn[p])
        BY <1>4, <1>8, <3>3, CurrentAppend
      <3>. QED  BY <1>2, <1>6, <2>1, <3>4, <3>5 DEF Sent, Listed
    <2>2. CASE up'[p] = q /\ ipc'[p] = FALSE
      <3>1. ~ Alive(p)'
        BY <2>2 DEF Alive, Writable
      <3>2. to_fd'[p] # Null => p \in Listed'
        BY <1>2 DEF Holds, Sent, Listed
      <3>. QED  BY <1>2, <2>2, <3>1, <3>2, SentQuiet DEF Holds, q
    <2>. QED  BY <1>7, <2>1, <2>2
  <1>11. OneUser(p)'
    <2>1. logins'[p] # 0 /\ (logins'[p] = 1 => logins[p] = 0)
      BY <1>3
    <2>2. ASSUME logins[p] = 0
          PROVE  /\ pass_of'[p] = Null /\ recv_fd'[p] = Null
                 /\ \A m \in Range(up'[p]) : m.type = "IDENTIFY" => m.password = password'[p]
                 /\ \A m \in Range(down'[p]) : m.type # "FD"
      <3>1. pass_of[p] = Null /\ recv_fd[p] = Null /\ (\A m \in Range(q) : m.type # "IDENTIFY")
            /\ \A m \in Range(down[p]) : m.type # "FD"
        BY <2>2 DEF Holds, OneUser, q
      <3>2. Range(up'[p]) \subseteq Range(q) \cup {a, b}
        BY <1>6, <1>7, <1>9
      <3>. QED  BY <1>2, <1>3, <1>4, <3>1, <3>2
    <2>. QED  BY <2>1, <2>2 DEF OneUser
  <1>. QED  BY <1>2, <1>10, <1>11 DEF Holds

\* The other things that its user does
LEMMA UserHolds ==
    ASSUME TypeOK, NEW p \in Procs, Holds(p),
           \/ \E n \in Nicks : ChangeNick(p, n)
           \/ \E b \in BOOLEAN : SetAllowTakeover(p, b)
           \/ Drop(p) \/ AnswerYes(p) \/ AnswerNo(p) \/ ClientCloses(p) \/ Abort(p)
    PROVE  Holds(p)'
  <1>0. ChildTypes /\ RunningServes /\ QueueTypes /\ ClientTypes
    BY TypeOKMeans
  <1>1. CASE \E n \in Nicks : ChangeNick(p, n)
    <2>1. PICK n \in Nicks : ChangeNick(p, n)
      BY <1>1
    <2>2. Running(p) /\ UNCHANGED <<conn, recv_fd, child_list, pass_of, to_fd, down, said, logins>>
          /\ password'[p] = Null /\ ToMaster(p, <<Msg("NICK", n, Null)>>)
      BY <1>0, <2>1 DEF ChangeNick, Typing, Running, master, ChildTypes
    <2>3. Msg("NICK", n, Null) \in UpMessages /\ Msg("NICK", n, Null).type = "NICK"
      BY DEF Msg, UpMessages
    <2>. QED  BY <2>2, <2>3, ChildHolds
  <1>2. CASE (\E b \in BOOLEAN : SetAllowTakeover(p, b)) \/ Drop(p)
    <2>1. Running(p) /\ UNCHANGED <<life, ipc, up, conn, recv_fd, child_list, pass_of, to_fd, down, said, logins>>
          /\ password'[p] \in {password[p], Null}
      BY <1>0, <1>2 DEF SetAllowTakeover, Drop, Typing, Running, master, ChildTypes
    <2>2. Alive(p)' => Alive(p)
      BY <2>1 DEF Alive, Writable, Running, Listed
    <2>. QED  BY <2>1, <2>2, ChildHolds
  <1>3. CASE ClientCloses(p) \/ Abort(p)
    <2>1. UNCHANGED <<ipc, up, conn, recv_fd, child_list, pass_of, to_fd, down, said, logins, password>>
      BY <1>3 DEF ClientCloses, Abort, master, child
    <2>2. Running(p)' => Running(p)
      BY <1>0, <1>3 DEF ClientCloses, Abort, Running, child, ChildTypes
    <2>3. Alive(p)' => Alive(p)
      BY <2>1, <2>2 DEF Alive, Writable, Listed
    <2>4. to_fd'[p] # Null => p \in Listed'
      BY <2>1 DEF Holds, Sent, Listed
    <2>. QED  BY <2>1, <2>3, <2>4, ApartHolds
  <1>4. CASE AnswerYes(p)
    <2>. DEFINE m == Msg("AUTH", nick[p], password[p])
    <2>1. Running(p) /\ nick[p] \in Nicks
      BY <1>0, <1>4 DEF AnswerYes, Answers, Typing, Running, RunningServes, ChildTypes
    <2>2. UNCHANGED <<conn, recv_fd, child_list, pass_of, to_fd, down, logins>> /\ said \subseteq said'
          /\ password'[p] = Null /\ ToMaster(p, <<m>>) /\ <<conn[p], password[p]>> \in said'
      BY <1>0, <1>4 DEF AnswerYes, master, ChildTypes
    <2>3. m \in UpMessages /\ m.type = "AUTH" /\ m.password = password[p]
      BY <1>0, <2>1 DEF Msg, UpMessages, ChildTypes
    <2>. HIDE DEF m
    <2>. QED  BY <2>1, <2>2, <2>3, ChildHolds
  <1>5. CASE AnswerNo(p)
    <2>1. Running(p) /\ UNCHANGED <<conn, recv_fd, child_list, pass_of, to_fd, down, logins, said, password>>
          /\ ToMaster(p, <<Word("NO")>>)
      BY <1>5 DEF AnswerNo, Answers, Typing, Running, master
    <2>2. Word("NO") \in UpMessages /\ Word("NO").type = "NO"
      BY DEF Word, Msg, UpMessages
    <2>. QED  BY <2>1, <2>2, ChildHolds
  <1>. QED  BY <1>1, <1>2, <1>3, <1>4, <1>5

\* A process that ends keeps what it has sent.
LEMMA IrcFreeHolds ==
    ASSUME TypeOK, NEW p \in Procs, Holds(p), Running(p), IrcFree(p),
           UNCHANGED <<master, open, said, moved, logins, events>>
    PROVE  Holds(p)'
  <1>1. /\ ipc'[p] = FALSE /\ password'[p] = Null /\ recv_fd'[p] = Null /\ down'[p] = <<>> /\ up' = up
        /\ UNCHANGED <<child_list, pass_of, to_fd, said, logins>>
    BY TypeOKMeans DEF IrcFree, ChildTypes, QueueTypes, master
  <1>2. ~ Alive(p)'
    BY <1>1 DEF Alive, Writable
  <1>3. Range(down'[p]) \subseteq Range(down[p])
    BY <1>1 DEF Range
  <1>. QED  BY <1>1, <1>2, <1>3, ChildHolds

\* What it does by itself or reads from the master
LEMMA ChildStepHolds ==
    ASSUME TypeOK, NEW p \in Procs, Holds(p), LoginTimer(p) \/ Exit(p) \/ ChildReads(p)
    PROVE  Holds(p)'
  <1>0. ChildTypes /\ RunningServes /\ QueueTypes /\ ClientTypes
    BY TypeOKMeans
  <1>1. CASE LoginTimer(p) \/ LoseMaster(p)
    <2>1. Running(p) /\ UNCHANGED <<life, up, conn, recv_fd, child_list, pass_of, to_fd, down, said, logins, password>>
          /\ (ipc'[p] => ipc[p])
      BY <1>0, <1>1 DEF LoginTimer, LoseMaster, master, ChildTypes
    <2>2. Alive(p)' => Alive(p)
      BY <2>1 DEF Alive, Writable, Running, Listed
    <2>. QED  BY <2>1, <2>2, ChildHolds
  <1>2. CASE Exit(p)
    BY <1>2, IrcFreeHolds DEF Exit, Running
  <1>3. CASE ReceiveDone(p)
    BY <1>3, IrcFreeHolds DEF ReceiveDone
  <1>4. ASSUME NEW type, Receives(p, type)
        PROVE  /\ Running(p) /\ ipc[p] /\ down[p] # <<>> /\ Head(down[p]) \in DownMessages
               /\ Head(down[p]).type = type /\ Head(down[p]) \in Range(down[p])
               /\ Range(down'[p]) \subseteq Range(down[p])
    <2>1. down \in [Procs -> Seq(DownMessages)] /\ down[p] \in Seq(DownMessages) /\ down[p] # <<>>
          /\ down'[p] = Tail(down[p])
      BY <1>0, <1>4 DEF Receives, QueueTypes
    <2>. QED  BY <1>4, <2>1, RangeTail DEF Receives
  <1>5. CASE ReceiveFd(p)
    <2>. DEFINE m == Head(down[p])
    <2>1. /\ Running(p) /\ m \in Range(down[p]) /\ m.type = "FD" /\ Range(down'[p]) \subseteq Range(down[p])
          /\ recv_fd'[p] = m.arg
      BY <1>0, <1>4, <1>5 DEF ReceiveFd, ChildTypes
    <2>2. UNCHANGED <<life, ipc, up, conn, child_list, pass_of, to_fd, said, logins, password>>
      BY <1>5 DEF ReceiveFd, master
    <2>. HIDE DEF m
    <2>3. Sent(p)'
      <3>1. Alive(p)' => Alive(p)
        BY <2>2 DEF Alive, Writable, Running, Listed
      <3>2. to_fd'[p] # Null => p \in Listed'
        BY <2>2 DEF Holds, Sent, Listed
      <3>. QED  BY <2>2, <3>1, <3>2, SentQuiet DEF Holds
    <2>4. Reached(recv_fd'[p], Range(down'[p]), said')
      BY <2>1, <2>2 DEF Holds, Reached
    <2>5. OneUser(p)'
      BY <2>1, <2>2 DEF Holds, OneUser
    <2>. QED  BY <2>3, <2>4, <2>5 DEF Holds
  <1>6. CASE ReceiveHello(p)
    <2>1. Running(p) /\ nick[p] \in Nicks /\ Range(down'[p]) \subseteq Range(down[p])
      BY <1>0, <1>4, <1>6 DEF ReceiveHello, RunningServes, ChildTypes
    <2>2. UNCHANGED <<conn, recv_fd, child_list, pass_of, to_fd, said, logins, password>>
          /\ ToMaster(p, <<Msg("HELLO", nick[p], Null)>>)
      BY <1>6 DEF ReceiveHello, master
    <2>3. Msg("HELLO", nick[p], Null) \in UpMessages /\ Msg("HELLO", nick[p], Null).type = "HELLO"
      BY <2>1 DEF Msg, UpMessages
    <2>. QED  BY <2>1, <2>2, <2>3, ChildHolds
  <1>7. CASE ReceiveInit(p)
    <2>1. Running(p) /\ Range(down'[p]) \subseteq Range(down[p])
      BY <1>4, <1>7 DEF ReceiveInit
    <2>2. UNCHANGED <<life, conn, recv_fd, child_list, pass_of, to_fd, said, logins, password>>
      BY <1>7 DEF ReceiveInit, master
    <2>3. (up' = up /\ ipc' = ipc) \/ ToMaster(p, <<Word("NO")>>)
      BY <1>7 DEF ReceiveInit
    <2>4. Word("NO") \in UpMessages /\ Word("NO").type = "NO"
      BY DEF Word, Msg, UpMessages
    <2>5. up' = up /\ ipc' = ipc => (Alive(p)' => Alive(p))
      BY <2>2 DEF Alive, Writable, Running, Listed
    <2>. QED  BY <2>1, <2>2, <2>3, <2>4, <2>5, ChildHolds
  <1>8. CASE ReceiveAuth(p)
    <2>1. Running(p) /\ Range(down'[p]) \subseteq Range(down[p])
      BY <1>4, <1>8 DEF ReceiveAuth
    <2>2. UNCHANGED <<life, child_list, pass_of, to_fd, said, logins, password>>
      BY <1>8 DEF ReceiveAuth, master
    <2>3. recv_fd'[p] \in {recv_fd[p], Null}
      BY <1>0, <1>8 DEF ReceiveAuth, ChildTypes
    <2>4. ToMaster(p, <<Word("DONE")>>) \/ (ToMaster(p, <<Word("FAIL")>>) /\ conn' = conn)
      BY <1>8 DEF ReceiveAuth
    <2>5. /\ Word("DONE") \in UpMessages /\ Word("DONE").type = "DONE"
          /\ Word("FAIL") \in UpMessages /\ Word("FAIL").type = "FAIL"
      BY DEF Word, Msg, UpMessages
    <2>. QED  BY <2>1, <2>2, <2>3, <2>4, <2>5, ChildHolds
  <1>9. CASE ReceiveRefusal(p)
    <2>1. Running(p) /\ Range(down'[p]) \subseteq Range(down[p])
      BY <1>4, <1>9 DEF ReceiveRefusal
    <2>2. UNCHANGED <<life, ipc, up, conn, recv_fd, child_list, pass_of, to_fd, said, logins, password>>
      BY <1>9 DEF ReceiveRefusal, master, child
    <2>3. Alive(p)' => Alive(p)
      BY <2>2 DEF Alive, Writable, Running, Listed
    <2>. QED  BY <2>1, <2>2, <2>3, ChildHolds
  <1>. QED  BY <1>1, <1>2, <1>3, <1>5, <1>6, <1>7, <1>8, <1>9 DEF ChildReads

\* What freeing and failing children leaves of what the master knows of q
LEMMA FreeAndFailLeaves ==
    ASSUME TypeOK, NEW F, NEW S \in SUBSET Procs, FreeAndFail(F, S), NEW q \in Procs
    PROVE  /\ to_fd'[q] \in {to_fd[q], Null} /\ (q \in F \cup S => to_fd'[q] = Null)
           /\ pass_of'[q] \in {pass_of[q], Null}
           /\ q \in Listed' => q \in Listed
           /\ to_fd'[q] # Null /\ q \in Listed => q \in Listed'
           /\ \A m \in Range(down'[q]) : m \in Range(down[q]) \/ m.type = "FAIL"
  <1>. DEFINE waiting == {o \in S : to_fd[o] # Null}
              freed == F \cup {o \in waiting : ~Writable(o)}
  <1>0. MasterTypes /\ QueueTypes
    BY TypeOKMeans
  <1>1. to_fd'[q] = IF q \in F \cup S THEN Null ELSE to_fd[q]
    BY DEF FreeAndFail
  <1>2. pass_of'[q] \in {pass_of[q], Null}
    BY DEF FreeAndFail
  <1>3. Listed' = Listed \ (F \cup {o \in S : to_fd[o] # Null /\ ~Writable(o)})
    BY FreeAndFailTypes
  <1>4. \A m \in Range(down'[q]) : m \in Range(down[q]) \/ m.type = "FAIL"
    <2>1. down'[q] \in {down[q], Append(down[q], Word("FAIL"))}
      BY DEF FreeAndFail
    <2>2. Word("FAIL") \in DownMessages /\ Word("FAIL").type = "FAIL" /\ down[q] \in Seq(DownMessages)
      BY <1>0 DEF Word, Msg, DownMessages, QueueTypes
    <2>3. Range(Append(down[q], Word("FAIL"))) = Range(down[q]) \cup {Word("FAIL")}
      BY <2>2, RangeAppend
    <2>. QED  BY <2>1, <2>2, <2>3
  <1>. QED  BY <1>1, <1>2, <1>3, <1>4

\* What the master may pass on to the child q
Passed(q, m) ==
    /\ m.type = "AUTH" => \E c \in Procs : <<c, m.password>> \in said
    /\ m.type = "FD" => pass_of[q] \in Nicks /\ <<m.arg, pass_of[q]>> \in said

\* The master keeps of q what it has, or less; or reads a line of it.
LEMMA MasterHolds ==
    ASSUME TypeOK, NEW q \in Procs, Holds(q), UNCHANGED <<child, said, logins>>,
           \/ up'[q] = up[q] /\ to_fd'[q] \in {to_fd[q], Null}
           \/ up[q] # <<>> /\ up'[q] = Tail(up[q]) /\ NextFd(up[q], to_fd[q], to_fd'[q]),
           q \in Listed' => q \in Listed,
           to_fd'[q] # Null => q \in Listed',
           \/ pass_of'[q] \in {pass_of[q], Null}
           \/ up[q] # <<>> /\ Head(up[q]).type = "IDENTIFY" /\ pass_of'[q] = Head(up[q]).password,
           \A m \in Range(down'[q]) : m \in Range(down[q]) \/ Passed(q, m)
    PROVE  Holds(q)'
  <1>0. up[q] \in Seq(UpMessages) /\ Null \notin Nicks
    BY ConstantsAssumption DEF TypeOK
  <1>1. UNCHANGED <<conn, password, recv_fd, life, ipc>>
    BY DEF child
  <1>2. Alive(q)' => Alive(q)
    BY <1>1 DEF Alive, Writable, Running
  <1>3. Sent(q)'
    <2>1. CASE up'[q] = up[q] /\ to_fd'[q] \in {to_fd[q], Null}
      BY <1>1, <1>2, <2>1, SentQuiet DEF Holds
    <2>2. CASE up[q] # <<>> /\ up'[q] = Tail(up[q]) /\ NextFd(up[q], to_fd[q], to_fd'[q])
      BY <1>1, <1>2, <2>2, SentRead DEF Holds
    <2>. QED  BY <2>1, <2>2
  <1>4. Reached(recv_fd'[q], Range(down'[q]), said')
    <2>1. Reached(recv_fd[q], Range(down[q]), said)
      BY DEF Holds
    <2>. QED  BY <1>1, <2>1 DEF Reached, Passed
  <1>5. OneUser(q)'
    <2>1. Range(up'[q]) \subseteq Range(up[q]) /\ (up[q] # <<>> => Head(up[q]) \in Range(up[q]))
      BY <1>0, RangeTail
    <2>2. logins[q] = 0 =>
            /\ password'[q] = Null /\ pass_of'[q] = Null /\ recv_fd'[q] = Null
            /\ \A m \in Range(up'[q]) : m.type # "IDENTIFY"
            /\ \A m \in Range(down'[q]) : m.type # "FD"
      BY <1>0, <1>1, <2>1 DEF Holds, OneUser, Passed
    <2>3. ASSUME logins[q] = 1, password[q] # Null
          PROVE  /\ pass_of'[q] \in {Null, password[q]}
                 /\ \A m \in Range(up'[q]) : m.type = "IDENTIFY" => m.password = password[q]
                 /\ \A m \in Range(down'[q]) : m.type = "FD" => <<m.arg, password[q]>> \in said
                 /\ recv_fd[q] # Null => <<recv_fd[q], password[q]>> \in said
      BY <1>0, <2>1, <2>3 DEF Holds, OneUser, Passed
    <2>. QED  BY <1>1, <2>2, <2>3 DEF OneUser
  <1>. QED  BY <1>3, <1>4, <1>5 DEF Holds

LEMMA FreeingHolds ==
    ASSUME TypeOK, Flow, NEW p \in Procs, NEW F, NEW S \in SUBSET Procs, FreeAndFail(F, S),
           UNCHANGED <<child, said, logins>>,
           up' = up \/ \E types : Reads(p, types) /\ (p \in F \cup S \/ Head(up[p]).type # "DONE"),
           NEW q \in Procs
    PROVE  Holds(q)'
  <1>0. Holds(q)
    BY DEF Flow
  <1>1. /\ to_fd'[q] \in {to_fd[q], Null} /\ (q \in F \cup S => to_fd'[q] = Null)
        /\ pass_of'[q] \in {pass_of[q], Null}
        /\ q \in Listed' => q \in Listed
        /\ to_fd'[q] # Null /\ q \in Listed => q \in Listed'
        /\ \A m \in Range(down'[q]) : m \in Range(down[q]) \/ m.type = "FAIL"
    BY FreeAndFailLeaves
  <1>2. to_fd'[q] # Null => q \in Listed'
    BY <1>0, <1>1 DEF Holds, Sent
  <1>3. \A m \in Range(down'[q]) : m \in Range(down[q]) \/ Passed(q, m)
    BY <1>1 DEF Passed
  <1>4. \/ up'[q] = up[q] /\ to_fd'[q] \in {to_fd[q], Null}
        \/ up[q] # <<>> /\ up'[q] = Tail(up[q]) /\ NextFd(up[q], to_fd[q], to_fd'[q])
    <2>1. CASE up' = up
      BY <1>1, <2>1
    <2>2. CASE \E types : Reads(p, types) /\ (p \in F \cup S \/ Head(up[p]).type # "DONE")
      <3>1. PICK types : Reads(p, types) /\ (p \in F \cup S \/ Head(up[p]).type # "DONE")
        BY <2>2
      <3>2. up' = [up EXCEPT ![p] = Tail(up[p])] /\ up[p] # <<>> /\ up \in [Procs -> Seq(UpMessages)]
        BY <3>1, ReadsTypes DEF TypeOK
      <3>3. CASE q = p
        BY <1>1, <3>1, <3>2, <3>3 DEF NextFd
      <3>4. CASE q # p
        BY <1>1, <3>2, <3>4
      <3>. QED  BY <3>3, <3>4
    <2>. QED  BY <2>1, <2>2
  <1>. QED  BY <1>0, <1>1, <1>2, <1>3, <1>4, MasterHolds

\* The master keeps its descriptors, or that of p; and writes plain words.
LEMMA TellingHolds ==
    ASSUME TypeOK, Flow, NEW p \in Procs, NEW types, Reads(p, types), UNCHANGED <<child, said, logins, child_list>>,
           NEW q \in Procs,
           to_fd'[q] = to_fd[q] \/ (q = p /\ to_fd'[p] = Null) \/ (q = p /\ Head(up[p]).type = "FD" /\ to_fd'[p] = Head(up[p]).arg),
           q = p => Head(up[p]).type # "DONE" \/ to_fd'[p] = Null,
           \/ pass_of'[q] = pass_of[q]
           \/ q = p /\ Head(up[p]).type = "IDENTIFY" /\ pass_of'[p] = Head(up[p]).password,
           \/ down'[q] = down[q]
           \/ \E m \in DownMessages : m.type \notin {"FD", "AUTH"} /\ down'[q] = Append(down[q], m)
    PROVE  Holds(q)'
  <1>0. Holds(q) /\ down[q] \in Seq(DownMessages)
    BY DEF Flow, TypeOK
  <1>1. up' = [up EXCEPT ![p] = Tail(up[p])] /\ up[p] # <<>> /\ up \in [Procs -> Seq(UpMessages)] /\ p \in Listed
    BY ReadsTypes DEF TypeOK
  <1>2. \/ up'[q] = up[q] /\ to_fd'[q] \in {to_fd[q], Null}
        \/ up[q] # <<>> /\ up'[q] = Tail(up[q]) /\ NextFd(up[q], to_fd[q], to_fd'[q])
    BY <1>1 DEF NextFd
  <1>3. Listed' = Listed
    BY DEF Listed
  <1>4. to_fd'[q] # Null => q \in Listed'
    BY <1>0, <1>1, <1>3 DEF Holds, Sent
  <1>5. \A m \in Range(down'[q]) : m \in Range(down[q]) \/ Passed(q, m)
    <2>1. CASE down'[q] = down[q]
      BY <2>1
    <2>2. CASE \E m \in DownMessages : m.type \notin {"FD", "AUTH"} /\ down'[q] = Append(down[q], m)
      <3>1. PICK m \in DownMessages : m.type \notin {"FD", "AUTH"} /\ down'[q] = Append(down[q], m)
        BY <2>2
      <3>2. Range(Append(down[q], m)) = Range(down[q]) \cup {m}
        BY <1>0, RangeAppend
      <3>3. Passed(q, m)
        BY <3>1 DEF Passed
      <3>. QED  BY <3>1, <3>2, <3>3
    <2>. QED  BY <2>1, <2>2
  <1>6. \/ pass_of'[q] \in {pass_of[q], Null}
        \/ up[q] # <<>> /\ Head(up[q]).type = "IDENTIFY" /\ pass_of'[q] = Head(up[q]).password
    BY <1>1
  <1>. QED  BY <1>0, <1>2, <1>3, <1>4, <1>5, <1>6, MasterHolds

\* What is passed on of an AUTH is what its user said, and the one that it is
\* passed on to has the same user as far as the master knows.
LEMMA PassingHolds ==
    ASSUME TypeOK, Flow, NEW p \in Procs, Reads(p, {"AUTH"}), to_child[p] \in Listed,
           UNCHANGED <<child, master, said, logins>>, Authorized(p, Head(up[p])),
           down' = [down EXCEPT ![to_child[p]] =
               @ \o (IF to_fd[p] = Null THEN <<>> ELSE <<Msg("FD", to_fd[p], Null)>>) \o <<Head(up[p])>>],
           NEW q \in Procs
    PROVE  Holds(q)'
  <1>. DEFINE m == Head(up[p])
              o == to_child[p]
              fd == Msg("FD", to_fd[p], Null)
  <1>0. MasterTypes /\ QueueTypes /\ Holds(q) /\ Holds(p)
    BY TypeOKMeans DEF Flow
  <1>1. /\ up' = [up EXCEPT ![p] = Tail(up[p])] /\ up[p] # <<>> /\ up[p] \in Seq(UpMessages) /\ p \in Listed
        /\ m \in UpMessages /\ m.type = "AUTH"
    BY ReadsTypes
  <1>2. o \in Procs /\ pass_of[o] = m.password /\ m.password # Null
    BY <1>0 DEF Authorized, Listed, Range, MasterTypes
  <1>3. m \in DownMessages /\ m.password \in Nicks
    BY <1>1, <1>2 DEF UpMessages, FdMessages, DownMessages
  <1>4. /\ \E c \in Procs : <<c, m.password>> \in said
        /\ to_fd[p] # Null => <<to_fd[p], m.password>> \in said
    <2>1. Len(up[p]) \in Nat \ {0} /\ m = up[p][1] /\ Asks(up[p], to_fd[p], said)
      BY <1>0, <1>1, TailIndices DEF Holds, Sent
    <2>2. Still(up[p], 1, 1)
      BY <1>1, <2>1 DEF Still
    <2>3. 1 \in 1 .. Len(up[p])
      BY <2>1
    <2>. QED  BY <1>1, <2>1, <2>2, <2>3 DEF Asks
  <1>5. to_fd[p] # Null => fd \in DownMessages /\ fd.type = "FD" /\ fd.arg = to_fd[p]
    BY <1>0 DEF Msg, DownMessages, FdMessages, MasterTypes
  <1>6. down[o] \in Seq(DownMessages)
        /\ down'[o] = down[o] \o (IF to_fd[p] = Null THEN <<>> ELSE <<fd>>) \o <<m>>
        /\ \A r \in Procs : r # o => down'[r] = down[r]
    BY <1>0, <1>2 DEF QueueTypes
  <1>. HIDE DEF m, o, fd
  <1>7. \A x \in Range(down'[o]) : x \in Range(down[o]) \/ x = m \/ (to_fd[p] # Null /\ x = fd)
    <2>1. CASE to_fd[p] = Null
      <3>1. down[o] \o <<>> = down[o]
        BY <1>6, ConcatEmptySeq
      <3>2. down[o] \o <<m>> = Append(down[o], m) /\ Range(Append(down[o], m)) = Range(down[o]) \cup {m}
        BY <1>3, <1>6, RangeAppend
      <3>3. down'[o] = Append(down[o], m)
        BY <1>6, <2>1, <3>1, <3>2
      <3>. QED  BY <3>2, <3>3
    <2>2. CASE to_fd[p] # Null
      <3>. DEFINE r == Append(down[o], fd)
      <3>1. r \in Seq(DownMessages) /\ down[o] \o <<fd>> = r /\ Range(r) = Range(down[o]) \cup {fd}
        BY <1>5, <1>6, <2>2, RangeAppend
      <3>. HIDE DEF r
      <3>2. r \o <<m>> = Append(r, m) /\ Range(Append(r, m)) = Range(r) \cup {m}
        BY <1>3, <3>1, RangeAppend
      <3>3. down'[o] = r \o <<m>>
        BY <1>6, <2>2, <3>1
      <3>. QED  BY <2>2, <3>1, <3>2, <3>3
    <2>. QED  BY <2>1, <2>2
  <1>8. \A x \in Range(down'[q]) : x \in Range(down[q]) \/ Passed(q, x)
    <2>1. CASE q = o
      <3>1. Passed(q, m)
        BY <1>1, <1>4, <2>1 DEF Passed
      <3>2. to_fd[p] # Null => Passed(q, fd)
        BY <1>2, <1>3, <1>4, <1>5, <2>1 DEF Passed
      <3>. QED  BY <1>7, <2>1, <3>1, <3>2
    <2>2. CASE q # o
      BY <1>6, <2>2
    <2>. QED  BY <2>1, <2>2
  <1>9. \/ up'[q] = up[q] /\ to_fd'[q] \in {to_fd[q], Null}
        \/ up[q] # <<>> /\ up'[q] = Tail(up[q]) /\ NextFd(up[q], to_fd[q], to_fd'[q])
    BY <1>0, <1>1 DEF NextFd, m, master, QueueTypes
  <1>10. Listed' = Listed /\ pass_of' = pass_of /\ to_fd' = to_fd
    BY DEF Listed, master
  <1>11. to_fd'[q] # Null => q \in Listed'
    BY <1>0, <1>10 DEF Holds, Sent
  <1>. QED  BY <1>0, <1>8, <1>9, <1>10, <1>11, MasterHolds

LEMMA MasterReadsHolds ==
    ASSUME TypeOK, Flow, NEW p \in Procs, MasterReads(p), NEW q \in Procs
    PROVE  Holds(q)'
  <1>0. MasterTypes /\ QueueTypes
    BY TypeOKMeans
  <1>1. UNCHANGED <<child, said, logins>>
    BY DEF MasterReads, MasterNick, MasterFd, MasterIdentify, MasterNoTakeover, MasterAuth, MasterDone,
           MasterNo, MasterLosesChild
  <1>2. Partners(p) \in SUBSET Procs
    BY <1>0 DEF Partners, Listed, Range, MasterTypes
  <1>3. CASE MasterNick(p)
    <2>1. Reads(p, {"CLIENT", "HELLO", "NICK"}) /\ UNCHANGED <<child_list, pass_of, to_fd, down>>
      BY <1>3 DEF MasterNick
    <2>2. Head(up[p]).type \in {"CLIENT", "HELLO", "NICK"}
      BY <2>1, ReadsTypes
    <2>3. Head(up[p]).type # "DONE"
      BY <2>2
    <2>. QED  BY <1>1, <2>1, <2>3, TellingHolds
  <1>4. CASE MasterFd(p)
    <2>1. Reads(p, {"FD"}) /\ UNCHANGED <<child_list, pass_of, down>>
          /\ to_fd' = [to_fd EXCEPT ![p] = Head(up[p]).arg]
      BY <1>4 DEF MasterFd
    <2>2. Head(up[p]).type = "FD"
      BY <2>1, ReadsTypes
    <2>3. to_fd'[q] = IF q = p THEN Head(up[p]).arg ELSE to_fd[q]
      BY <1>0, <2>1 DEF MasterTypes
    <2>. QED  BY <1>1, <2>1, <2>2, <2>3, TellingHolds
  <1>5. CASE MasterIdentify(p)
    <2>. DEFINE m == Head(up[p])
                o == Old(p, m)
    <2>1. Reads(p, {"IDENTIFY"})
      BY <1>5 DEF MasterIdentify
    <2>2. m.type = "IDENTIFY"
      BY <2>1, ReadsTypes
    <2>3. MayTakeOver(p, o) => o \in Procs
      BY OldIs DEF MayTakeOver
    <2>4. \/ UNCHANGED <<master, down>>
          \/ FreeAndFail({p}, Partners(p) \cup IF MayTakeOver(p, o) THEN {o} ELSE {})
          \/ /\ pass_of' = [pass_of EXCEPT ![p] = m.password]
             /\ to_fd' = to_fd \/ to_fd' = [to_fd EXCEPT ![p] = Null]
             /\ \E w \in {"INIT", "NO"} : down' = [down EXCEPT ![p] = Append(@, Word(w))]
             /\ UNCHANGED child_list
      BY <1>5 DEF MasterIdentify
    <2>. HIDE DEF o
    <2>5. CASE UNCHANGED <<master, down>>
      <3>1. UNCHANGED <<child_list, pass_of, to_fd, down>>
        BY <2>5 DEF master
      <3>. QED  BY <1>1, <2>1, <2>2, <3>1, TellingHolds
    <2>6. CASE FreeAndFail({p}, Partners(p) \cup IF MayTakeOver(p, o) THEN {o} ELSE {})
      <3>. DEFINE S == Partners(p) \cup IF MayTakeOver(p, o) THEN {o} ELSE {}
      <3>1. S \in SUBSET Procs
        BY <1>2, <2>3
      <3>2. FreeAndFail({p}, S) /\ p \in {p} \cup S
        BY <2>6
      <3>. HIDE DEF S
      <3>. QED  BY <1>1, <2>1, <3>1, <3>2, FreeingHolds
    <2>7. CASE /\ pass_of' = [pass_of EXCEPT ![p] = m.password]
               /\ to_fd' = to_fd \/ to_fd' = [to_fd EXCEPT ![p] = Null]
               /\ \E w \in {"INIT", "NO"} : down' = [down EXCEPT ![p] = Append(@, Word(w))]
               /\ UNCHANGED child_list
      <3>1. PICK w \in {"INIT", "NO"} : down' = [down EXCEPT ![p] = Append(@, Word(w))]
        BY <2>7
      <3>2. Word(w) \in DownMessages /\ Word(w).type \notin {"FD", "AUTH"}
        BY DEF Word, Msg, DownMessages
      <3>3. down'[q] = down[q] \/ down'[q] = Append(down[q], Word(w))
        BY <1>0, <3>1 DEF QueueTypes
      <3>4. to_fd'[q] = to_fd[q] \/ (q = p /\ to_fd'[p] = Null)
        BY <1>0, <2>7 DEF MasterTypes
      <3>5. pass_of'[q] = pass_of[q] \/ (q = p /\ pass_of'[p] = m.password)
        BY <1>0, <2>7 DEF MasterTypes
      <3>. QED  BY <1>1, <2>1, <2>2, <2>7, <3>2, <3>3, <3>4, <3>5, TellingHolds
    <2>. QED  BY <2>4, <2>5, <2>6, <2>7
  <1>6. CASE MasterNoTakeover(p)
    <2>1. Reads(p, {"AUTH", "NO", "DONE", "FAIL"}) /\ FreeAndFail({}, {p})
      BY <1>6 DEF MasterNoTakeover
    <2>. QED  BY <1>1, <2>1, FreeingHolds
  <1>7. ASSUME to_child[p] \in Listed
        PROVE  to_child[p] \in Procs
    BY <1>0, <1>7 DEF Listed, Range, MasterTypes
  <1>8. CASE MasterAuth(p)
    <2>1. Reads(p, {"AUTH"}) /\ to_child[p] \in Listed /\ to_child[p] \in Procs
      BY <1>7, <1>8 DEF MasterAuth
    <2>2. Head(up[p]).type # "DONE"
      BY <2>1, ReadsTypes
    <2>3. \/ FreeAndFail({}, {p, to_child[p]}) \/ FreeAndFail({p}, {to_child[p]})
          \/ /\ Authorized(p, Head(up[p])) /\ UNCHANGED master
             /\ down' = [down EXCEPT ![to_child[p]] =
                    @ \o (IF to_fd[p] = Null THEN <<>> ELSE <<Msg("FD", to_fd[p], Null)>>) \o <<Head(up[p])>>]
      BY <1>8 DEF MasterAuth
    <2>4. CASE FreeAndFail({}, {p, to_child[p]})
      BY <1>1, <2>1, <2>4, FreeingHolds
    <2>5. CASE FreeAndFail({p}, {to_child[p]})
      BY <1>1, <2>1, <2>5, FreeingHolds
    <2>. QED  BY <1>1, <2>1, <2>3, <2>4, <2>5, PassingHolds
  <1>9. CASE MasterDone(p)
    <2>. DEFINE m == Head(up[p])
                o == to_child[p]
    <2>1. Reads(p, {"DONE", "FAIL"}) /\ o \in Procs
      BY <1>7, <1>9 DEF MasterDone
    <2>2. m \in UpMessages /\ m.type \in {"DONE", "FAIL"}
      BY <2>1, ReadsTypes
    <2>3. \/ FreeAndFail({p}, {})
          \/ /\ to_fd' = [to_fd EXCEPT ![p] = Null]
             /\ down' = [down EXCEPT ![o] = Append(@, m)]
             /\ UNCHANGED <<child_list, pass_of>>
      BY <1>9 DEF MasterDone
    <2>4. CASE FreeAndFail({p}, {})
      BY <1>1, <2>1, <2>4, FreeingHolds
    <2>5. CASE /\ to_fd' = [to_fd EXCEPT ![p] = Null]
               /\ down' = [down EXCEPT ![o] = Append(@, m)]
               /\ UNCHANGED <<child_list, pass_of>>
      <3>1. m \in DownMessages /\ m.type \notin {"FD", "AUTH"}
        BY <2>2 DEF UpMessages, FdMessages, DownMessages
      <3>2. down'[q] = down[q] \/ down'[q] = Append(down[q], m)
        BY <1>0, <2>5 DEF QueueTypes
      <3>3. to_fd'[q] = IF q = p THEN Null ELSE to_fd[q]
        BY <1>0, <2>5 DEF MasterTypes
      <3>. HIDE DEF m, o
      <3>. QED  BY <1>1, <2>1, <2>5, <3>1, <3>2, <3>3, TellingHolds
    <2>. QED  BY <2>3, <2>4, <2>5
  <1>10. CASE MasterNo(p)
    <2>1. Reads(p, {"NO"}) /\ UNCHANGED <<child_list, pass_of, to_fd, down>>
      BY <1>10 DEF MasterNo, master
    <2>2. Head(up[p]).type # "DONE"
      BY <2>1, ReadsTypes
    <2>. QED  BY <1>1, <2>1, <2>2, TellingHolds
  <1>11. CASE MasterLosesChild(p)
    BY <1>1, <1>2, <1>11, FreeingHolds DEF MasterLosesChild
  <1>. QED  BY <1>3, <1>4, <1>5, <1>6, <1>8, <1>9, <1>10, <1>11 DEF MasterReads

\* A restart forgets every descriptor and password.
LEMMA RestartHolds ==
    ASSUME TypeOK, Flow, MasterRestart, NEW q \in Procs
    PROVE  Holds(q)'
  <1>0. QueueTypes /\ Holds(q)
    BY TypeOKMeans DEF Flow
  <1>1. UNCHANGED <<child, said, logins, up>> /\ to_fd'[q] = Null /\ pass_of'[q] = Null
    BY DEF MasterRestart
  <1>2. q \in Listed' => q \in Listed
    BY RestartLists
  <1>3. \A m \in Range(down'[q]) : m \in Range(down[q]) \/ Passed(q, m)
    <2>1. Word("HELLO") \in DownMessages /\ Passed(q, Word("HELLO")) /\ down[q] \in Seq(DownMessages)
      BY <1>0 DEF Word, Msg, DownMessages, Passed, QueueTypes
    <2>2. Range(Append(down[q], Word("HELLO"))) = Range(down[q]) \cup {Word("HELLO")}
      BY <2>1, RangeAppend
    <2>3. down'[q] \in {down[q], Append(down[q], Word("HELLO"))}
      BY DEF MasterRestart
    <2>. QED  BY <2>1, <2>2, <2>3
  <1>. QED  BY <1>0, <1>1, <1>2, <1>3, MasterHolds

LEMMA NextFlow == TypeOK /\ Flow /\ [Next]_vars => Flow'
  <1>. SUFFICES ASSUME TypeOK, Flow, [Next]_vars, NEW q \in Procs PROVE Holds(q)'
    BY DEF Flow
  <1>0. Holds(q)
    BY DEF Flow
  <1>1. CASE UNCHANGED vars
    <2>1. /\ UNCHANGED <<up, down, to_fd, pass_of, child_list, said, logins, conn, password, recv_fd>>
          /\ UNCHANGED <<life, ipc>>
      BY <1>1 DEF vars, child, master
    <2>2. (Alive(q)' => Alive(q)) /\ Listed' = Listed
      BY <2>1 DEF Alive, Writable, Running, Listed
    <2>3. to_fd'[q] # Null => q \in Listed'
      BY <1>0, <2>1, <2>2 DEF Holds, Sent
    <2>. QED  BY <1>0, <2>1, <2>2, <2>3, ApartHolds
  <1>2. ASSUME NEW p \in Procs, User(p) \/ LoginTimer(p) \/ Exit(p) \/ ChildReads(p)
        PROVE  Holds(q)'
    <2>1. CASE q # p
      BY <1>2, <2>1, OthersHold
    <2>2. CASE q = p
      <3>1. Holds(p)
        BY <1>0, <2>2
      <3>2. CASE User(p)
        BY <2>2, <3>1, <3>2, ConnectHolds, IdentifyHolds, UserHolds DEF User
      <3>3. CASE LoginTimer(p) \/ Exit(p) \/ ChildReads(p)
        BY <2>2, <3>1, <3>3, ChildStepHolds
      <3>. QED  BY <1>2, <3>2, <3>3
    <2>. QED  BY <2>1, <2>2
  <1>. QED  BY <1>1, <1>2, MasterReadsHolds, RestartHolds DEF Next

\* Only the old session that accepts serves another connection afterwards.
LEMMA OnlyAuthMoves ==
    ASSUME TypeOK, [Next]_vars, NEW p \in Procs, Running(p), Running(p)', conn'[p] # conn[p]
    PROVE  /\ Receives(p, "AUTH") /\ Accepts(p, Head(down[p]))
           /\ conn'[p] = recv_fd[p] /\ UNCHANGED said
  <1>0. ChildTypes
    BY TypeOKMeans
  <1>1. ~ UNCHANGED conn
    OBVIOUS
  <1>2. ~ UNCHANGED vars /\ ~ MasterRestart /\ \A q \in Procs : ~ MasterReads(q)
    BY <1>1 DEF vars, child, MasterRestart, MasterReads, MasterNick, MasterFd, MasterIdentify, MasterNoTakeover,
           MasterAuth, MasterDone, MasterNo, MasterLosesChild
  <1>3. \A q \in Procs : User(q) \/ LoginTimer(q) => \E n \in Nicks : Connect(q, n)
    BY <1>1 DEF User, ChangeNick, Identify, SetAllowTakeover, Drop, AnswerYes, AnswerNo, ClientCloses, Abort,
           LoginTimer, child
  <1>4. ASSUME NEW q \in Procs, NEW n \in Nicks, Connect(q, n)  PROVE FALSE
    <2>1. p = q /\ life[p] = "new"
      BY <1>0, <1>4 DEF Connect, ChildTypes
    <2>. QED  BY <2>1 DEF Running
  <1>5. ASSUME NEW q \in Procs, IrcFree(q)  PROVE FALSE
    <2>1. p = q /\ life'[p] = "gone"
      BY <1>0, <1>5 DEF IrcFree, ChildTypes
    <2>. QED  BY <2>1 DEF Running
  <1>6. \A q \in Procs : ChildReads(q) => ReceiveAuth(q) \/ IrcFree(q)
    BY <1>1 DEF ChildReads, ReceiveFd, ReceiveHello, ReceiveInit, ReceiveDone, ReceiveRefusal, LoseMaster, child
  <1>7. PICK q \in Procs : ReceiveAuth(q)
    BY <1>2, <1>3, <1>4, <1>5, <1>6 DEF Next, Exit
  <1>8. Accepts(q, Head(down[q])) /\ conn' = [conn EXCEPT ![q] = recv_fd[q]]
    BY <1>1, <1>7 DEF ReceiveAuth
  <1>9. q = p
    BY <1>0, <1>8 DEF ChildTypes
  <1>. QED  BY <1>0, <1>7, <1>8, <1>9 DEF ReceiveAuth, ChildTypes

LEMMA FlowMoves ==
    ASSUME TypeOK, Flow, [Next]_vars, NEW p \in Procs, Running(p), Running(p)', conn'[p] # conn[p]
    PROVE  /\ \E c \in Procs : <<c, password[p]>> \in said
           /\ \E n \in Nicks : <<conn'[p], n>> \in said /\ (n = password[p] \/ logins[p] > 1)
  <1>. DEFINE m == Head(down[p])
  <1>1. Receives(p, "AUTH") /\ Accepts(p, m) /\ conn'[p] = recv_fd[p]
    BY OnlyAuthMoves
  <1>2. /\ logins[p] \in Nat /\ password[p] \in Nicks \cup {Null} /\ down[p] \in Seq(DownMessages)
    BY ConstantsAssumption DEF TypeOK
  <1>3. m.type = "AUTH" /\ m \in Range(down[p])
    BY <1>1, <1>2, RangeTail DEF Receives
  <1>4. Holds(p) /\ password[p] # Null /\ recv_fd[p] # Null /\ m.password = password[p]
    BY <1>1 DEF Flow, Accepts
  <1>5. \E c \in Procs : <<c, password[p]>> \in said
    BY <1>3, <1>4 DEF Holds, Reached
  <1>6. \E n \in Nicks : <<recv_fd[p], n>> \in said
    BY <1>4 DEF Holds, Reached
  <1>7. logins[p] # 0
    BY <1>4 DEF Holds, OneUser
  <1>8. logins[p] = 1 => <<recv_fd[p], password[p]>> \in said
    BY <1>4 DEF Holds, OneUser
  <1>9. \E n \in Nicks : <<recv_fd[p], n>> \in said /\ (n = password[p] \/ logins[p] > 1)
    <2>1. CASE logins[p] = 1
      <3>1. password[p] \in Nicks /\ <<recv_fd[p], password[p]>> \in said
        BY <1>2, <1>4, <1>8, <2>1
      <3>. QED  BY <3>1
    <2>2. CASE logins[p] # 1
      <3>1. logins[p] > 1
        BY <1>2, <1>7, <2>2
      <3>. QED  BY <1>6, <3>1
    <2>. QED  BY <2>1, <2>2
  <1>. QED  BY <1>1, <1>5, <1>9

\* A session serves another connection only where its user asked for it, and
\* it is that of whoever asked; of its own user, if it has had no other.
THEOREM MovesAreAskedFor == Spec => MovesToItsUser
  <1>1. TypeOK /\ Flow /\ [Next]_vars =>
          [\A p \in Procs : Running(p) /\ Running(p)' /\ conn'[p] # conn[p] =>
              /\ \E c \in Procs : <<c, password[p]>> \in said
              /\ \E n \in Nicks : <<conn'[p], n>> \in said /\ (n = password[p] \/ logins[p] > 1)]_vars
    BY FlowMoves
  <1>. QED  BY <1>1, InitTypeOK, NextTypeOK, InitFlow, NextFlow, PTL DEF Spec, Safety, MovesToItsUser
=============================================================================
