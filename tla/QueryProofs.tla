----------------------------- MODULE QueryProofs -----------------------------
(***************************************************************************)
(* Proofs about Query, for any sets of questions and connections.          *)
(***************************************************************************)
EXTENDS Query, WellFoundedInduction, TLAPS

-----------------------------------------------------------------------------
(* Induction over the length of a list: a set of numbers that has 0 and    *)
(* the successor of each of its members has all of them.                   *)

LEMMA LeastExists ==
    ASSUME NEW T, T \subseteq Nat, T # {}
    PROVE  \E x \in T : \A y \in T : ~ (y < x)
  <1>1. \E x \in T : \A y \in T : ~ (<<y, x>> \in OpToRel(<, Nat))
    BY NatLessThanWellFounded, WFMin
  <1>2. \A x, y \in Nat : y < x => <<y, x>> \in OpToRel(<, Nat)
    BY DEF OpToRel
  <1>. QED  BY <1>1, <1>2

LEMMA SetInduction ==
    ASSUME NEW S, 0 \in S, \A n \in Nat : n \in S => n + 1 \in S
    PROVE  Nat \subseteq S
  <1>. DEFINE T == Nat \ S
  <1>. SUFFICES ASSUME T # {}
                PROVE  FALSE
    OBVIOUS
  <1>1. PICK x \in T : \A y \in T : ~ (y < x)
    BY LeastExists
  <1>2. CASE x = 0
    BY <1>2
  <1>3. CASE x # 0
    <2>1. x - 1 \in Nat /\ x - 1 < x
      BY <1>3
    <2>2. x - 1 \in S
      BY <2>1, <1>1
    <2>. QED  BY <2>1, <2>2
  <1>. QED  BY <1>2, <1>3

-----------------------------------------------------------------------------
(* Deleting from the list *)

IsWalk(f, s, S) ==
    \A i \in 0 .. Len(s) :
        f[i] = IF i = 0 THEN <<>> ELSE IF s[i] \in S THEN f[i - 1] ELSE Append(f[i - 1], s[i])

\* The list of questions that are left is what the walk along it says.
LEMMA WithoutWalks ==
    ASSUME NEW T, NEW s \in Seq(T), NEW S
    PROVE  \E f \in [0 .. Len(s) -> Seq(T)] : Without(s, S) = f[Len(s)] /\ IsWalk(f, s, S)
  <1>. DEFINE Step(f, i) == IF i = 0 THEN <<>> ELSE IF s[i] \in S THEN f[i - 1] ELSE Append(f[i - 1], s[i])
              Walk(f, n) == \A i \in 0 .. n : f[i] = Step(f, i)
              Good == {n \in Nat : n <= Len(s) => \E f \in [0 .. n -> Seq(T)] : Walk(f, n)}
  <1>1. Len(s) \in Nat /\ \A i \in 1 .. Len(s) : s[i] \in T
    OBVIOUS
  <1>2. 0 \in Good
    <2>. DEFINE f == [i \in 0 .. 0 |-> <<>>]
    <2>1. f \in [0 .. 0 -> Seq(T)] /\ \A i \in 0 .. 0 : f[i] = <<>> /\ i = 0
      OBVIOUS
    <2>. QED  BY <2>1
  <1>3. ASSUME NEW n \in Nat, n \in Good
        PROVE  n + 1 \in Good
    <2>. HIDE DEF Walk
    <2>. SUFFICES ASSUME n + 1 <= Len(s)
                  PROVE  \E f \in [0 .. (n + 1) -> Seq(T)] : Walk(f, n + 1)
      OBVIOUS
    <2>0. n <= Len(s)
      BY <1>1
    <2>1. PICK g \in [0 .. n -> Seq(T)] : Walk(g, n)
      BY <2>0, <1>3
    <2>. USE DEF Walk
    <2>. DEFINE f == [i \in 0 .. (n + 1) |-> IF i = n + 1 THEN Step(g, n + 1) ELSE g[i]]
    <2>2. n + 1 \in 1 .. Len(s) /\ s[n + 1] \in T /\ g[n] \in Seq(T)
      BY <1>1
    <2>3. Step(g, n + 1) \in Seq(T)
      BY <2>2
    <2>4. f \in [0 .. (n + 1) -> Seq(T)]
      BY <2>3
    <2>5. ASSUME NEW i \in 0 .. (n + 1)
          PROVE  f[i] = Step(f, i)
      <3>1. CASE i = n + 1
        <4>1. f[n] = g[n] /\ (n + 1) - 1 = n /\ f[n + 1] = Step(g, n + 1)
          OBVIOUS
        <4>. HIDE DEF f
        <4>. QED  BY <3>1, <4>1
      <3>2. CASE i # n + 1
        <4>1. i \in 0 .. n /\ (i # 0 => i - 1 \in 0 .. n)
          BY <3>2
        <4>2. f[i] = g[i] /\ (i # 0 => f[i - 1] = g[i - 1])
          BY <4>1
        <4>3. g[i] = Step(g, i)
          BY <4>1, <2>1
        <4>. HIDE DEF f
        <4>. QED  BY <4>2, <4>3
      <3>. QED  BY <3>1, <3>2
    <2>. HIDE DEF f, Step
    <2>. QED  BY <2>4, <2>5
  <1>4. Len(s) \in Good
    <2>. HIDE DEF Good
    <2>. QED  BY <1>1, <1>2, <1>3, SetInduction
  <1>5. PICK g \in [0 .. Len(s) -> Seq(T)] : Walk(g, Len(s))
    BY <1>4
  <1>6. g = [i \in 0 .. Len(s) |-> Step(g, i)]
    BY <1>5
  <1>. DEFINE f == CHOOSE h : h = [i \in 0 .. Len(s) |-> Step(h, i)]
  <1>7. f = [i \in 0 .. Len(s) |-> Step(f, i)]
    BY <1>6
  <1>8. Without(s, S) = f[Len(s)]
    BY DEF Without
  <1>. HIDE DEF f
  <1>9. Walk(f, Len(s))
    BY <1>7
  <1>10. f \in [0 .. Len(s) -> Seq(T)]
    <2>. DEFINE Typed == {n \in Nat : n <= Len(s) => f[n] \in Seq(T)}
    <2>1. 0 \in Typed
      <3>1. 0 \in 0 .. Len(s)
        BY <1>1
      <3>2. f[0] = <<>>
        BY <3>1, <1>9
      <3>3. f[0] \in Seq(T)
        BY <3>2
      <3>. HIDE DEF Step, Walk, Good
      <3>. QED  BY <3>3
    <2>2. ASSUME NEW n \in Nat, n \in Typed
          PROVE  n + 1 \in Typed
      <3>. SUFFICES ASSUME n + 1 <= Len(s)
                    PROVE  f[n + 1] \in Seq(T)
        OBVIOUS
      <3>1. n + 1 \in 0 .. Len(s) /\ n + 1 # 0 /\ (n + 1) - 1 = n /\ f[n] \in Seq(T) /\ s[n + 1] \in T
        BY <1>1, <2>2
      <3>2. f[n + 1] = IF s[n + 1] \in S THEN f[n] ELSE Append(f[n], s[n + 1])
        BY <3>1, <1>9
      <3>. QED  BY <3>1, <3>2
    <2>3. Nat \subseteq Typed
      <3>. HIDE DEF Typed
      <3>. QED  BY <2>1, <2>2, SetInduction
    <2>4. \A n \in 0 .. Len(s) : f[n] \in Seq(T)
      BY <2>3, <1>1
    <2>. QED  BY <2>4, <1>7
  <1>. QED  BY <1>8, <1>9, <1>10 DEF IsWalk

\* What is left are the other questions, each still once.
LEMMA WithoutIs ==
    ASSUME NEW T, NEW s \in Seq(T), IsInjective(s), NEW S
    PROVE  /\ Without(s, S) \in Seq(T) /\ IsInjective(Without(s, S))
           /\ Range(Without(s, S)) = Range(s) \ S
  <1>0. PICK f \in [0 .. Len(s) -> Seq(T)] : Without(s, S) = f[Len(s)] /\ IsWalk(f, s, S)
    BY WithoutWalks
  <1>1. /\ Without(s, S) = f[Len(s)]
        /\ \A i \in 0 .. Len(s) :
              f[i] = IF i = 0 THEN <<>> ELSE IF s[i] \in S THEN f[i - 1] ELSE Append(f[i - 1], s[i])
    BY <1>0 DEF IsWalk
  <1>2. Len(s) \in Nat /\ DOMAIN s = 1 .. Len(s) /\ \A i \in 1 .. Len(s) : s[i] \in T
    OBVIOUS
  <1>. DEFINE First(n) == {s[i] : i \in 1 .. n}
              Good == {n \in Nat : n <= Len(s) => IsInjective(f[n]) /\ Range(f[n]) = First(n) \ S}
  <1>3. 0 \in Good
    <2>1. f[0] = <<>> /\ First(0) = {}
      BY <1>1, <1>2
    <2>2. IsInjective(<<>>) /\ Range(<<>>) = {}
      BY DEF IsInjective, Range
    <2>. QED  BY <2>1, <2>2
  <1>4. ASSUME NEW n \in Nat, n \in Good
        PROVE  n + 1 \in Good
    <2>. SUFFICES ASSUME n + 1 <= Len(s)
                  PROVE  IsInjective(f[n + 1]) /\ Range(f[n + 1]) = First(n + 1) \ S
      OBVIOUS
    <2>. DEFINE g == f[n]
                x == s[n + 1]
    <2>1. n + 1 \in 0 .. Len(s) /\ n \in 0 .. Len(s) /\ n + 1 \in 1 .. Len(s) /\ n + 1 # 0 /\ (n + 1) - 1 = n
      BY <1>2
    <2>2. f[n + 1] = IF x \in S THEN g ELSE Append(g, x)
      BY <2>1, <1>1
    <2>3. g \in Seq(T) /\ x \in T
      BY <2>1, <1>1, <1>2
    <2>4. IsInjective(g) /\ Range(g) = First(n) \ S
      BY <2>1, <1>4
    <2>5. First(n + 1) = First(n) \cup {x}
      <3>1. 1 .. (n + 1) = (1 .. n) \cup {n + 1}
        OBVIOUS
      <3>. QED  BY <3>1
    <2>6. x \notin First(n)
      BY <2>1, <1>2, SMTT(20) DEF IsInjective
    <2>. HIDE DEF g, x, First
    <2>7. CASE x \in S
      BY <2>7, <2>2, <2>4, <2>5
    <2>8. CASE x \notin S
      <3>1. /\ f[n + 1] = Append(g, x) /\ DOMAIN g = 1 .. Len(g) /\ Len(g) \in Nat
            /\ DOMAIN Append(g, x) = 1 .. (Len(g) + 1)
            /\ \A i \in 1 .. Len(g) : Append(g, x)[i] = g[i]
            /\ Append(g, x)[Len(g) + 1] = x
        BY <2>2, <2>3, <2>8
      <3>2. x \notin Range(g)
        BY <2>4, <2>6
      <3>3. Range(Append(g, x)) = Range(g) \cup {x}
        BY <3>1 DEF Range
      <3>4. IsInjective(Append(g, x))
        <4>1. \A i \in 1 .. (Len(g) + 1) : i # Len(g) + 1 => i \in 1 .. Len(g)
          BY <3>1
        <4>2. \A i \in 1 .. Len(g) : g[i] # x
          BY <3>1, <3>2 DEF Range
        <4>3. \A i, j \in 1 .. Len(g) : g[i] = g[j] => i = j
          BY <2>4, <3>1 DEF IsInjective
        <4>. SUFFICES ASSUME NEW i \in 1 .. (Len(g) + 1), NEW j \in 1 .. (Len(g) + 1),
                             Append(g, x)[i] = Append(g, x)[j]
                      PROVE  i = j
          BY <3>1 DEF IsInjective
        <4>. QED  BY <4>1, <4>2, <4>3, <3>1
      <3>. QED  BY <3>1, <3>3, <3>4, <2>4, <2>5, <2>8
    <2>. QED  BY <2>7, <2>8
  <1>5. Len(s) \in Good
    <2>. HIDE DEF Good
    <2>. QED  BY <1>2, <1>3, <1>4, SetInduction
  <1>6. IsInjective(f[Len(s)]) /\ Range(f[Len(s)]) = First(Len(s)) \ S
    BY <1>2, <1>5
  <1>7. First(Len(s)) = Range(s)
    BY <1>2 DEF Range
  <1>8. Without(s, S) = f[Len(s)] /\ f[Len(s)] \in Seq(T)
    BY <1>1, <1>2
  <1>. QED  BY <1>6, <1>7, <1>8

-----------------------------------------------------------------------------
(* The inductive invariant *)

\* A question that is pending has its data, and the frame of an answer is of the
\* question's connection and frees what such an answer does.  The question is pending
\* unless a callback lost its connection.
Answering ==
    /\ \A q \in Pending : hasData[q]
    /\ answering # Null =>
        /\ ic[answering.q] = answering.ic
        /\ answering.q \notin Pending => answering.ic \notin connections \cup {Null}
        /\ answering.q \notin stale =>
              /\ answering.q \in Pending
              /\ answering.frees <=> kind[answering.q] \in FreedBy(answering.ans)
        /\ orderly /\ order = "fifo" => answering.plain

\* In lifo order all have been shown, in fifo order the first has.
Shown ==
    orderly => /\ order = "lifo" => Pending \subseteq shown
               /\ order = "fifo" /\ answering = Null /\ queries # <<>> => Head(queries) \in shown

\* How often the data of q may have been freed
Freed(q) ==
    /\ kind[q] \in Owners => freed[q] = IF q \in Pending THEN 0 ELSE 1
    /\ kind[q] = "pair" => freed[q] <= IF q \in Pending THEN 0 ELSE 1
    /\ kind[q] = "borrowed" => freed[q] = 0

IInv == TypeOK /\ QuestionsOfLiveConnections /\ DataIsFreedOnce /\ Answering /\ Shown

LEMMA FreedOnceMeans == DataIsFreedOnce <=> \A q \in Questions \ stale : Freed(q)
  BY DEF DataIsFreedOnce, Freed

LEMMA PendingType ==
    ASSUME TypeOK
    PROVE  /\ Pending \subseteq Questions
           /\ queries # <<>> => Head(queries) \in Pending /\ Last(queries) \in Pending
           /\ queries = <<>> => Pending = {}
  <1>1. queries \in Seq(Questions) /\ DOMAIN queries = 1 .. Len(queries) /\ Len(queries) \in Nat
    BY DEF TypeOK
  <1>2. queries # <<>> => 1 \in 1 .. Len(queries) /\ Len(queries) \in 1 .. Len(queries) /\ Head(queries) = queries[1]
    BY <1>1
  <1>. QED  BY <1>1, <1>2 DEF Pending, Range, Last

\* A question that is added is a new one, at the end of the list.
LEMMA AppendIs ==
    ASSUME TypeOK, NEW q \in Questions \ Pending
    PROVE  /\ Append(queries, q) \in Seq(Questions) /\ IsInjective(Append(queries, q))
           /\ Range(Append(queries, q)) = Pending \cup {q}
           /\ Head(Append(queries, q)) = IF queries = <<>> THEN q ELSE Head(queries)
  <1>. DEFINE s == Append(queries, q)
              n == Len(queries)
  <1>1. queries \in Seq(Questions) /\ DOMAIN queries = 1 .. n /\ n \in Nat /\ IsInjective(queries)
    BY DEF TypeOK
  <1>2. /\ s \in Seq(Questions) /\ DOMAIN s = 1 .. (n + 1) /\ s[n + 1] = q
        /\ \A i \in 1 .. n : s[i] = queries[i]
    BY <1>1
  <1>3. \A i \in 1 .. n : queries[i] # q
    BY <1>1 DEF Pending, Range
  <1>4. \A i \in 1 .. (n + 1) : i # n + 1 => i \in 1 .. n
    BY <1>1
  <1>. HIDE DEF s
  <1>5. Range(s) = Pending \cup {q}
    BY <1>1, <1>2, <1>4 DEF Range, Pending
  <1>6. IsInjective(s)
    <2>. SUFFICES ASSUME NEW i \in 1 .. (n + 1), NEW j \in 1 .. (n + 1), s[i] = s[j]
                  PROVE  i = j
      BY <1>2 DEF IsInjective
    <2>. QED  BY <1>1, <1>2, <1>3, <1>4 DEF IsInjective
  <1>7. Head(s) = IF queries = <<>> THEN q ELSE Head(queries)
    BY <1>1, <1>2 DEF s
  <1>. QED  BY <1>2, <1>5, <1>6, <1>7 DEF s

LEMMA WithoutPending ==
    ASSUME TypeOK, NEW S
    PROVE  /\ Without(queries, S) \in Seq(Questions) /\ IsInjective(Without(queries, S))
           /\ Range(Without(queries, S)) = Pending \ S
  BY WithoutIs DEF TypeOK, Pending

LEMMA InitIInv == Init => IInv
  <1>. SUFFICES ASSUME Init  PROVE IInv
    OBVIOUS
  <1>1. Pending = {} /\ IsInjective(queries) /\ queries \in Seq(Questions)
    BY DEF Init, Pending, Range, IsInjective
  <1>2. TypeOK
    BY <1>1 DEF Init, TypeOK, Kinds, Orders
  <1>3. QuestionsOfLiveConnections /\ DataIsFreedOnce
    BY <1>1 DEF Init, QuestionsOfLiveConnections, DataIsFreedOnce, Owners
  <1>4. Answering /\ Shown
    BY <1>1 DEF Init, Answering, Shown
  <1>. QED  BY <1>2, <1>3, <1>4 DEF IInv

\* query_add(), also in the middle of an answer
LEMMA AddIInv ==
    ASSUME IInv, NEW c \in Conns \cup {Null}, NEW k \in Kinds, QueryAdd(c, k),
           UNCHANGED <<connections, order, orderly>>,
           answering = Null => answering' = Null,
           answering # Null => /\ answering.ic = c
                               /\ answering' = [answering EXCEPT !.asks = FALSE, !.writes = FALSE]
    PROVE  IInv'
  <1>. DEFINE C == connections \cup {Null}
  <1>1. PICK q \in Questions \ Pending :
            /\ queries' = Append(queries, q)
            /\ ic' = [ic EXCEPT ![q] = c]
            /\ kind' = [kind EXCEPT ![q] = k]
            /\ hasData' = [hasData EXCEPT ![q] = TRUE]
            /\ freed' = [freed EXCEPT ![q] = 0]
            /\ shown' = IF DisplaysNew(queries) THEN shown \cup {q} ELSE shown \ {q}
            /\ reply' = [reply EXCEPT ![q] = "none"]
            /\ stale' = IF c \in C THEN stale \ {q} ELSE stale \cup {q}
    BY DEF QueryAdd
  <1>2. TypeOK /\ QuestionsOfLiveConnections /\ DataIsFreedOnce /\ Answering /\ Shown
    BY DEF IInv
  <1>3. /\ Pending' = Pending \cup {q} /\ Pending \subseteq Questions
        /\ queries' \in Seq(Questions) /\ IsInjective(queries')
        /\ Head(queries') = IF queries = <<>> THEN q ELSE Head(queries)
        /\ queries = <<>> => Pending = {}
        /\ queries # <<>> => Head(queries) \in Pending
    BY <1>1, <1>2, AppendIs, PendingType DEF Pending
  <1>4. answering # Null => /\ answering' \in Frames /\ answering'.q = answering.q /\ answering'.ic = answering.ic
                            /\ answering'.plain = answering.plain
                            /\ answering'.frees = answering.frees /\ answering'.ans = answering.ans
    BY <1>2 DEF TypeOK, Frames
  <1>5. /\ answering' # Null <=> answering # Null
        /\ q \in stale' <=> c \notin C
        /\ \A x \in Questions \ {q} : x \in stale' <=> x \in stale
    BY <1>1, <1>2, <1>4, ConstantsAssumption DEF TypeOK
  <1>6. TypeOK'
    BY <1>1, <1>2, <1>3, <1>4, <1>5 DEF TypeOK, Frames
  <1>7. QuestionsOfLiveConnections'
    BY <1>1, <1>2, <1>3 DEF QuestionsOfLiveConnections, TypeOK
  <1>8. DataIsFreedOnce'
    <2>. SUFFICES ASSUME NEW x \in Questions \ stale'
                  PROVE  Freed(x)'
      BY DEF DataIsFreedOnce, Freed
    <2>1. CASE x = q
      BY <2>1, <1>1, <1>2, <1>3 DEF Freed, TypeOK, Kinds, Owners
    <2>2. CASE x # q
      BY <2>2, <1>1, <1>2, <1>3, <1>5, FreedOnceMeans DEF Freed, TypeOK
    <2>. QED  BY <2>1, <2>2
  <1>9. Answering'
    <2>1. \A x \in Pending' : hasData'[x]
      BY <1>1, <1>2, <1>3 DEF Answering, TypeOK
    <2>2. ASSUME answering' # Null
          PROVE  /\ ic'[answering'.q] = answering'.ic
                 /\ answering'.q \notin Pending' => answering'.ic \notin connections' \cup {Null}
                 /\ answering'.q \notin stale' =>
                       /\ answering'.q \in Pending'
                       /\ answering'.frees <=> kind'[answering'.q] \in FreedBy(answering'.ans)
                 /\ orderly' /\ order' = "fifo" => answering'.plain
      <3>. DEFINE x == answering.q
      <3>1. /\ x \in Questions /\ ic[x] = answering.ic /\ answering.ic = c
            /\ x \notin Pending => c \notin C
            /\ x \notin stale => x \in Pending /\ (answering.frees <=> kind[x] \in FreedBy(answering.ans))
            /\ orderly /\ order = "fifo" => answering.plain
        BY <1>2, <1>5, <2>2 DEF Answering, TypeOK, Frames
      <3>2. answering'.q = x /\ answering'.ic = c /\ answering'.plain = answering.plain
            /\ answering'.frees = answering.frees /\ answering'.ans = answering.ans
        BY <1>4, <1>5, <2>2, <3>1
      <3>. HIDE DEF x
      <3>3. CASE x = q
        <4>1. x \notin Pending /\ c \notin C
          BY <3>1, <3>3
        <4>2. x \in stale' /\ x \in Pending'
          BY <3>3, <4>1, <1>3, <1>5
        <4>3. ic'[x] = c
          BY <1>1, <1>2, <3>3 DEF TypeOK
        <4>. QED  BY <3>1, <3>2, <4>2, <4>3
      <3>4. CASE x # q
        BY <1>1, <1>2, <1>3, <1>5, <3>1, <3>2, <3>4 DEF TypeOK
      <3>. QED  BY <3>3, <3>4
    <2>. QED  BY <2>1, <2>2 DEF Answering
  <1>10. Shown'
    <2>1. CASE order = "lifo"
      BY <2>1, <1>1, <1>2, <1>3 DEF Shown, DisplaysNew
    <2>2. CASE order # "lifo"
      BY <2>2, <1>1, <1>2, <1>3, <1>5 DEF Shown, DisplaysNew
    <2>. QED  BY <2>1, <2>2
  <1>. QED  BY <1>6, <1>7, <1>8, <1>9, <1>10 DEF IInv

\* query_del_by_conn() of a connection that ends, by itself or in an answer
LEMMA FlushIInv ==
    ASSUME IInv, NEW c \in connections, LogoutFlushes(c),
           UNCHANGED <<order, ic, kind, hasData, answering, reply, orderly>>,
           IF answering = Null THEN stale' = stale ELSE stale' = stale \cup {answering.q} /\ answering.ic = c
    PROVE  IInv'
  <1>. DEFINE S == OfConnection(c)
              left == Without(queries, S)
  <1>1. /\ queries' = left
        /\ freed' = [q \in Questions |-> IF q \in S \cap Pending /\ Owns(q) THEN freed[q] + 1 ELSE freed[q]]
        /\ shown' = IF DisplaysNext(queries, left) THEN shown \cup {DefaultOf(left)} ELSE shown
        /\ connections' = connections \ {c}
    BY DEF LogoutFlushes, QueryDel
  <1>2. TypeOK /\ QuestionsOfLiveConnections /\ DataIsFreedOnce /\ Answering /\ Shown
    BY DEF IInv
  <1>3. /\ left \in Seq(Questions) /\ IsInjective(left) /\ Range(left) = Pending \ S
        /\ Pending \subseteq Questions
    BY <1>2, WithoutPending, PendingType
  <1>4. left # <<>> => DefaultOf(left) \in Pending /\ DefaultOf(left) # Null
                       /\ (order = "fifo" => DefaultOf(left) = Head(left))
    <2>. SUFFICES ASSUME left # <<>>
                  PROVE  DefaultOf(left) \in Pending /\ DefaultOf(left) # Null
                         /\ (order = "fifo" => DefaultOf(left) = Head(left))
      OBVIOUS
    <2>. HIDE DEF left
    <2>1. Head(left) \in Range(left) /\ Last(left) \in Range(left)
      <3>1. DOMAIN left = 1 .. Len(left) /\ Len(left) \in Nat /\ Len(left) # 0 /\ Head(left) = left[1]
        BY <1>3
      <3>2. 1 \in DOMAIN left /\ Len(left) \in DOMAIN left
        BY <3>1
      <3>. QED  BY <3>1, <3>2 DEF Range, Last
    <2>. QED  BY <2>1, <1>3, ConstantsAssumption DEF DefaultOf
  <1>5. S = {q \in Pending : ic[q] = c}
    BY DEF OfConnection
  <1>. HIDE DEF left, S
  <1>6. Pending' = Pending \ S
    BY <1>1, <1>3 DEF Pending
  <1>7. TypeOK'
    <2>1. shown' \subseteq Questions
      BY <1>1, <1>2, <1>3, <1>4 DEF TypeOK, DisplaysNext, DefaultOf
    <2>2. freed' \in [Questions -> Nat]
      BY <1>1, <1>2 DEF TypeOK
    <2>3. stale' \subseteq Questions
      BY <1>2 DEF TypeOK, Frames
    <2>. QED  BY <1>1, <1>2, <1>3, <2>1, <2>2, <2>3 DEF TypeOK
  <1>8. QuestionsOfLiveConnections'
    BY <1>1, <1>2, <1>5, <1>6 DEF QuestionsOfLiveConnections
  <1>9. DataIsFreedOnce'
    <2>. SUFFICES ASSUME NEW q \in Questions \ stale'
                  PROVE  Freed(q)'
      BY DEF DataIsFreedOnce, Freed
    <2>1. Freed(q)
      BY <1>2, FreedOnceMeans
    <2>2. q \in Pending => hasData[q]
      BY <1>2 DEF Answering
    <2>3. freed'[q] = IF q \in S \cap Pending /\ Owns(q) THEN freed[q] + 1 ELSE freed[q]
      BY <1>1
    <2>4. freed[q] \in Nat /\ kind'[q] = kind[q] /\ (q \in Pending' <=> q \in Pending /\ q \notin S)
      BY <1>2, <1>6 DEF TypeOK
    <2>5. S \subseteq Pending
      BY <1>5
    <2>. QED  BY <2>1, <2>2, <2>3, <2>4, <2>5 DEF Freed, Owns, Owners
  <1>10. Answering'
    <2>1. \A q \in Pending' : hasData'[q]
      BY <1>2, <1>6 DEF Answering
    <2>2. c \notin connections' \cup {Null}
      BY <1>1, <1>2, ConstantsAssumption DEF TypeOK
    <2>3. answering # Null => answering.ic = c /\ answering.q \in stale'
      OBVIOUS
    <2>. QED  BY <1>2, <2>1, <2>2, <2>3 DEF Answering
  <1>11. Shown'
    <2>. SUFFICES ASSUME orderly
                  PROVE  /\ order = "lifo" => Pending' \subseteq shown'
                         /\ order = "fifo" /\ answering = Null /\ left # <<>> => Head(left) \in shown'
      BY <1>1 DEF Shown
    <2>1. shown \subseteq shown'
      BY <1>1
    <2>2. CASE order = "lifo"
      BY <2>1, <2>2, <1>2, <1>6 DEF Shown
    <2>3. CASE order = "fifo" /\ answering = Null /\ left # <<>>
      <3>1. DefaultOf(left) = Head(left) /\ DefaultOf(left) # Null
        BY <1>4, <2>3
      <3>2. CASE DefaultOf(left) # DefaultOf(queries)
        BY <2>3, <3>1, <3>2, <1>1 DEF DisplaysNext
      <3>3. CASE DefaultOf(left) = DefaultOf(queries)
        <4>1. queries # <<>> /\ DefaultOf(queries) = Head(queries)
          BY <3>1, <3>3, <2>3 DEF DefaultOf
        <4>2. Head(queries) \in shown
          BY <4>1, <2>3, <1>2 DEF Shown
        <4>. QED  BY <4>1, <4>2, <3>1, <3>3, <2>1, <2>3
      <3>. QED  BY <3>2, <3>3
    <2>. QED  BY <2>2, <2>3
  <1>. QED  BY <1>7, <1>8, <1>9, <1>10, <1>11 DEF IInv

LEMMA AnswerIInv ==
    ASSUME IInv, NEW q \in Questions, NEW ans \in {"yes", "no"}, NEW plain \in BOOLEAN, Answer(q, ans, plain)
    PROVE  IInv'
  <1>. DEFINE frame == [q |-> q, ic |-> ic[q], ans |-> ans, plain |-> plain,
                        writes |-> kind[q] = "auth" \/ (kind[q] = "add" /\ ans = "yes"),
                        asks |-> kind[q] = "auth" /\ ans = "yes",
                        frees |-> kind[q] \in FreedBy(ans)]
  <1>1. /\ answering = Null /\ q \in Pending /\ answering' = frame
        /\ reply' = [reply EXCEPT ![q] = ReplyTo(q, ans)]
        /\ orderly' = (orderly /\ (plain \/ order = "lifo"))
        /\ UNCHANGED <<connections, order, queries, ic, kind, hasData, freed, shown, stale>>
    BY DEF Answer
  <1>2. TypeOK /\ QuestionsOfLiveConnections /\ DataIsFreedOnce /\ Answering /\ Shown
    BY DEF IInv
  <1>3. frame \in Frames
    BY <1>2 DEF Frames, TypeOK
  <1>4. /\ answering'.q = q /\ answering'.ic = ic[q] /\ answering'.plain = plain
        /\ answering'.ans = ans /\ (answering'.frees <=> kind[q] \in FreedBy(ans))
    BY <1>1
  <1>. HIDE DEF frame
  <1>5. answering' \in Frames /\ answering' # Null
    BY <1>1, <1>3, ConstantsAssumption
  <1>6. TypeOK'
    <2>1. ReplyTo(q, ans) \in {"none", "allowed", "denied"}
      BY DEF ReplyTo
    <2>. QED  BY <1>1, <1>2, <1>5, <2>1 DEF TypeOK
  <1>7. QuestionsOfLiveConnections' /\ DataIsFreedOnce'
    BY <1>1, <1>2 DEF QuestionsOfLiveConnections, DataIsFreedOnce, Pending
  <1>8. Answering'
    BY <1>1, <1>2, <1>4 DEF Answering, Pending
  <1>9. Shown'
    BY <1>1, <1>2, <1>5 DEF Shown, Pending, TypeOK
  <1>. QED  BY <1>6, <1>7, <1>8, <1>9 DEF IInv

LEMMA AnswerEndIInv == ASSUME IInv, AnswerEnd PROVE IInv'
  <1>. DEFINE q == answering.q
              left == Without(queries, {q})
  <1>1. /\ answering # Null /\ answering' = Null
        /\ hasData' = [hasData EXCEPT ![q] = FALSE]
        /\ queries' = left
        /\ freed' = [freed EXCEPT ![q] = @ + (IF answering.frees THEN 1 ELSE 0)
                                            + (IF q \in Pending /\ kind[q] \in Owners /\ hasData'[q] THEN 1 ELSE 0)]
        /\ shown' = IF answering.plain /\ left # <<>> THEN shown \cup {DefaultOf(left)} ELSE shown
        /\ UNCHANGED <<connections, order, ic, kind, reply, orderly, stale>>
    BY DEF AnswerEnd, ClearData
  <1>2. TypeOK /\ QuestionsOfLiveConnections /\ DataIsFreedOnce /\ Answering /\ Shown
    BY DEF IInv
  <1>3. /\ left \in Seq(Questions) /\ IsInjective(left) /\ Range(left) = Pending \ {q}
        /\ Pending \subseteq Questions
    BY <1>2, WithoutPending, PendingType
  <1>4. /\ q \in Questions /\ ic[q] = answering.ic
        /\ q \notin stale => q \in Pending /\ (answering.frees <=> kind[q] \in FreedBy(answering.ans))
        /\ orderly /\ order = "fifo" => answering.plain
    BY <1>1, <1>2 DEF Answering, TypeOK, Frames
  <1>. HIDE DEF q
  <1>5. hasData'[q] = FALSE
    BY <1>1, <1>2, <1>4 DEF TypeOK
  <1>6. left # <<>> => DefaultOf(left) \in Questions /\ (order = "fifo" => DefaultOf(left) = Head(left))
    <2>. SUFFICES ASSUME left # <<>>
                  PROVE  DefaultOf(left) \in Questions /\ (order = "fifo" => DefaultOf(left) = Head(left))
      OBVIOUS
    <2>. HIDE DEF left
    <2>1. Head(left) \in Questions /\ Last(left) \in Questions
      <3>1. DOMAIN left = 1 .. Len(left) /\ Len(left) \in Nat /\ Len(left) # 0 /\ Head(left) = left[1]
        BY <1>3
      <3>2. 1 \in 1 .. Len(left) /\ Len(left) \in 1 .. Len(left)
        BY <3>1
      <3>3. \A i \in 1 .. Len(left) : left[i] \in Questions
        BY <1>3
      <3>. QED  BY <3>1, <3>2, <3>3 DEF Last
    <2>. QED  BY <2>1 DEF DefaultOf
  <1>. HIDE DEF left
  <1>7. Pending' = Pending \ {q}
    BY <1>1, <1>3 DEF Pending
  <1>8. freed[q] \in Nat /\ freed' = [freed EXCEPT ![q] = IF answering.frees THEN freed[q] + 1 ELSE freed[q]]
    <2>1. freed[q] \in Nat
      BY <1>2, <1>4 DEF TypeOK
    <2>. DEFINE more == freed[q] + (IF answering.frees THEN 1 ELSE 0)
                                 + (IF q \in Pending /\ kind[q] \in Owners /\ hasData'[q] THEN 1 ELSE 0)
                own == IF answering.frees THEN freed[q] + 1 ELSE freed[q]
    <2>2. freed' = [freed EXCEPT ![q] = more]
      BY <1>1
    <2>3. more = own
      BY <2>1, <1>5
    <2>. HIDE DEF more
    <2>. QED  BY <2>1, <2>2, <2>3
  <1>9. TypeOK'
    <2>1. shown' \subseteq Questions
      BY <1>1, <1>2, <1>6 DEF TypeOK
    <2>2. freed' \in [Questions -> Nat]
      <3>1. freed \in [Questions -> Nat] /\ (IF answering.frees THEN freed[q] + 1 ELSE freed[q]) \in Nat
        BY <1>2, <1>8 DEF TypeOK
      <3>. QED  BY <3>1, <1>8
    <2>3. hasData' \in [Questions -> BOOLEAN]
      BY <1>1, <1>2 DEF TypeOK
    <2>. QED  BY <1>1, <1>2, <1>3, <2>1, <2>2, <2>3 DEF TypeOK
  <1>10. QuestionsOfLiveConnections'
    BY <1>1, <1>2, <1>7 DEF QuestionsOfLiveConnections
  <1>11. DataIsFreedOnce'
    <2>. SUFFICES ASSUME NEW x \in Questions \ stale
                  PROVE  Freed(x)'
      BY <1>1 DEF DataIsFreedOnce, Freed
    <2>1. Freed(x) /\ kind'[x] = kind[x] /\ (x \in Pending' <=> x \in Pending /\ x # q)
      BY <1>1, <1>2, <1>7, FreedOnceMeans
    <2>2. CASE x # q
      <3>1. freed'[x] = freed[x]
        BY <1>8, <2>2
      <3>. QED  BY <2>1, <2>2, <3>1 DEF Freed
    <2>3. CASE x = q
      <3>1. q \in Pending /\ (answering.frees <=> kind[q] \in FreedBy(answering.ans))
        BY <1>4, <2>3
      <3>2. freed'[q] = IF answering.frees THEN freed[q] + 1 ELSE freed[q]
        BY <1>2, <1>4, <1>8 DEF TypeOK
      <3>. QED  BY <1>8, <2>1, <2>3, <3>1, <3>2 DEF Freed, FreedBy, Owners
    <2>. QED  BY <2>2, <2>3
  <1>12. Answering'
    BY <1>1, <1>2, <1>3, <1>7 DEF Answering, TypeOK
  <1>13. Shown'
    <2>1. CASE order = "lifo"
      BY <2>1, <1>1, <1>2, <1>7 DEF Shown
    <2>2. CASE order # "lifo"
      BY <2>2, <1>1, <1>2, <1>4, <1>6 DEF Shown
    <2>. QED  BY <2>1, <2>2
  <1>. QED  BY <1>9, <1>10, <1>11, <1>12, <1>13 DEF IInv

LEMMA OtherIInv ==
    ASSUME IInv, \/ \E c \in Conns : Connect(c)
                 \/ SetQueryOrder \/ IrcFree \/ UNCHANGED vars
    PROVE  IInv'
  <1>1. TypeOK /\ QuestionsOfLiveConnections /\ DataIsFreedOnce /\ Answering /\ Shown
    BY DEF IInv
  <1>2. ASSUME NEW c \in Conns, Connect(c)  PROVE IInv'
    BY <1>1, <1>2 DEF Connect, IInv, TypeOK, QuestionsOfLiveConnections, DataIsFreedOnce, Answering, Shown, Pending
  <1>3. CASE SetQueryOrder
    <2>1. /\ answering = Null /\ order' \in Orders
          /\ orderly' = (orderly /\ (queries = <<>> \/ (order = "lifo" /\ order' = "fifo")))
          /\ UNCHANGED <<connections, queries, ic, kind, hasData, answering, freed, shown, reply, stale>>
      BY <1>3 DEF SetQueryOrder
    <2>2. TypeOK'
      BY <1>1, <2>1 DEF TypeOK
    <2>3. QuestionsOfLiveConnections' /\ DataIsFreedOnce' /\ Answering'
      BY <1>1, <2>1 DEF QuestionsOfLiveConnections, DataIsFreedOnce, Answering, Pending
    <2>4. Shown'
      BY <1>1, <2>1, PendingType DEF Shown, Pending
    <2>. QED  BY <2>2, <2>3, <2>4 DEF IInv
  <1>4. CASE IrcFree
    <2>1. /\ answering = Null /\ connections' = {} /\ queries' = Without(queries, Pending)
          /\ freed' = [q \in Questions |-> IF q \in Pending \cap Pending /\ Owns(q) THEN freed[q] + 1 ELSE freed[q]]
          /\ UNCHANGED <<order, ic, kind, hasData, answering, shown, reply, orderly, stale>>
      BY <1>4 DEF IrcFree, QueryDel
    <2>2. queries' \in Seq(Questions) /\ IsInjective(queries') /\ Range(queries') = {}
      BY <1>1, <2>1, WithoutPending
    <2>3. Pending' = {} /\ queries' = <<>>
      <3>1. DOMAIN queries' = 1 .. Len(queries') /\ Len(queries') \in Nat
        BY <2>2
      <3>2. Len(queries') = 0
        <4>1. \A i \in 1 .. Len(queries') : FALSE
          BY <2>2, <3>1 DEF Range
        <4>. QED  BY <3>1, <4>1
      <3>. QED  BY <2>2, <3>2 DEF Pending
    <2>4. TypeOK'
      BY <1>1, <2>1, <2>2 DEF TypeOK
    <2>5. QuestionsOfLiveConnections' /\ Answering' /\ Shown'
      BY <1>1, <2>1, <2>3 DEF QuestionsOfLiveConnections, Answering, Shown
    <2>6. DataIsFreedOnce'
      <3>. SUFFICES ASSUME NEW q \in Questions \ stale
                    PROVE  Freed(q)'
        BY <2>1 DEF DataIsFreedOnce, Freed
      <3>1. Freed(q) /\ (q \in Pending => hasData[q]) /\ kind'[q] = kind[q] /\ q \notin Pending' /\ freed[q] \in Nat
        BY <1>1, <2>1, <2>3, FreedOnceMeans DEF Answering, TypeOK
      <3>2. freed'[q] = IF q \in Pending /\ Owns(q) THEN freed[q] + 1 ELSE freed[q]
        BY <2>1
      <3>. QED  BY <3>1, <3>2 DEF Freed, Owns, Owners
    <2>. QED  BY <2>4, <2>5, <2>6 DEF IInv
  <1>5. CASE UNCHANGED vars
    BY <1>1, <1>5 DEF vars, IInv, TypeOK, QuestionsOfLiveConnections, DataIsFreedOnce, Answering, Shown, Pending
  <1>. QED  BY <1>2, <1>3, <1>4, <1>5

LEMMA NextIInv == IInv /\ [Next]_vars => IInv'
  <1>. SUFFICES ASSUME IInv, [Next]_vars  PROVE IInv'
    OBVIOUS
  <1>1. TypeOK /\ QuestionsOfLiveConnections /\ Answering
    BY DEF IInv
  <1>2. ASSUME NEW c \in Conns, Connect(c)  PROVE IInv'
    BY <1>2, OtherIInv
  <1>3. ASSUME NEW c \in Conns, Logout(c)  PROVE IInv'
    <2>1. c \in connections /\ answering = Null /\ LogoutFlushes(c)
          /\ UNCHANGED <<order, ic, kind, hasData, answering, reply, orderly, stale>>
      BY <1>3 DEF Logout
    <2>. QED  BY <2>1, FlushIInv
  <1>4. ASSUME NEW c \in Conns, NEW k \in {"auth", "add", "borrowed"}, Ask(c, k)  PROVE IInv'
    <2>1. /\ c \in Conns \cup {Null} /\ k \in Kinds /\ QueryAdd(c, k)
          /\ answering = Null /\ answering' = Null /\ UNCHANGED <<connections, order, orderly>>
      BY <1>4 DEF Ask, Kinds
    <2>. QED  BY <2>1, AddIInv
  <1>5. ASSUME NEW k \in {"pair", "borrowed"}, AskRoot(k)  PROVE IInv'
    <2>. DEFINE c == Null
    <2>1. /\ c \in Conns \cup {Null} /\ k \in Kinds /\ QueryAdd(c, k)
          /\ answering = Null /\ answering' = Null /\ UNCHANGED <<connections, order, orderly>>
      BY <1>5 DEF AskRoot, Kinds
    <2>. QED  BY <2>1, AddIInv
  <1>6. ASSUME NEW q \in Questions, NEW ans \in {"yes", "no"}, NEW plain \in BOOLEAN, Answer(q, ans, plain)
        PROVE  IInv'
    BY <1>6, AnswerIInv
  <1>7. CASE CallbackLogout
    <2>. DEFINE c == answering.ic
    <2>1. /\ c \in connections /\ LogoutFlushes(c) /\ answering # Null /\ stale' = stale \cup {answering.q}
          /\ UNCHANGED <<order, ic, kind, hasData, answering, reply, orderly>>
      BY <1>7 DEF CallbackLogout
    <2>. HIDE DEF c
    <2>. QED  BY <2>1, FlushIInv DEF c
  <1>8. CASE CallbackAsks
    <2>. DEFINE c == answering.ic
    <2>1. /\ answering # Null /\ answering.asks /\ QueryAdd(c, "add")
          /\ answering' = [answering EXCEPT !.asks = FALSE, !.writes = FALSE]
          /\ UNCHANGED <<connections, order, orderly>>
      BY <1>8 DEF CallbackAsks
    <2>3. c \in Conns \cup {Null} /\ "add" \in Kinds
      BY <1>1, <2>1 DEF Kinds, TypeOK, Frames
    <2>4. answering.ic = c
      OBVIOUS
    <2>. HIDE DEF c
    <2>. QED  BY <2>1, <2>3, <2>4, AddIInv
  <1>9. CASE AnswerEnd
    BY <1>9, AnswerEndIInv
  <1>10. CASE SetQueryOrder \/ IrcFree \/ UNCHANGED vars
    BY <1>10, OtherIInv
  <1>. QED
    BY <1>2, <1>3, <1>4, <1>5, <1>6, <1>7, <1>8, <1>9, <1>10 DEF Next

LEMMA InvariantIInv == Spec => []IInv
  BY InitIInv, NextIInv, PTL DEF Spec

-----------------------------------------------------------------------------
(* The theorems *)

\* The list of questions has no address twice, however it is taken apart.
THEOREM TypeCorrect == Spec => []TypeOK
  BY InvariantIInv, PTL DEF IInv

\* query_del_by_conn() leaves no question behind whose callbacks would be called
\* with a connection that is gone, but for what a callback asks that has itself lost
\* its connection (jabber_buddy_ask_yes(), msn_buddy_ask_yes()).
THEOREM NoQuestionOutlivesItsConnection == Spec => []QuestionsOfLiveConnections
  BY InvariantIInv, PTL DEF IInv

\* query_answer(), query_del() and the flush of a logout free q->data once between
\* them, but for the questions under whose callbacks the connection is lost, and leave
\* alone what is only borrowed.
THEOREM DataNeverFreedTwice == Spec => []DataIsFreedOnce
  BY InvariantIInv, PTL DEF IInv

\* What query_default() answers with a plain `yes' is what query_add(),
\* query_del_by_conn() or query_answer() displayed.
THEOREM AnswersWhatWasShown == Spec => []PlainAnswerWasShown
  <1>1. IInv => PlainAnswerWasShown
    <2>. SUFFICES ASSUME IInv, orderly, answering = Null, queries # <<>>
                  PROVE  order # "other" => DefaultOf(queries) \in shown
      BY DEF PlainAnswerWasShown
    <2>1. TypeOK /\ Shown
      BY DEF IInv
    <2>2. Head(queries) \in Pending /\ Last(queries) \in Pending /\ order \in Orders
      BY <2>1, PendingType DEF TypeOK
    <2>. QED  BY <2>1, <2>2 DEF Shown, DefaultOf, Orders
  <1>. QED  BY <1>1, InvariantIInv, PTL
=============================================================================
