---------------------------- MODULE ContactsProofs ----------------------------
(***************************************************************************)
(* Proofs about Contacts, for any sets of contacts, handles, groups,       *)
(* channels and nicks.                                                     *)
(***************************************************************************)
EXTENDS Contacts, FiniteSetTheorems, WellFoundedInduction, TLAPS

\* A set of numbers has a least one.
LEMMA LeastExists ==
    ASSUME NEW T, T \subseteq Nat, T # {}
    PROVE  \E x \in T : \A y \in T : x <= y
  <1>1. \E x \in T : \A y \in T : ~ (<<y, x>> \in OpToRel(<, Nat))
    BY NatLessThanWellFounded, WFMin
  <1>2. \A x, y \in Nat : y < x => <<y, x>> \in OpToRel(<, Nat)
    BY DEF OpToRel
  <1>3. \E x \in T : \A y \in T : ~ (y < x)
    BY <1>1, <1>2
  <1>. QED  BY <1>3

-----------------------------------------------------------------------------
(* What holds of the names between the calls of a handler: us are the      *)
(* contacts that exist.                                                    *)

NamesType(s, us) ==
    s \in [nick : [Users \cup {Me} -> Nicks], hash : [Nicks -> Users \cup {Me, None}],
           members : [Channels -> SUBSET us], view : [Channels -> SUBSET Nicks]]

Leads(s, us) ==
    /\ \A u \in us \cup {Me} : s.hash[s.nick[u]] = u
    /\ \A n \in Nicks : s.hash[n] # None => s.hash[n] \in us \cup {Me} /\ s.nick[s.hash[n]] = n

Right(s) ==
    \A ch \in Channels :
        s.view[ch] = IF ch \in joined THEN {s.nick[u] : u \in s.members[ch]} ELSE {}

Good(s, us) == NamesType(s, us) /\ Leads(s, us) /\ Right(s)

\* n is where nick_dedupe() may begin.
Starts == {n \in Nicks : n + Cardinality(Users) <= MaxNick}

LEMMA NicksStart == Generated \subseteq Starts /\ Given \subseteq Starts
  BY ConstantsAssumption, NicksAssumption DEF Starts

\* There is a first free nick, because every taken one has an owner of its own.
LEMMA FirstFreeIs ==
    ASSUME NEW us \in SUBSET Users, NEW s, NamesType(s, us), Leads(s, us), NEW u \in Users, NEW n \in Starts
    PROVE  FirstFree(s, u, n) \in Nicks /\ s.hash[FirstFree(s, u, n)] \in {None, u}
  <1>. DEFINE I == n .. MaxNick
              Others == (Users \ {u}) \cup {Me}
              Open == {m \in I : s.hash[m] \in {None, u}}
  <1>1. n \in Nat /\ MaxNick \in Nat /\ I \subseteq Nicks /\ n <= MaxNick
    BY ConstantsAssumption DEF Starts, Nicks
  <1>2. IsFiniteSet(Users) /\ Cardinality(Users) \in Nat
    BY NicksAssumption, FS_CardinalityType
  <1>3. IsFiniteSet(I) /\ Cardinality(I) = MaxNick - n + 1
    BY <1>1, FS_Interval
  <1>4. IsFiniteSet(Others) /\ Cardinality(Others) = Cardinality(Users)
    <2>1. IsFiniteSet(Users \ {u}) /\ Cardinality(Users \ {u}) = Cardinality(Users) - 1
      BY <1>2, FS_RemoveElement
    <2>. DEFINE S == Users \ {u}
    <2>2. Me \notin S
      BY ConstantsAssumption
    <2>3. IsFiniteSet(S) /\ Cardinality(S) = Cardinality(Users) - 1
      BY <2>1
    <2>. HIDE DEF S
    <2>4. IsFiniteSet(S \cup {Me}) /\ Cardinality(S \cup {Me}) = Cardinality(S) + 1
      BY <2>2, <2>3, FS_AddElement, Zenon
    <2>5. Cardinality(S \cup {Me}) = Cardinality(Users)
      BY <2>3, <2>4, <1>2
    <2>. QED  BY <2>4, <2>5 DEF S
  <1>5. Cardinality(Others) < Cardinality(I)
    BY <1>1, <1>2, <1>3, <1>4 DEF Starts
  <1>6. Open # {}
    <2>. SUFFICES ASSUME Open = {}
                  PROVE  FALSE
      OBVIOUS
    <2>1. \A m \in I : s.hash[m] \in Others /\ s.nick[s.hash[m]] = m
      BY <1>1 DEF Leads, NamesType
    <2>. DEFINE f == [m \in I |-> s.hash[m]]
    <2>2. f \in [I -> Others]
      BY <2>1
    <2>. HIDE DEF f, I, Others
    <2>3. PICK x, y \in I : x # y /\ f[x] = f[y]
      BY <2>2, <1>3, <1>4, <1>5, FS_PigeonHole
    <2>. QED  BY <2>3, <2>1 DEF f
  <1>7. PICK m \in Open : \A k \in Open : m <= k
    <2>1. Open \subseteq Nat
      BY <1>1 DEF Nicks
    <2>. HIDE DEF Open
    <2>. QED  BY <2>1, <1>6, LeastExists, Zenon
  <1>8. m \in I /\ s.hash[m] \in {None, u} /\ \A k \in I : s.hash[k] \in {None, u} => m <= k
    BY <1>7
  <1>. DEFINE c == FirstFree(s, u, n)
  <1>9. c \in I /\ s.hash[c] \in {None, u}
    BY <1>8 DEF FirstFree
  <1>. QED  BY <1>9, <1>1

-----------------------------------------------------------------------------
(* The calls keep the names good, each with what else it does.             *)

\* After JOIN and PART the client shows who is there.
LEMMA UpdateKeeps ==
    ASSUME NEW us \in SUBSET Users, NEW s, Good(s, us), NEW chs \in SUBSET Channels, NEW xs \in SUBSET us,
           NEW wanted \in [Channels -> SUBSET us]
    PROVE  LET t == Update(s, chs, xs, wanted)
           IN  /\ Good(t, us) /\ t.nick = s.nick /\ t.hash = s.hash
               /\ t.members = [ch \in Channels |-> IF ch \in chs THEN (s.members[ch] \ xs) \cup (xs \cap wanted[ch])
                                                                 ELSE s.members[ch]]
  <1>. DEFINE t == Update(s, chs, xs, wanted)
  <1>1. NamesType(s, us) /\ Leads(s, us) /\ Right(s)
    BY DEF Good
  <1>2. /\ t.nick = s.nick /\ t.hash = s.hash
        /\ t.members = [ch \in Channels |-> IF ch \in chs THEN (s.members[ch] \ xs) \cup (xs \cap wanted[ch])
                                                          ELSE s.members[ch]]
        /\ t.view = [ch \in Channels |->
                        IF ch \in chs \cap joined
                        THEN (s.view[ch] \ {s.nick[u] : u \in xs \cap s.members[ch]}) \cup {s.nick[u] : u \in xs \cap wanted[ch]}
                        ELSE s.view[ch]]
        /\ t = [s EXCEPT !.members = t.members, !.view = t.view]
    BY <1>1 DEF Update, NamesType
  <1>3. NamesType(t, us)
    <2>1. t.members \in [Channels -> SUBSET us]
      BY <1>1, <1>2 DEF NamesType
    <2>2. t.view \in [Channels -> SUBSET Nicks]
      BY <1>1, <1>2 DEF NamesType
    <2>. QED  BY <1>1, <1>2, <2>1, <2>2 DEF NamesType
  <1>4. Leads(t, us)
    BY <1>1, <1>2 DEF Leads
  <1>5. Right(t)
    <2>. SUFFICES ASSUME NEW ch \in Channels
                  PROVE  t.view[ch] = IF ch \in joined THEN {t.nick[u] : u \in t.members[ch]} ELSE {}
      BY DEF Right
    <2>1. s.view[ch] = IF ch \in joined THEN {s.nick[u] : u \in s.members[ch]} ELSE {}
      BY <1>1 DEF Right
    <2>2. CASE ch \notin joined
      BY <2>1, <2>2, <1>2
    <2>4. CASE ch \in joined \ chs
      <3>1. t.view[ch] = s.view[ch] /\ t.members[ch] = s.members[ch] /\ t.nick = s.nick
        BY <2>4, <1>2
      <3>. QED  BY <3>1, <2>1, <2>4
    <2>3. CASE ch \in chs \cap joined
      <3>1. \A u, v \in us : s.nick[u] = s.nick[v] => u = v
        BY <1>1 DEF Leads
      <3>2. s.members[ch] \subseteq us /\ wanted[ch] \subseteq us
        BY <1>1 DEF NamesType
      <3>3. {s.nick[u] : u \in s.members[ch]} \ {s.nick[u] : u \in xs \cap s.members[ch]}
              = {s.nick[u] : u \in s.members[ch] \ xs}
        BY <3>1, <3>2
      <3>4. /\ t.members[ch] = (s.members[ch] \ xs) \cup (xs \cap wanted[ch])
            /\ t.view[ch] = {s.nick[u] : u \in s.members[ch] \ xs} \cup {s.nick[u] : u \in xs \cap wanted[ch]}
        BY <1>2, <2>1, <2>3, <3>3
      <3>. QED  BY <3>4, <2>3, <1>2
    <2>. QED  BY <2>2, <2>3, <2>4
  <1>. QED  BY <1>2, <1>3, <1>4, <1>5 DEF Good

\* A nick that is free or its own can be given to anyone who is there.
LEMMA SetNickKeeps ==
    ASSUME NEW us \in SUBSET Users, NEW s, Good(s, us), NEW u \in us \cup {Me}, NEW n \in Nicks,
           s.hash[n] \in {None, u}
    PROVE  Good(SetNick(s, u, n), us) /\ SetNick(s, u, n).members = s.members
  <1>. DEFINE t == SetNick(s, u, n)
              old == s.nick[u]
              moved == [ch \in Channels |-> IF Visible(s, u) /\ old \in s.view[ch] THEN (s.view[ch] \ {old}) \cup {n}
                                                                                  ELSE s.view[ch]]
  <1>1. NamesType(s, us) /\ Leads(s, us) /\ Right(s)
    BY DEF Good
  <1>2. /\ t.nick = [s.nick EXCEPT ![u] = n]
        /\ t.hash = [s.hash EXCEPT ![old] = None, ![n] = u]
        /\ t.members = s.members
        /\ t.view = moved
        /\ t = [nick |-> t.nick, hash |-> t.hash, members |-> t.members, view |-> t.view]
    <2>2. t = [nick |-> [s.nick EXCEPT ![u] = n], hash |-> [s.hash EXCEPT ![old] = None, ![n] = u],
               members |-> s.members, view |-> moved]
      BY DEF SetNick
    <2>. HIDE DEF t, moved
    <2>. QED  BY <2>2
  <1>3. NamesType(t, us)
    <2>1. old \in Nicks
      BY <1>1 DEF NamesType
    <2>2. t.nick \in [Users \cup {Me} -> Nicks]
      BY <1>1, <1>2 DEF NamesType
    <2>3. t.hash \in [Nicks -> Users \cup {Me, None}]
      BY <1>1, <1>2 DEF NamesType
    <2>4. t.view \in [Channels -> SUBSET Nicks]
      BY <1>1, <1>2 DEF NamesType
    <2>. QED  BY <1>1, <1>2, <2>2, <2>3, <2>4 DEF NamesType
  <1>4. Leads(t, us)
    <2>1. u # None /\ Me # None
      BY ConstantsAssumption
    <2>2. s.nick \in [Users \cup {Me} -> Nicks] /\ s.hash \in [Nicks -> Users \cup {Me, None}]
      BY <1>1 DEF NamesType
    <2>3. \A v \in us \cup {Me} : t.hash[t.nick[v]] = v
      <3>. SUFFICES ASSUME NEW v \in us \cup {Me}
                    PROVE  t.hash[t.nick[v]] = v
        OBVIOUS
      <3>1. t.nick = [s.nick EXCEPT ![u] = n] /\ t.hash = [s.hash EXCEPT ![old] = None, ![n] = u]
        BY <1>2
      <3>. HIDE DEF t
      <3>2. CASE v = u
        BY <3>1, <3>2, <2>2
      <3>3. CASE v # u
        <4>1. s.hash[s.nick[v]] = v /\ s.hash[old] = u /\ s.nick[v] \in Nicks
          BY <1>1, <2>2 DEF Leads
        <4>2. s.nick[v] # old /\ s.nick[v] # n
          BY <4>1, <3>3, <2>1, ConstantsAssumption
        <4>. QED  BY <3>1, <3>3, <4>1, <4>2, <2>2
      <3>. QED  BY <3>2, <3>3
    <2>4. \A k \in Nicks : t.hash[k] # None => t.hash[k] \in us \cup {Me} /\ t.nick[t.hash[k]] = k
      BY <1>1, <1>2, <2>1, <2>2 DEF Leads
    <2>. QED  BY <2>3, <2>4 DEF Leads
  <1>5. Right(t)
    <2>. SUFFICES ASSUME NEW ch \in Channels
                  PROVE  t.view[ch] = IF ch \in joined THEN {t.nick[v] : v \in t.members[ch]} ELSE {}
      BY DEF Right
    <2>1. s.view[ch] = IF ch \in joined THEN {s.nick[v] : v \in s.members[ch]} ELSE {}
      BY <1>1 DEF Right
    <2>2. t.view[ch] = IF Visible(s, u) /\ old \in s.view[ch] THEN (s.view[ch] \ {old}) \cup {n} ELSE s.view[ch]
      BY <1>2
    <2>3. s.members[ch] \subseteq us /\ s.nick \in [Users \cup {Me} -> Nicks]
      BY <1>1 DEF NamesType
    <2>4. \A v, w \in us \cup {Me} : s.nick[v] = s.nick[w] => v = w
      BY <1>1 DEF Leads
    <2>5. CASE ch \notin joined
      BY <2>1, <2>2, <2>5
    <2>6. CASE ch \in joined /\ u \in s.members[ch]
      <3>1. Visible(s, u) /\ old \in s.view[ch]
        BY <2>1, <2>6 DEF Visible
      <3>2. s.view[ch] \ {old} = {s.nick[v] : v \in s.members[ch] \ {u}}
        BY <2>1, <2>3, <2>4, <2>6
      <3>3. \A v \in s.members[ch] \ {u} : t.nick[v] = s.nick[v]
        BY <1>2, <2>3
      <3>4. t.nick[u] = n
        BY <1>2, <2>3
      <3>5. {t.nick[v] : v \in s.members[ch]} = {s.nick[v] : v \in s.members[ch] \ {u}} \cup {n}
        BY <3>3, <3>4, <2>6
      <3>. QED  BY <3>1, <3>2, <3>5, <2>2, <2>6, <1>2
    <2>7. CASE ch \in joined /\ u \notin s.members[ch]
      <3>1. old \notin s.view[ch]
        BY <2>1, <2>3, <2>4, <2>7
      <3>2. \A v \in s.members[ch] : t.nick[v] = s.nick[v]
        BY <1>2, <2>3, <2>7
      <3>3. {t.nick[v] : v \in s.members[ch]} = {s.nick[v] : v \in s.members[ch]}
        BY <3>2
      <3>. QED  BY <3>1, <3>3, <2>1, <2>2, <2>7, <1>2
    <2>. QED  BY <2>5, <2>6, <2>7
  <1>. QED  BY <1>2, <1>3, <1>4, <1>5 DEF Good

\* One QUIT is enough for all channels, and none is needed if no one sees it.
LEMMA QuitKeeps ==
    ASSUME NEW us \in SUBSET Users, NEW s, Good(s, us), NEW xs \in SUBSET us
    PROVE  LET t == Quit(s, xs)
           IN  /\ Good(t, us) /\ t.nick = s.nick /\ t.hash = s.hash
               /\ t.members = [ch \in Channels |-> s.members[ch] \ xs]
  <1>. DEFINE t == Quit(s, xs)
              seen == {s.nick[u] : u \in {x \in xs : Visible(s, x)}}
  <1>1. NamesType(s, us) /\ Leads(s, us) /\ Right(s)
    BY DEF Good
  <1>2. /\ t.nick = s.nick /\ t.hash = s.hash
        /\ t.members = [ch \in Channels |-> s.members[ch] \ xs]
        /\ t.view = [ch \in Channels |-> s.view[ch] \ seen]
        /\ t = [s EXCEPT !.members = t.members, !.view = t.view]
    BY <1>1 DEF Quit, NamesType
  <1>3. NamesType(t, us)
    <2>1. t.members \in [Channels -> SUBSET us] /\ t.view \in [Channels -> SUBSET Nicks]
      BY <1>1, <1>2 DEF NamesType
    <2>. QED  BY <1>1, <1>2, <2>1 DEF NamesType
  <1>4. Leads(t, us)
    BY <1>1, <1>2 DEF Leads
  <1>5. Right(t)
    <2>. SUFFICES ASSUME NEW ch \in Channels
                  PROVE  t.view[ch] = IF ch \in joined THEN {t.nick[u] : u \in t.members[ch]} ELSE {}
      BY DEF Right
    <2>1. s.view[ch] = IF ch \in joined THEN {s.nick[u] : u \in s.members[ch]} ELSE {}
      BY <1>1 DEF Right
    <2>2. CASE ch \notin joined
      BY <2>1, <2>2, <1>2
    <2>3. CASE ch \in joined
      <3>1. \A u, v \in us : s.nick[u] = s.nick[v] => u = v
        BY <1>1 DEF Leads
      <3>2. s.members[ch] \subseteq us
        BY <1>1 DEF NamesType
      <3>3. \A u \in s.members[ch] : s.nick[u] \in seen <=> u \in xs
        BY <3>1, <3>2, <2>3 DEF Visible
      <3>4. {s.nick[u] : u \in s.members[ch]} \ seen = {s.nick[u] : u \in s.members[ch] \ xs}
        BY <3>3
      <3>. QED  BY <3>4, <2>1, <2>3, <1>2
    <2>. QED  BY <2>2, <2>3
  <1>. QED  BY <1>2, <1>3, <1>4, <1>5 DEF Good

\* irc_user_free() takes their nicks with them and leaves those of the others.
LEMMA ForgetKeeps ==
    ASSUME NEW us \in SUBSET Users, NEW s, Good(s, us), NEW xs \in SUBSET us
    PROVE  /\ Good(Forget(s, xs), us \ xs)
           /\ Forget(s, xs).members = [ch \in Channels |-> s.members[ch] \ xs]
  <1>. DEFINE q == Quit(s, xs)
              t == Forget(s, xs)
  <1>1. NamesType(s, us) /\ Leads(s, us)
    BY DEF Good
  <1>2. /\ Good(q, us) /\ q.nick = s.nick /\ q.hash = s.hash
        /\ q.members = [ch \in Channels |-> s.members[ch] \ xs]
    BY QuitKeeps
  <1>3. NamesType(q, us) /\ Right(q)
    BY <1>2 DEF Good
  <1>. HIDE DEF q
  <1>4. /\ t.nick = [u \in Users \cup {Me} |-> IF u \in xs THEN 0 ELSE s.nick[u]]
        /\ t.hash = [n \in Nicks |-> IF n \in {s.nick[u] : u \in xs} THEN None ELSE s.hash[n]]
        /\ t.members = q.members /\ t.view = q.view
        /\ t = [q EXCEPT !.nick = t.nick, !.hash = t.hash]
    BY <1>1, <1>2, <1>3 DEF Forget, NamesType, q
  <1>. HIDE DEF t
  <1>5. NamesType(t, us \ xs)
    <2>1. t.nick \in [Users \cup {Me} -> Nicks]
      BY <1>1, <1>4, ConstantsAssumption DEF NamesType, Nicks
    <2>2. t.hash \in [Nicks -> Users \cup {Me, None}]
      BY <1>1, <1>4 DEF NamesType
    <2>3. t.members \in [Channels -> SUBSET (us \ xs)]
      BY <1>1, <1>2, <1>4 DEF NamesType
    <2>4. t.view \in [Channels -> SUBSET Nicks]
      BY <1>3, <1>4 DEF NamesType
    <2>. QED  BY <1>3, <1>4, <2>1, <2>2, <2>3, <2>4 DEF NamesType
  <1>6. Leads(t, us \ xs)
    <2>1. Me \notin Users /\ None \notin Users \cup {Me}
      BY ConstantsAssumption
    <2>2. s.nick \in [Users \cup {Me} -> Nicks] /\ s.hash \in [Nicks -> Users \cup {Me, None}]
      BY <1>1 DEF NamesType
    <2>3. \A u \in us \cup {Me} : s.nick[u] \in {s.nick[x] : x \in xs} <=> u \in xs
      BY <1>1 DEF Leads
    <2>4. ASSUME NEW u \in (us \ xs) \cup {Me}  PROVE  t.hash[t.nick[u]] = u
      <3>1. u \notin xs /\ t.nick[u] = s.nick[u] /\ s.nick[u] \in Nicks
        BY <2>1, <2>2, <1>4
      <3>2. t.hash[s.nick[u]] = s.hash[s.nick[u]]
        BY <3>1, <2>3, <1>4
      <3>. QED  BY <3>1, <3>2, <1>1 DEF Leads
    <2>5. ASSUME NEW n \in Nicks, t.hash[n] # None
          PROVE  t.hash[n] \in (us \ xs) \cup {Me} /\ t.nick[t.hash[n]] = n
      <3>1. t.hash[n] = s.hash[n] /\ n \notin {s.nick[x] : x \in xs}
        BY <2>5, <1>4
      <3>2. s.hash[n] \in us \cup {Me} /\ s.nick[s.hash[n]] = n
        BY <3>1, <2>5, <1>1 DEF Leads
      <3>. QED  BY <3>1, <3>2, <1>4, <2>3, <2>1
    <2>. QED  BY <2>4, <2>5 DEF Leads
  <1>7. Right(t)
    <2>. SUFFICES ASSUME NEW ch \in Channels
                  PROVE  t.view[ch] = IF ch \in joined THEN {t.nick[u] : u \in t.members[ch]} ELSE {}
      BY DEF Right
    <2>1. t.members[ch] \subseteq us \ xs
      BY <1>5 DEF NamesType
    <2>2. \A u \in t.members[ch] : t.nick[u] = q.nick[u]
      BY <2>1, <1>2, <1>4
    <2>. DEFINE there == t.members[ch]
    <2>3. {t.nick[u] : u \in there} = {q.nick[u] : u \in there} /\ there = q.members[ch]
      <3>1. \A u \in there : t.nick[u] = q.nick[u]
        BY <2>2
      <3>2. there = q.members[ch]
        BY <1>4
      <3>. HIDE DEF there
      <3>. QED  BY <3>1, <3>2
    <2>. QED  BY <2>3, <1>3, <1>4 DEF Right
  <1>. QED  BY <1>2, <1>4, <1>5, <1>6, <1>7 DEF Good, t

LEMMA NickUpdateKeeps ==
    ASSUME NEW us \in SUBSET Users, NEW s, Good(s, us), NEW u \in us, NEW h, NEW g \in Generated
    PROVE  Good(NickUpdate(s, u, h, g), us) /\ NickUpdate(s, u, h, g).members = s.members
  <1>1. NamesType(s, us) /\ Leads(s, us) /\ g \in Starts /\ u \in Users
    BY NicksStart DEF Good
  <1>. DEFINE new == FirstFree(s, u, g)
  <1>2. new \in Nicks /\ s.hash[new] \in {None, u}
    BY <1>1, FirstFreeIs
  <1>. HIDE DEF new
  <1>3. Good(SetNick(s, u, new), us) /\ SetNick(s, u, new).members = s.members
    BY <1>2, SetNickKeeps
  <1>. QED  BY <1>3 DEF NickUpdate, new

LEMMA WantedType ==
    ASSUME NEW us, NEW groups, NEW on, NEW fills, NEW offline
    PROVE  Wanted(us, groups, on, fills, offline) \in [Channels -> SUBSET us]
  BY DEF Wanted

\* The contact is where its new group belongs, whatever it was called on the way.
LEMMA RegroupKeeps ==
    ASSUME NEW us \in SUBSET Users, NEW s, Good(s, us), NEW u \in us, NEW h, NEW groups, NEW g \in Generated,
           joined \in SUBSET Channels
    PROVE  LET t == Regroup(s, u, h, us, groups, g)
           IN  /\ Good(t, us)
               /\ t.members = [ch \in Channels |->
                      IF ch \in joined
                      THEN (s.members[ch] \ {u}) \cup ({u} \cap Wanted(us, groups, online, fill, shows)[ch])
                      ELSE s.members[ch]]
  <1>. DEFINE w == Wanted(us, groups, online, fill, shows)
              v == Wanted(us, groups, online \ {u}, fill, shows)
              away == Update(s, joined, {u}, v)
              back == NickUpdate(away, u, h, g)
              t == Update(back, joined, {u}, w)
  <1>1. w \in [Channels -> SUBSET us] /\ v \in [Channels -> SUBSET us] /\ {u} \in SUBSET us
    BY WantedType
  <1>. HIDE DEF w, v
  <1>2. /\ Good(away, us)
        /\ away.members = [ch \in Channels |-> IF ch \in joined THEN (s.members[ch] \ {u}) \cup ({u} \cap v[ch])
                                                                ELSE s.members[ch]]
    <2>. DEFINE xs == {u}
    <2>1. xs \in SUBSET us /\ Good(s, us)
      BY <1>1
    <2>. HIDE DEF t, back, xs
    <2>2. LET a == Update(s, joined, xs, v)
          IN  /\ Good(a, us)
              /\ a.members = [ch \in Channels |-> IF ch \in joined THEN (s.members[ch] \ xs) \cup (xs \cap v[ch])
                                                                   ELSE s.members[ch]]
      BY <1>1, <2>1, UpdateKeeps
    <2>. QED  BY <2>2 DEF xs
  <1>. HIDE DEF away
  <1>3. Good(back, us) /\ back.members = away.members
    <2>. HIDE DEF t
    <2>1. Good(away, us)
      BY <1>2
    <2>. QED  BY <2>1, NickUpdateKeeps
  <1>. HIDE DEF back
  <1>4. /\ Good(t, us)
        /\ t.members = [ch \in Channels |-> IF ch \in joined THEN (back.members[ch] \ {u}) \cup ({u} \cap w[ch])
                                                             ELSE back.members[ch]]
    BY <1>1, <1>3, UpdateKeeps
  <1>5. \A ch \in joined : (back.members[ch] \ {u}) \cup ({u} \cap w[ch]) = (s.members[ch] \ {u}) \cup ({u} \cap w[ch])
    BY <1>2, <1>3
  <1>6. t.members = [ch \in Channels |-> IF ch \in joined THEN (s.members[ch] \ {u}) \cup ({u} \cap w[ch])
                                                          ELSE s.members[ch]]
    <2>. HIDE DEF t
    <2>1. \A ch \in Channels \ joined : back.members[ch] = s.members[ch]
      BY <1>2, <1>3
    <2>. QED  BY <1>4, <1>5, <2>1
  <1>7. t = Regroup(s, u, h, us, groups, g)
    BY DEF Regroup, t, back, away, w, v
  <1>. QED  BY <1>4, <1>6, <1>7 DEF w

-----------------------------------------------------------------------------
(* The inductive invariant *)

OtherTypes ==
    /\ users \subseteq Users /\ online \subseteq users
    /\ handle \in [Users -> Handles \cup {None}]
    /\ group \in [Users -> Groups \cup {None}]
    /\ saved \in [Handles -> Given \cup {None}]
    /\ fill \in [Channels -> Fills \cup {None}]
    /\ shows \subseteq Channels /\ joined \subseteq Channels
    /\ typed \in [Users -> SUBSET Handles]
    /\ target \in [Channels -> Users \cup {None}]
    /\ unfilled \subseteq joined

\* Only contacts that exist have a handle.
Known == \A u \in Users : u \in users <=> handle[u] # None

NamesInv == Good(Now, users)

ChannelsInv == ChannelsHoldWhoIsWanted

LinesInv == LinesReachTheAddressed

IInv == OtherTypes /\ NamesInv /\ Known /\ ChannelsInv /\ LinesInv

LEMMA IInvImplies ==
    IInv => /\ TypeOK /\ NicksLeadToTheirUsers /\ ViewIsRight
            /\ ChannelsHoldWhoIsWanted /\ LinesReachTheAddressed
  <1>. SUFFICES ASSUME IInv
                PROVE  /\ TypeOK /\ NicksLeadToTheirUsers /\ ViewIsRight
                       /\ ChannelsHoldWhoIsWanted /\ LinesReachTheAddressed
    OBVIOUS
  <1>1. /\ nick \in [Users \cup {Me} -> Nicks] /\ hash \in [Nicks -> Users \cup {Me, None}]
        /\ members \in [Channels -> SUBSET users] /\ view \in [Channels -> SUBSET Nicks]
    BY DEF IInv, NamesInv, Good, NamesType, Now
  <1>2. TypeOK
    BY <1>1, ConstantsAssumption DEF IInv, OtherTypes, TypeOK
  <1>3. NicksLeadToTheirUsers
    BY DEF IInv, NamesInv, Good, Leads, Now, NicksLeadToTheirUsers
  <1>4. ViewIsRight
    BY DEF IInv, NamesInv, Good, Right, Now, ViewIsRight
  <1>. QED  BY <1>2, <1>3, <1>4 DEF IInv, ChannelsInv, LinesInv

\* Names that are good in a record are good once the variables have become it.
LEMMA BecomesGood ==
    ASSUME NEW s, Becomes(s), joined' = joined, Good(s, users')
    PROVE  NamesInv'
  <1>1. NamesType(s, users') /\ Leads(s, users') /\ Right(s)
    BY DEF Good
  <1>2. Now' = [nick |-> s.nick, hash |-> s.hash, members |-> s.members, view |-> s.view]
    BY DEF Becomes, Now
  <1>3. Now' = s
    BY <1>1, <1>2 DEF NamesType
  <1>4. Right(Now)'
    BY <1>1, <1>3 DEF Right
  <1>5. NamesType(Now, users)' /\ Leads(Now, users)'
    BY <1>1, <1>3 DEF NamesType, Leads
  <1>. QED  BY <1>4, <1>5 DEF NamesInv, Good

\* A step that leaves the names, the contacts and the channels alone
LEMMA NamesStay ==
    ASSUME NamesInv, UNCHANGED <<names, users, joined>>
    PROVE  NamesInv'
  BY DEF NamesInv, names, Good, NamesType, Leads, Right, Now, Visible

LEMMA InitIInv == Init => IInv
  <1>. SUFFICES ASSUME Init  PROVE IInv
    OBVIOUS
  <1>. USE DEF Init
  <1>1. 0 \in Nicks /\ Me \notin Users /\ None # Me /\ None \notin Users \cup Handles \cup Fills /\ Default \in Channels
    BY ConstantsAssumption DEF Nicks
  <1>2. OtherTypes
    BY <1>1 DEF OtherTypes, Fills
  <1>3. NamesType(Now, users)
    BY <1>1 DEF NamesType, Now
  <1>4. Leads(Now, users) /\ Right(Now)
    BY <1>1 DEF Leads, Right, Now
  <1>5. Known
    BY <1>1 DEF Known
  <1>6. ChannelsInv
    BY <1>1 DEF ChannelsInv, ChannelsHoldWhoIsWanted, Wanted
  <1>7. LinesInv
    BY <1>1 DEF LinesInv, LinesReachTheAddressed
  <1>. QED  BY <1>2, <1>3, <1>4, <1>5, <1>6, <1>7 DEF IInv, NamesInv, Good

-----------------------------------------------------------------------------
(* The account's connection *)

\* A nick to begin with: saved, given or generated
LEMMA NickForIs ==
    ASSUME IInv, NEW u \in Users, NEW h \in Handles, NEW g \in Generated
    PROVE  NickFor(Now, u, h, g) \in Nicks /\ hash[NickFor(Now, u, h, g)] \in {None, u}
  <1>. DEFINE n == IF saved[h] # None THEN saved[h] ELSE g
  <1>1. n \in Starts
    BY NicksStart DEF IInv, OtherTypes
  <1>2. NamesType(Now, users) /\ Leads(Now, users) /\ users \in SUBSET Users
    BY DEF IInv, NamesInv, Good, OtherTypes
  <1>. HIDE DEF n
  <1>3. FirstFree(Now, u, n) \in Nicks /\ Now.hash[FirstFree(Now, u, n)] \in {None, u}
    BY <1>1, <1>2, FirstFreeIs
  <1>. QED  BY <1>3 DEF NickFor, n, Now

LEMMA UserNewIInv ==
    ASSUME IInv, NEW u \in Users, NEW h \in Handles, NEW gr \in Groups \cup {None}, NEW g \in Generated,
           UserNew(u, h, gr, g)
    PROVE  IInv'
  <1>. DEFINE n == NickFor(Now, u, h, g)
              named == [nick |-> [nick EXCEPT ![u] = n], hash |-> [hash EXCEPT ![n] = u],
                        members |-> members, view |-> view]
              none == [group EXCEPT ![u] = None]
              w == Wanted(users', none, online, fill, shows)
              new == Update(named, joined, {u}, w)
              t == IF gr = None THEN new ELSE Regroup(new, u, h, users', group', g)
  <1>1. /\ u \notin users /\ users' = users \cup {u} /\ handle' = [handle EXCEPT ![u] = h]
        /\ group' = [group EXCEPT ![u] = gr] /\ Becomes(t)
        /\ UNCHANGED <<online, saved, settings, typed, target, unfilled>>
    BY DEF UserNew
  <1>2. OtherTypes /\ Good(Now, users) /\ NamesType(Now, users) /\ Leads(Now, users) /\ Right(Now) /\ Known
    BY DEF IInv, NamesInv, Good
  <1>3. users' \in SUBSET Users /\ joined \in SUBSET Channels /\ joined' = joined
    BY <1>1, <1>2 DEF OtherTypes, settings
  <1>4. n \in Nicks /\ hash[n] \in {None, u}
    BY NickForIs
  <1>5. u \notin users \cup {Me, None} /\ None \notin Users \cup {Me}
    BY <1>1, ConstantsAssumption
  <1>6. hash[n] = None
    BY <1>2, <1>4, <1>5 DEF Leads, Now
  <1>. HIDE DEF n
  <1>7. /\ named.nick = [nick EXCEPT ![u] = n] /\ named.hash = [hash EXCEPT ![n] = u]
        /\ named.members = members /\ named.view = view
        /\ named = [nick |-> [nick EXCEPT ![u] = n], hash |-> [hash EXCEPT ![n] = u],
                    members |-> members, view |-> view]
    OBVIOUS
  <1>. HIDE DEF named
  <1>8. Good(named, users')
    <2>1. /\ nick \in [Users \cup {Me} -> Nicks] /\ hash \in [Nicks -> Users \cup {Me, None}]
          /\ members \in [Channels -> SUBSET users] /\ view \in [Channels -> SUBSET Nicks]
      BY <1>2 DEF NamesType, Now
    <2>2. NamesType(named, users')
      <3>1. [nick EXCEPT ![u] = n] \in [Users \cup {Me} -> Nicks]
        BY <1>4, <2>1
      <3>2. [hash EXCEPT ![n] = u] \in [Nicks -> Users \cup {Me, None}]
        BY <1>4, <2>1
      <3>3. members \in [Channels -> SUBSET users']
        BY <2>1, <1>1
      <3>. QED  BY <1>7, <2>1, <3>1, <3>2, <3>3 DEF NamesType
    <2>3. Leads(named, users')
      <3>1. \A x \in users \cup {Me} : hash[nick[x]] = x
        BY <1>2 DEF Leads, Now
      <3>2. \A k \in Nicks : hash[k] # None => hash[k] \in users \cup {Me} /\ nick[hash[k]] = k
        BY <1>2 DEF Leads, Now
      <3>3. ASSUME NEW x \in users' \cup {Me}  PROVE  named.hash[named.nick[x]] = x
        <4>1. CASE x = u
          BY <4>1, <1>4, <1>7, <2>1
        <4>2. CASE x # u
          <5>1. x \in users \cup {Me} /\ nick[x] \in Nicks /\ hash[nick[x]] = x /\ nick[x] # n
            BY <4>2, <1>1, <1>5, <1>6, <2>1, <3>1, <1>2 DEF OtherTypes
          <5>. QED  BY <5>1, <4>2, <1>7, <2>1
        <4>. QED  BY <4>1, <4>2
      <3>4. ASSUME NEW k \in Nicks, named.hash[k] # None
            PROVE  named.hash[k] \in users' \cup {Me} /\ named.nick[named.hash[k]] = k
        <4>1. CASE k = n
          BY <4>1, <1>1, <1>4, <1>7, <2>1
        <4>2. CASE k # n
          <5>1. named.hash[k] = hash[k]
            BY <4>2, <1>7, <2>1
          <5>2. hash[k] \in users \cup {Me} /\ nick[hash[k]] = k
            BY <5>1, <3>2, <3>4
          <5>3. hash[k] # u
            BY <5>2, <1>5
          <5>. QED  BY <5>1, <5>2, <5>3, <1>1, <1>7, <2>1, <1>2 DEF OtherTypes
        <4>. QED  BY <4>1, <4>2
      <3>. QED  BY <3>3, <3>4 DEF Leads
    <2>4. Right(named)
      <3>. SUFFICES ASSUME NEW ch \in Channels
                    PROVE  named.view[ch] = IF ch \in joined THEN {named.nick[x] : x \in named.members[ch]} ELSE {}
        BY DEF Right
      <3>1. view[ch] = IF ch \in joined THEN {nick[x] : x \in members[ch]} ELSE {}
        BY <1>2 DEF Right, Now
      <3>. DEFINE there == members[ch]
      <3>2. there \subseteq users
        BY <2>1
      <3>. HIDE DEF there
      <3>3. \A x \in there : named.nick[x] = nick[x]
        BY <3>2, <1>5, <1>7, <2>1, <1>2 DEF OtherTypes
      <3>4. {named.nick[x] : x \in there} = {nick[x] : x \in there}
        BY <3>3
      <3>. QED  BY <3>1, <3>4, <1>7 DEF there
    <2>. QED  BY <2>2, <2>3, <2>4 DEF Good
  <1>9. w \in [Channels -> SUBSET users'] /\ {u} \in SUBSET users' /\ u \in users'
    BY <1>1, WantedType
  <1>10. /\ Good(new, users')
         /\ new.members = [ch \in Channels |-> IF ch \in joined THEN (members[ch] \ {u}) \cup ({u} \cap w[ch])
                                                                ELSE members[ch]]
    <2>. DEFINE xs == {u}
    <2>. HIDE DEF w, xs
    <2>1. LET a == Update(named, joined, xs, w)
          IN  /\ Good(a, users')
              /\ a.members = [ch \in Channels |-> IF ch \in joined THEN (named.members[ch] \ xs) \cup (xs \cap w[ch])
                                                                   ELSE named.members[ch]]
      BY <1>3, <1>8, <1>9, UpdateKeeps DEF xs
    <2>. QED  BY <2>1, <1>7 DEF xs
  <1>. DEFINE wg == Wanted(users', group', online, fill, shows)
  <1>11. /\ Good(t, users')
         /\ \A ch \in joined : t.members[ch] = (members[ch] \ {u}) \cup ({u} \cap wg[ch])
    <2>1. CASE gr = None
      <3>1. wg = w
        BY <2>1, <1>1
      <3>. HIDE DEF w, wg, new
      <3>. QED  BY <2>1, <3>1, <1>3, <1>10
    <2>2. CASE gr # None
      <3>. HIDE DEF new, w
      <3>1. LET r == Regroup(new, u, h, users', group', g)
            IN  /\ Good(r, users')
                /\ r.members = [ch \in Channels |->
                       IF ch \in joined
                       THEN (new.members[ch] \ {u}) \cup ({u} \cap Wanted(users', group', online, fill, shows)[ch])
                       ELSE new.members[ch]]
        BY <1>3, <1>9, <1>10, RegroupKeeps
      <3>2. \A ch \in joined : t.members[ch] = (new.members[ch] \ {u}) \cup ({u} \cap wg[ch])
        BY <2>2, <3>1, <1>3
      <3>. QED  BY <2>2, <3>1, <3>2, <1>3, <1>10
    <2>. QED  BY <2>1, <2>2
  <1>. HIDE DEF t, new, w
  <1>12. OtherTypes'
    BY <1>1, <1>2 DEF OtherTypes, settings
  <1>13. NamesInv'
    BY <1>1, <1>3, <1>11, BecomesGood
  <1>14. Known'
    BY <1>1, <1>2, <1>5, ConstantsAssumption DEF Known, OtherTypes
  <1>15. ChannelsInv'
    <2>. SUFFICES ASSUME NEW ch \in joined \ unfilled
                  PROVE  members'[ch] = wg[ch]
      BY <1>1 DEF ChannelsInv, ChannelsHoldWhoIsWanted, settings
    <2>1. members[ch] = Wanted(users, group, online, fill, shows)[ch]
      BY DEF IInv, ChannelsInv, ChannelsHoldWhoIsWanted
    <2>2. wg[ch] \ {u} = Wanted(users, group, online, fill, shows)[ch]
      BY <1>1, <1>2, <1>3 DEF Wanted, OtherTypes
    <2>3. members'[ch] = (members[ch] \ {u}) \cup ({u} \cap wg[ch])
      BY <1>1, <1>11 DEF Becomes
    <2>4. u \notin members[ch]
      BY <2>1, <1>1, <1>3 DEF Wanted
    <2>. QED  BY <2>1, <2>2, <2>3, <2>4
  <1>16. LinesInv'
    <2>1. handle[u] = None /\ typed[u] = {}
      BY <1>1, <1>2, ConstantsAssumption DEF Known, IInv, LinesInv, LinesReachTheAddressed, OtherTypes
    <2>. QED  BY <1>1, <1>2, <2>1 DEF IInv, LinesInv, LinesReachTheAddressed, OtherTypes
  <1>. QED  BY <1>12, <1>13, <1>14, <1>15, <1>16 DEF IInv

LEMMA Basics ==
    ASSUME IInv
    PROVE  /\ OtherTypes /\ Known /\ ChannelsInv /\ LinesInv /\ NamesInv
           /\ Good(Now, users) /\ NamesType(Now, users) /\ Leads(Now, users) /\ Right(Now)
           /\ users \in SUBSET Users /\ online \in SUBSET Users /\ joined \in SUBSET Channels
           /\ members \in [Channels -> SUBSET users]
           /\ Now.nick = nick /\ Now.hash = hash /\ Now.members = members /\ Now.view = view
  <1>1. OtherTypes /\ Known /\ ChannelsInv /\ LinesInv /\ Good(Now, users) /\ NamesInv
    BY DEF IInv, NamesInv
  <1>2. NamesType(Now, users) /\ Leads(Now, users) /\ Right(Now)
    BY <1>1 DEF Good
  <1>3. Now.nick = nick /\ Now.hash = hash /\ Now.members = members /\ Now.view = view
    BY DEF Now
  <1>4. members \in [Channels -> SUBSET users]
    BY <1>2, <1>3 DEF NamesType
  <1>. QED  BY <1>1, <1>2, <1>3, <1>4 DEF OtherTypes

LEMMA AddBuddyIInv ==
    ASSUME IInv, NEW u \in Users, NEW gr \in Groups \cup {None}, NEW g \in Generated, AddBuddy(u, gr, g)
    PROVE  IInv'
  <1>. DEFINE t == Regroup(Now, u, handle[u], users, group', g)
              wg == Wanted(users, group', online, fill, shows)
  <1>1. /\ u \in users /\ group' = [group EXCEPT ![u] = gr] /\ Becomes(t)
        /\ UNCHANGED <<users, handle, online, saved, settings, typed, target, unfilled>>
    BY DEF AddBuddy
  <1>2. /\ Good(t, users)
        /\ t.members = [ch \in Channels |->
               IF ch \in joined
               THEN (Now.members[ch] \ {u}) \cup ({u} \cap Wanted(users, group', online, fill, shows)[ch])
               ELSE Now.members[ch]]
    <2>1. Good(Now, users) /\ users \in SUBSET Users /\ joined \in SUBSET Channels
      BY Basics
    <2>. DEFINE h == handle[u]
                gs == group'
                s == Now
    <2>. HIDE DEF h, gs, s
    <2>2. LET r == Regroup(s, u, h, users, gs, g)
          IN  /\ Good(r, users)
              /\ r.members = [ch \in Channels |->
                     IF ch \in joined
                     THEN (s.members[ch] \ {u}) \cup ({u} \cap Wanted(users, gs, online, fill, shows)[ch])
                     ELSE s.members[ch]]
      BY <1>1, <2>1, RegroupKeeps DEF s
    <2>. QED  BY <2>2 DEF h, gs, s
  <1>. HIDE DEF t
  <1>3. OtherTypes'
    BY <1>1, Basics DEF OtherTypes, settings
  <1>4. NamesInv'
    BY <1>1, <1>2, BecomesGood DEF settings
  <1>5. Known' /\ LinesInv'
    BY <1>1, Basics DEF Known, LinesInv, LinesReachTheAddressed
  <1>6. ChannelsInv'
    <2>. SUFFICES ASSUME NEW ch \in joined \ unfilled
                  PROVE  members'[ch] = wg[ch]
      BY <1>1 DEF ChannelsInv, ChannelsHoldWhoIsWanted, settings
    <2>1. members[ch] = Wanted(users, group, online, fill, shows)[ch]
      BY Basics DEF ChannelsInv, ChannelsHoldWhoIsWanted
    <2>2. wg[ch] \ {u} = Wanted(users, group, online, fill, shows)[ch] \ {u}
      BY <1>1, Basics DEF Wanted, OtherTypes
    <2>3. members'[ch] = (members[ch] \ {u}) \cup ({u} \cap wg[ch])
      BY <1>1, <1>2, Basics DEF Becomes
    <2>. QED  BY <2>1, <2>2, <2>3
  <1>. QED  BY <1>3, <1>4, <1>5, <1>6 DEF IInv

LEMMA StatusIInv ==
    ASSUME IInv, NEW u \in Users, NEW on \in BOOLEAN, NEW quits \in BOOLEAN, Status(u, on, quits)
    PROVE  IInv'
  <1>. DEFINE s == IF ~on /\ quits THEN Quit(Now, {u}) ELSE Now
              w == Wanted(users, group, online', fill, shows)
              t == Update(s, joined, {u}, w)
              xs == {u}
  <1>1. /\ u \in users /\ online' = (IF on THEN online \cup {u} ELSE online \ {u}) /\ Becomes(t)
        /\ UNCHANGED <<users, handle, group, saved, settings, typed, target, unfilled>>
    BY DEF Status
  <1>2. xs \in SUBSET users
    BY <1>1
  <1>. HIDE DEF xs
  <1>3. LET q == Quit(Now, xs)
        IN  /\ Good(q, users) /\ q.nick = Now.nick /\ q.hash = Now.hash
            /\ q.members = [ch \in Channels |-> Now.members[ch] \ xs]
    BY <1>2, Basics, QuitKeeps
  <1>4. Good(s, users) /\ \A ch \in Channels : s.members[ch] \ xs = members[ch] \ xs
    <2>1. CASE ~on /\ quits
      BY <2>1, <1>3, Basics DEF xs
    <2>2. CASE ~ (~on /\ quits)
      BY <2>2, Basics
    <2>. QED  BY <2>1, <2>2
  <1>5. w \in [Channels -> SUBSET users]
    BY WantedType
  <1>6. LET a == Update(s, joined, xs, w)
        IN  /\ Good(a, users)
            /\ a.members = [ch \in Channels |-> IF ch \in joined THEN (s.members[ch] \ xs) \cup (xs \cap w[ch])
                                                                 ELSE s.members[ch]]
    <2>. HIDE DEF s, w, t
    <2>. QED  BY <1>2, <1>4, <1>5, Basics, UpdateKeeps
  <1>7. Good(t, users) /\ \A ch \in joined : t.members[ch] = (members[ch] \ {u}) \cup ({u} \cap w[ch])
    <2>. HIDE DEF s, w
    <2>. QED  BY <1>4, <1>6, Basics DEF xs
  <1>. HIDE DEF t, s
  <1>8. OtherTypes'
    BY <1>1, Basics DEF OtherTypes, settings
  <1>9. NamesInv'
    BY <1>1, <1>7, BecomesGood DEF settings
  <1>10. Known' /\ LinesInv'
    BY <1>1, Basics DEF Known, LinesInv, LinesReachTheAddressed
  <1>11. ChannelsInv'
    <2>. SUFFICES ASSUME NEW ch \in joined \ unfilled
                  PROVE  members'[ch] = w[ch]
      BY <1>1 DEF ChannelsInv, ChannelsHoldWhoIsWanted, settings
    <2>1. members[ch] = Wanted(users, group, online, fill, shows)[ch]
      BY Basics DEF ChannelsInv, ChannelsHoldWhoIsWanted
    <2>2. w[ch] \ {u} = Wanted(users, group, online, fill, shows)[ch] \ {u}
      BY <1>1, Basics DEF Wanted
    <2>3. members'[ch] = (members[ch] \ {u}) \cup ({u} \cap w[ch])
      BY <1>1, <1>7 DEF Becomes
    <2>. QED  BY <2>1, <2>2, <2>3
  <1>. QED  BY <1>8, <1>9, <1>10, <1>11 DEF IInv

\* What is left to show when only the names of contacts change
LEMMA RenamedIInv ==
    ASSUME IInv, NEW t, Becomes(t), Good(t, users), t.members = members,
           saved' \in [Handles -> Given \cup {None}],
           UNCHANGED <<users, handle, group, online, settings, typed, target, unfilled>>
    PROVE  IInv'
  <1>1. OtherTypes'
    BY Basics DEF OtherTypes, settings
  <1>2. NamesInv'
    BY BecomesGood DEF settings
  <1>3. Known' /\ LinesInv'
    BY Basics DEF Known, LinesInv, LinesReachTheAddressed
  <1>4. ChannelsInv'
    <2>1. members' = members
      BY DEF Becomes
    <2>. QED  BY <2>1, Basics DEF ChannelsInv, ChannelsHoldWhoIsWanted, Wanted, settings
  <1>. QED  BY <1>1, <1>2, <1>3, <1>4 DEF IInv

LEMMA NickHintIInv ==
    ASSUME IInv, NEW u \in Users, NEW g \in Generated, NickHint(u, g)
    PROVE  IInv'
  <1>. DEFINE t == NickUpdate(Now, u, handle[u], g)
  <1>1. /\ u \in users /\ Becomes(t)
        /\ UNCHANGED <<users, handle, group, online, saved, settings, typed, target, unfilled>>
    BY DEF NickHint
  <1>2. Good(t, users) /\ t.members = members
    BY <1>1, Basics, NickUpdateKeeps
  <1>. HIDE DEF t
  <1>3. saved' \in [Handles -> Given \cup {None}]
    BY <1>1, Basics DEF OtherTypes
  <1>. QED  BY <1>1, <1>2, <1>3, RenamedIInv

\* bee_user_free(), from any command
LEMMA FreeIInv ==
    ASSUME IInv, NEW xs \in SUBSET users, Free(xs), saved' \in [Handles -> Given \cup {None}],
           UNCHANGED <<settings, target, unfilled>>
    PROVE  IInv'
  <1>. DEFINE t == Forget(Now, xs)
  <1>1. /\ users' = users \ xs /\ online' = online \ xs
        /\ handle' = [u \in Users |-> IF u \in xs THEN None ELSE handle[u]]
        /\ group' = [u \in Users |-> IF u \in xs THEN None ELSE group[u]]
        /\ Becomes(t)
        /\ typed' = [u \in Users |-> IF u \in xs THEN {} ELSE typed[u]]
    BY DEF Free
  <1>2. Good(t, users \ xs) /\ t.members = [ch \in Channels |-> Now.members[ch] \ xs]
    BY Basics, ForgetKeeps
  <1>. HIDE DEF t
  <1>3. OtherTypes'
    BY <1>1, Basics DEF OtherTypes, settings
  <1>4. NamesInv'
    BY <1>1, <1>2, BecomesGood DEF settings
  <1>5. Known' /\ LinesInv'
    BY <1>1, Basics DEF Known, LinesInv, LinesReachTheAddressed, OtherTypes
  <1>6. ChannelsInv'
    <2>. SUFFICES ASSUME NEW ch \in joined \ unfilled
                  PROVE  members'[ch] = Wanted(users', group', online', fill, shows)[ch]
      BY DEF ChannelsInv, ChannelsHoldWhoIsWanted, settings
    <2>1. members[ch] = Wanted(users, group, online, fill, shows)[ch]
      BY Basics DEF ChannelsInv, ChannelsHoldWhoIsWanted
    <2>2. members'[ch] = members[ch] \ xs
      BY <1>1, <1>2, Basics DEF Becomes
    <2>3. Wanted(users', group', online', fill, shows)[ch] = Wanted(users, group, online, fill, shows)[ch] \ xs
      BY <1>1, Basics DEF Wanted
    <2>. QED  BY <2>1, <2>2, <2>3
  <1>. QED  BY <1>3, <1>4, <1>5, <1>6 DEF IInv

LEMMA FreesIInv ==
    ASSUME IInv, \/ \E u \in Users : RemoveBuddy(u) \/ Remove(u)
                 \/ Logout
    PROVE  IInv'
  <1>1. saved \in [Handles -> Given \cup {None}] /\ handle \in [Users -> Handles \cup {None}]
    BY Basics DEF OtherTypes
  <1>2. ASSUME NEW u \in Users, RemoveBuddy(u)  PROVE IInv'
    <2>1. {u} \in SUBSET users /\ Free({u}) /\ saved' = saved /\ UNCHANGED <<settings, target, unfilled>>
      BY <1>2 DEF RemoveBuddy
    <2>. QED  BY <1>1, <2>1, FreeIInv
  <1>3. ASSUME NEW u \in Users, Remove(u)  PROVE IInv'
    <2>1. /\ {u} \in SUBSET users /\ (Free({u}) \/ Free(users))
          /\ saved' \in {saved, NickDel(handle[u])} /\ UNCHANGED <<settings, target, unfilled>>
      BY <1>3 DEF Remove
    <2>2. saved' \in [Handles -> Given \cup {None}]
      BY <1>1, <2>1 DEF NickDel
    <2>. QED  BY <2>1, <2>2, FreeIInv
  <1>4. CASE Logout
    <2>1. Free(users) /\ saved' = saved /\ UNCHANGED <<settings, target, unfilled>>
      BY <1>4 DEF Logout
    <2>. QED  BY <1>1, <2>1, FreeIInv
  <1>. QED  BY <1>2, <1>3, <1>4

-----------------------------------------------------------------------------
(* Root commands and the client *)

LEMMA AddNickIInv ==
    ASSUME IInv, NEW h \in Handles, NEW n \in Given, AddNick(h, n)
    PROVE  IInv'
  <1>1. saved' = [saved EXCEPT ![h] = n] /\ UNCHANGED <<users, handle, group, online, names, settings, typed, target, unfilled>>
    BY DEF AddNick
  <1>2. Becomes(Now) /\ Good(Now, users) /\ Now.members = members
    BY <1>1, Basics DEF Becomes, names
  <1>3. saved' \in [Handles -> Given \cup {None}]
    BY <1>1, Basics DEF OtherTypes
  <1>. QED  BY <1>1, <1>2, <1>3, RenamedIInv

LEMMA RenameIInv ==
    ASSUME IInv, NEW u \in Users, NEW n \in Given, Rename(u, n)
    PROVE  IInv'
  <1>. DEFINE t == SetNick(Now, u, n)
  <1>1. /\ u \in users /\ hash[n] \in {None, u} /\ Becomes(t) /\ saved' = [saved EXCEPT ![handle[u]] = n]
        /\ UNCHANGED <<users, handle, group, online, settings, typed, target, unfilled>>
    BY DEF Rename
  <1>2. n \in Nicks /\ Now.hash[n] \in {None, u}
    BY <1>1, Basics, NicksStart DEF Starts
  <1>3. Good(t, users) /\ t.members = members
    <2>1. u \in users \cup {Me} /\ users \in SUBSET Users /\ Good(Now, users) /\ Now.members = members
      BY <1>1, Basics
    <2>. QED  BY <1>2, <2>1, SetNickKeeps
  <1>. HIDE DEF t
  <1>4. saved' \in [Handles -> Given \cup {None}]
    BY <1>1, Basics DEF OtherTypes
  <1>. QED  BY <1>1, <1>3, <1>4, RenamedIInv

LEMMA RenameDelIInv ==
    ASSUME IInv, NEW u \in Users, NEW g \in Generated, RenameDel(u, g)
    PROVE  IInv'
  <1>. DEFINE new == FirstFree(Now, u, g)
              t == IF saved'[handle[u]] # None \/ new = nick[u] THEN Now ELSE SetNick(Now, u, new)
  <1>1. /\ u \in users /\ Becomes(t) /\ saved' = NickDel(handle[u])
        /\ UNCHANGED <<users, handle, group, online, settings, typed, target, unfilled>>
    BY DEF RenameDel
  <1>2. g \in Starts
    BY NicksStart
  <1>3. new \in Nicks /\ Now.hash[new] \in {None, u}
    BY <1>2, Basics, FirstFreeIs
  <1>. HIDE DEF new
  <1>4. Good(SetNick(Now, u, new), users) /\ SetNick(Now, u, new).members = Now.members
    BY <1>1, <1>3, Basics, SetNickKeeps
  <1>5. Good(t, users) /\ t.members = members
    BY <1>4, Basics
  <1>. HIDE DEF t
  <1>6. saved' \in [Handles -> Given \cup {None}]
    BY <1>1, Basics DEF OtherTypes, NickDel
  <1>. QED  BY <1>1, <1>5, <1>6, RenamedIInv

LEMMA NickIInv ==
    ASSUME IInv, NEW n \in Given \cup {0}, Nick(n)
    PROVE  IInv'
  <1>. DEFINE t == SetNick(Now, Me, n)
  <1>1. /\ hash[n] = None /\ Becomes(t)
        /\ UNCHANGED <<users, handle, group, online, saved, settings, typed, target, unfilled>>
    BY DEF Nick
  <1>2. n \in Nicks /\ Now.hash[n] \in {None, Me}
    BY <1>1, Basics, NicksStart, ConstantsAssumption DEF Starts, Nicks
  <1>3. Good(t, users) /\ t.members = members
    BY <1>2, Basics, SetNickKeeps
  <1>. HIDE DEF t
  <1>4. saved' \in [Handles -> Given \cup {None}]
    BY <1>1, Basics DEF OtherTypes
  <1>. QED  BY <1>1, <1>3, <1>4, RenamedIInv

\* bee_irc_channel_update() of one channel for all contacts
LEMMA UpdateAll ==
    ASSUME IInv, NEW ch \in Channels, NEW fills, NEW offline
    PROVE  LET w == Wanted(users, group, online, fills, offline)
               t == Update(Now, {ch}, users, w)
           IN  /\ Good(t, users)
               /\ t.members = [members EXCEPT ![ch] = w[ch]]
  <1>. DEFINE w == Wanted(users, group, online, fills, offline)
              chs == {ch}
              all == users
              t == Update(Now, chs, all, w)
  <1>1. w \in [Channels -> SUBSET users] /\ chs \in SUBSET Channels /\ all \in SUBSET users
    BY WantedType
  <1>. HIDE DEF w, chs, all
  <1>2. LET a == Update(Now, chs, all, w)
        IN  /\ Good(a, users)
            /\ a.members = [c \in Channels |-> IF c \in chs THEN (Now.members[c] \ all) \cup (all \cap w[c])
                                                              ELSE Now.members[c]]
    BY <1>1, Basics, UpdateKeeps
  <1>. HIDE DEF t
  <1>3. t.members = [c \in Channels |-> IF c \in chs THEN (members[c] \ all) \cup (all \cap w[c]) ELSE members[c]]
    BY <1>2, Basics DEF t
  <1>4. (members[ch] \ all) \cup (all \cap w[ch]) = w[ch]
    BY <1>1, Basics DEF all
  <1>5. t.members = [members EXCEPT ![ch] = w[ch]]
    BY <1>3, <1>4, Basics DEF chs
  <1>. QED  BY <1>2, <1>5 DEF t, w, chs, all

LEMMA SetFillByIInv ==
    ASSUME IInv, NEW ch \in Channels, NEW f \in Fills, SetFillBy(ch, f)
    PROVE  IInv'
  <1>. DEFINE w == Wanted(users, group, online, fill', shows)
              t == Update(Now, {ch}, users, w)
  <1>1. /\ fill' = [fill EXCEPT ![ch] = f] /\ Becomes(t)
        /\ unfilled' = unfilled \ {ch}
        /\ UNCHANGED <<users, handle, group, online, saved, shows, joined, typed, target>>
    BY DEF SetFillBy
  <1>2. Good(t, users) /\ t.members = [members EXCEPT ![ch] = w[ch]]
    BY UpdateAll
  <1>. HIDE DEF t
  <1>3. OtherTypes'
    BY <1>1, Basics DEF OtherTypes
  <1>4. NamesInv'
    BY <1>1, <1>2, BecomesGood
  <1>5. Known' /\ LinesInv'
    BY <1>1, Basics DEF Known, LinesInv, LinesReachTheAddressed
  <1>6. ChannelsInv'
    <2>. SUFFICES ASSUME NEW c \in joined \ unfilled'
                  PROVE  members'[c] = w[c]
      BY <1>1 DEF ChannelsInv, ChannelsHoldWhoIsWanted
    <2>1. c # ch => members[c] = Wanted(users, group, online, fill, shows)[c]
      BY <1>1, Basics DEF ChannelsInv, ChannelsHoldWhoIsWanted
    <2>2. c # ch => w[c] = Wanted(users, group, online, fill, shows)[c]
      BY <1>1, Basics DEF Wanted, OtherTypes
    <2>. HIDE DEF w
    <2>. QED  BY <1>1, <1>2, <2>1, <2>2, Basics DEF Becomes
  <1>. QED  BY <1>3, <1>4, <1>5, <1>6 DEF IInv

LEMMA SetShowUsersIInv ==
    ASSUME IInv, NEW ch \in Channels, SetShowUsers(ch)
    PROVE  IInv'
  <1>. DEFINE w == Wanted(users, group, online, fill, shows')
              t == Update(Now, {ch}, users, w)
  <1>1. /\ shows' = (IF ch \in shows THEN shows \ {ch} ELSE shows \cup {ch}) /\ Becomes(t)
        /\ unfilled' = unfilled \ {ch}
        /\ UNCHANGED <<users, handle, group, online, saved, fill, joined, typed, target>>
    BY DEF SetShowUsers
  <1>2. Good(t, users) /\ t.members = [members EXCEPT ![ch] = w[ch]]
    BY UpdateAll
  <1>. HIDE DEF t
  <1>3. OtherTypes'
    BY <1>1, Basics DEF OtherTypes
  <1>4. NamesInv'
    BY <1>1, <1>2, BecomesGood
  <1>5. Known' /\ LinesInv'
    BY <1>1, Basics DEF Known, LinesInv, LinesReachTheAddressed
  <1>6. ChannelsInv'
    <2>. SUFFICES ASSUME NEW c \in joined \ unfilled'
                  PROVE  members'[c] = w[c]
      BY <1>1 DEF ChannelsInv, ChannelsHoldWhoIsWanted
    <2>1. c # ch => members[c] = Wanted(users, group, online, fill, shows)[c]
      BY <1>1, Basics DEF ChannelsInv, ChannelsHoldWhoIsWanted
    <2>2. c # ch => w[c] = Wanted(users, group, online, fill, shows)[c]
      BY <1>1, Basics DEF Wanted, OtherTypes
    <2>. HIDE DEF w
    <2>. QED  BY <1>1, <1>2, <2>1, <2>2, Basics DEF Becomes
  <1>. QED  BY <1>3, <1>4, <1>5, <1>6 DEF IInv

\* NAMES shows a client all of a channel that it joins.
LEMMA ShownGood ==
    ASSUME NEW ch \in Channels, NEW s, Good(s, users), Becomes(Shown(s, ch)), joined' = joined \cup {ch},
           users' = users, users \in SUBSET Users
    PROVE  NamesInv' /\ members' = s.members
  <1>1. NamesType(s, users) /\ Leads(s, users) /\ Right(s)
    BY DEF Good
  <1>2. /\ nick' = s.nick /\ hash' = s.hash /\ members' = s.members
        /\ view' = [s.view EXCEPT ![ch] = {s.nick[u] : u \in s.members[ch]}]
    BY <1>1 DEF Becomes, Shown, NamesType
  <1>3. Now' = [nick |-> nick', hash |-> hash', members |-> members', view |-> view']
    BY DEF Now
  <1>4. NamesType(Now, users)'
    <2>1. view' \in [Channels -> SUBSET Nicks]
      BY <1>1, <1>2 DEF NamesType
    <2>. QED  BY <1>1, <1>2, <1>3, <2>1 DEF NamesType
  <1>5. Leads(Now, users)'
    BY <1>1, <1>2, <1>3 DEF Leads
  <1>6. Right(Now)'
    <2>. SUFFICES ASSUME NEW c \in Channels
                  PROVE  view'[c] = IF c \in joined' THEN {nick'[u] : u \in members'[c]} ELSE {}
      BY <1>3 DEF Right
    <2>1. s.view[c] = IF c \in joined THEN {s.nick[u] : u \in s.members[c]} ELSE {}
      BY <1>1 DEF Right
    <2>2. s.view \in [Channels -> SUBSET Nicks]
      BY <1>1 DEF NamesType
    <2>3. CASE c = ch
      BY <2>2, <2>3, <1>2
    <2>4. CASE c # ch
      BY <2>1, <2>2, <2>4, <1>2
    <2>. QED  BY <2>3, <2>4
  <1>. QED  BY <1>2, <1>4, <1>5, <1>6 DEF NamesInv, Good

LEMMA JoinIInv ==
    ASSUME IInv, NEW ch \in Channels, NEW f \in Fills, Join(ch, f)
    PROVE  IInv'
  <1>. DEFINE w == Wanted(users, group, online, fill', shows)
              t == Update(Now, {ch}, users, w)
  <1>1. /\ ch \notin joined /\ f \in {fill[ch], f} /\ fill' = [fill EXCEPT ![ch] = f] /\ Becomes(Shown(t, ch))
        /\ joined' = joined \cup {ch}
        /\ unfilled' = unfilled \ {ch}
        /\ UNCHANGED <<users, handle, group, online, saved, shows, typed, target>>
    BY DEF Join
  <1>2. Good(t, users) /\ t.members = [members EXCEPT ![ch] = w[ch]]
    BY UpdateAll
  <1>. HIDE DEF t
  <1>3. OtherTypes'
    BY <1>1, Basics DEF OtherTypes
  <1>4. NamesInv' /\ members' = t.members
    BY <1>1, <1>2, Basics, ShownGood
  <1>5. Known' /\ LinesInv'
    BY <1>1, Basics DEF Known, LinesInv, LinesReachTheAddressed
  <1>6. ChannelsInv'
    <2>. SUFFICES ASSUME NEW c \in (joined \cup {ch}) \ unfilled'
                  PROVE  members'[c] = w[c]
      BY <1>1 DEF ChannelsInv, ChannelsHoldWhoIsWanted
    <2>1. c # ch => members[c] = Wanted(users, group, online, fill, shows)[c]
      BY <1>1, Basics DEF ChannelsInv, ChannelsHoldWhoIsWanted
    <2>2. c # ch => w[c] = Wanted(users, group, online, fill, shows)[c]
      BY <1>1, Basics DEF Wanted, OtherTypes
    <2>. HIDE DEF w
    <2>. QED  BY <1>1, <1>2, <1>4, <2>1, <2>2, Basics
  <1>. QED  BY <1>3, <1>4, <1>5, <1>6 DEF IInv

\* A channel nobody looks at any more, or that is gone, has no one in it.
LEMMA EmptiedGood ==
    ASSUME IInv, NEW ch \in Channels, members' = [members EXCEPT ![ch] = {}],
           view' = [view EXCEPT ![ch] = {}], joined' = joined \ {ch}, UNCHANGED <<users, nick, hash>>
    PROVE  NamesInv'
  <1>1. view \in [Channels -> SUBSET Nicks]
    BY Basics DEF NamesType
  <1>2. NamesType(Now, users)'
    BY <1>1, Basics DEF NamesType, Now
  <1>3. Leads(Now, users)'
    BY Basics DEF Leads, Now
  <1>4. Right(Now)'
    <2>. SUFFICES ASSUME NEW c \in Channels
                  PROVE  view'[c] = IF c \in joined' THEN {nick'[u] : u \in members'[c]} ELSE {}
      BY DEF Right, Now
    <2>1. view[c] = IF c \in joined THEN {nick[u] : u \in members[c]} ELSE {}
      BY Basics DEF Right
    <2>2. CASE c = ch
      BY <2>2, <1>1
    <2>3. CASE c # ch
      BY <2>1, <2>3, <1>1, Basics
    <2>. QED  BY <2>2, <2>3
  <1>. QED  BY <1>2, <1>3, <1>4 DEF NamesInv, Good

LEMMA PartIInv ==
    ASSUME IInv, NEW ch \in Channels, Part(ch)
    PROVE  IInv'
  <1>1. /\ joined' = joined \ {ch} /\ members' = [members EXCEPT ![ch] = {}] /\ view' = [view EXCEPT ![ch] = {}]
        /\ unfilled' = unfilled \ {ch}
        /\ UNCHANGED <<users, handle, group, online, nick, hash, saved, fill, shows, typed, target>>
    BY DEF Part
  <1>2. OtherTypes'
    BY <1>1, Basics DEF OtherTypes
  <1>3. NamesInv'
    BY <1>1, EmptiedGood
  <1>4. Known' /\ LinesInv'
    BY <1>1, Basics DEF Known, LinesInv, LinesReachTheAddressed
  <1>5. ChannelsInv'
    BY <1>1, Basics DEF ChannelsInv, ChannelsHoldWhoIsWanted, Wanted
  <1>. QED  BY <1>2, <1>3, <1>4, <1>5 DEF IInv

LEMMA AutoJoinIInv ==
    ASSUME IInv, NEW ch \in Channels, AutoJoin(ch)
    PROVE  IInv'
  <1>1. /\ Becomes(Shown(Now, ch)) /\ joined' = joined \cup {ch}
        /\ unfilled' = IF users = {} THEN unfilled ELSE unfilled \cup {ch}
        /\ UNCHANGED <<users, handle, group, online, saved, fill, shows, typed, target>>
    BY DEF AutoJoin
  <1>2. OtherTypes'
    BY <1>1, Basics DEF OtherTypes
  <1>3. NamesInv' /\ members' = members
    BY <1>1, Basics, ShownGood
  <1>4. Known' /\ LinesInv'
    BY <1>1, Basics DEF Known, LinesInv, LinesReachTheAddressed
  <1>5. ChannelsInv'
    <2>. SUFFICES ASSUME NEW c \in (joined \cup {ch}) \ unfilled'
                  PROVE  members'[c] = Wanted(users, group, online, fill, shows)[c]
      BY <1>1 DEF ChannelsInv, ChannelsHoldWhoIsWanted
    <2>1. CASE users = {}
      <3>1. members[c] = {} /\ Wanted(users, group, online, fill, shows)[c] = {}
        BY <2>1, Basics DEF Wanted
      <3>. QED  BY <3>1, <1>3
    <2>2. CASE users # {}
      <3>1. c \in joined \ unfilled
        BY <2>2, <1>1
      <3>. QED  BY <3>1, <1>3, Basics DEF ChannelsInv, ChannelsHoldWhoIsWanted
    <2>. QED  BY <2>1, <2>2
  <1>. QED  BY <1>2, <1>3, <1>4, <1>5 DEF IInv

LEMMA ChannelDelIInv ==
    ASSUME IInv, NEW ch \in Channels, ChannelDel(ch)
    PROVE  IInv'
  <1>1. /\ ch \notin joined /\ fill' = [fill EXCEPT ![ch] = None] /\ shows' = shows \ {ch}
        /\ members' = [members EXCEPT ![ch] = {}]
        /\ target' = [target EXCEPT ![ch] = None]
        /\ UNCHANGED <<users, handle, group, online, nick, hash, view, saved, joined, typed, unfilled>>
    BY DEF ChannelDel
  <1>2. OtherTypes'
    BY <1>1, Basics DEF OtherTypes
  <1>3. NamesInv'
    <2>1. view' = [view EXCEPT ![ch] = {}] /\ joined' = joined \ {ch}
      BY <1>1, Basics DEF Right, NamesType
    <2>. QED  BY <1>1, <2>1, EmptiedGood
  <1>4. Known'
    BY <1>1, Basics DEF Known, OtherTypes
  <1>5. LinesInv'
    BY <1>1, Basics DEF LinesInv, LinesReachTheAddressed
  <1>6. ChannelsInv'
    BY <1>1, Basics DEF ChannelsInv, ChannelsHoldWhoIsWanted, Wanted, OtherTypes
  <1>. QED  BY <1>2, <1>3, <1>4, <1>5, <1>6 DEF IInv

\* A step that only types or sends lines
LEMMA TypedIInv ==
    ASSUME IInv, UNCHANGED <<users, handle, group, online, names, saved, settings>>,
           typed' \in [Users -> SUBSET Handles], target' \in [Channels -> Users \cup {None}],
           unfilled' = unfilled, LinesInv'
    PROVE  IInv'
  <1>1. OtherTypes'
    BY Basics DEF OtherTypes, settings
  <1>2. NamesInv'
    BY Basics, NamesStay DEF settings
  <1>3. Known'
    BY Basics DEF Known
  <1>4. ChannelsInv'
    BY Basics DEF ChannelsInv, ChannelsHoldWhoIsWanted, Wanted, settings, names
  <1>. QED  BY <1>1, <1>2, <1>3, <1>4 DEF IInv

LEMMA PrivmsgIInv ==
    ASSUME IInv, NEW n \in Nicks, Privmsg(n)
    PROVE  IInv'
  <1>. DEFINE u == hash[n]
  <1>1. /\ u \in users /\ typed' = [typed EXCEPT ![u] = @ \cup {handle[u]}]
        /\ UNCHANGED <<users, handle, group, online, names, saved, settings, target, unfilled>>
    BY DEF Privmsg
  <1>. HIDE DEF u
  <1>2. typed' \in [Users -> SUBSET Handles]
    BY <1>1, Basics DEF OtherTypes, Known
  <1>3. LinesInv'
    BY <1>1, Basics DEF LinesInv, LinesReachTheAddressed, OtherTypes
  <1>4. target' \in [Channels -> Users \cup {None}]
    BY <1>1, Basics DEF OtherTypes, Known
  <1>. QED  BY <1>1, <1>2, <1>3, <1>4, TypedIInv

LEMMA AddressIInv ==
    ASSUME IInv, NEW ch \in Channels, NEW n \in Nicks, Address(ch, n)
    PROVE  IInv'
  <1>. DEFINE u == hash[n]
  <1>1. /\ \/ /\ u \in users /\ target' = [target EXCEPT ![ch] = u]
              /\ typed' = [typed EXCEPT ![u] = @ \cup {handle[u]}]
           \/ target' = [target EXCEPT ![ch] = None] /\ typed' = typed
        /\ UNCHANGED <<users, handle, group, online, names, saved, settings, unfilled>>
    BY DEF Address
  <1>. HIDE DEF u
  <1>2. u \in users => handle[u] \in Handles
    BY Basics DEF OtherTypes, Known
  <1>3. typed' \in [Users -> SUBSET Handles] /\ target' \in [Channels -> Users \cup {None}]
    BY <1>1, <1>2, Basics DEF OtherTypes
  <1>4. LinesInv'
    BY <1>1, Basics DEF LinesInv, LinesReachTheAddressed, OtherTypes
  <1>. QED  BY <1>1, <1>3, <1>4, TypedIInv

LEMMA LineIInv ==
    ASSUME IInv, NEW ch \in Channels, Line(ch)
    PROVE  IInv'
  <1>. DEFINE u == target[ch]
  <1>1. /\ u \in users /\ typed' = [typed EXCEPT ![u] = @ \cup {handle[u]}]
        /\ UNCHANGED <<users, handle, group, online, names, saved, settings, target, unfilled>>
    BY DEF Line
  <1>. HIDE DEF u
  <1>2. typed' \in [Users -> SUBSET Handles] /\ target' \in [Channels -> Users \cup {None}]
    BY <1>1, Basics DEF OtherTypes, Known
  <1>3. LinesInv'
    BY <1>1, Basics DEF LinesInv, LinesReachTheAddressed, OtherTypes
  <1>. QED  BY <1>1, <1>2, <1>3, TypedIInv

LEMMA PasteFiresIInv ==
    ASSUME IInv, NEW u \in Users, PasteFires(u)
    PROVE  IInv'
  <1>1. /\ typed' = [typed EXCEPT ![u] = {}]
        /\ UNCHANGED <<users, handle, group, online, names, saved, settings, target, unfilled>>
    BY DEF PasteFires
  <1>2. typed' \in [Users -> SUBSET Handles]
    BY <1>1, Basics DEF OtherTypes
  <1>3. LinesInv'
    BY <1>1, Basics DEF LinesInv, LinesReachTheAddressed, OtherTypes
  <1>4. target' \in [Channels -> Users \cup {None}]
    BY <1>1, Basics DEF OtherTypes, Known
  <1>. QED  BY <1>1, <1>2, <1>3, <1>4, TypedIInv

-----------------------------------------------------------------------------
LEMMA NextIInv == IInv /\ [Next]_vars => IInv'
  <1>. SUFFICES ASSUME IInv, [Next]_vars  PROVE IInv'
    OBVIOUS
  <1>1. ASSUME NEW u \in Users, NEW gr \in Groups \cup {None}, NEW n \in Generated,
               AddBuddy(u, gr, n) \/ \E h \in Handles : UserNew(u, h, gr, n)
        PROVE  IInv'
    BY <1>1, AddBuddyIInv, UserNewIInv
  <1>2. ASSUME NEW u \in Users, NEW on \in BOOLEAN, NEW quits \in BOOLEAN, Status(u, on, quits)  PROVE IInv'
    BY <1>2, StatusIInv
  <1>3. ASSUME NEW u \in Users, NEW n \in Generated, NickHint(u, n) \/ RenameDel(u, n)  PROVE IInv'
    BY <1>3, NickHintIInv, RenameDelIInv
  <1>4. ASSUME NEW u \in Users, RemoveBuddy(u) \/ Remove(u) \/ PasteFires(u)  PROVE IInv'
    BY <1>4, FreesIInv, PasteFiresIInv
  <1>5. ASSUME Logout  PROVE IInv'
    BY <1>5, FreesIInv
  <1>6. ASSUME NEW h \in Handles, NEW n \in Given, AddNick(h, n)  PROVE IInv'
    BY <1>6, AddNickIInv
  <1>7. ASSUME NEW u \in Users, NEW n \in Given, Rename(u, n)  PROVE IInv'
    BY <1>7, RenameIInv
  <1>8. ASSUME NEW n \in Given \cup {0}, Nick(n)  PROVE IInv'
    BY <1>8, NickIInv
  <1>9. ASSUME NEW ch \in Channels, NEW f \in Fills, Join(ch, f) \/ SetFillBy(ch, f)  PROVE IInv'
    BY <1>9, JoinIInv, SetFillByIInv
  <1>10. ASSUME NEW ch \in Channels,
                Part(ch) \/ AutoJoin(ch) \/ ChannelDel(ch) \/ SetShowUsers(ch) \/ Line(ch)
         PROVE  IInv'
    BY <1>10, PartIInv, AutoJoinIInv, ChannelDelIInv, SetShowUsersIInv, LineIInv
  <1>11. ASSUME NEW n \in Nicks, Privmsg(n)  PROVE IInv'
    BY <1>11, PrivmsgIInv
  <1>12. ASSUME NEW ch \in Channels, NEW n \in Nicks, Address(ch, n)  PROVE IInv'
    BY <1>12, AddressIInv
  <1>13. CASE UNCHANGED vars
    <2>1. UNCHANGED <<users, handle, group, online, names, saved, settings, typed, target, unfilled>>
      BY <1>13 DEF vars
    <2>2. LinesInv'
      BY <2>1, Basics DEF LinesInv, LinesReachTheAddressed
    <2>3. target' \in [Channels -> Users \cup {None}] /\ typed' \in [Users -> SUBSET Handles]
      BY <2>1, Basics DEF OtherTypes, Known
    <2>. QED  BY <2>1, <2>2, <2>3, TypedIInv
  <1>. QED
    BY <1>1, <1>2, <1>3, <1>4, <1>5, <1>6, <1>7, <1>8, <1>9, <1>10, <1>11, <1>12, <1>13 DEF Next

LEMMA InvariantIInv == Spec => []IInv
  BY InitIInv, NextIInv, PTL DEF Spec

-----------------------------------------------------------------------------
(* The theorems *)

\* Every pointer between contacts, nicks and channels is to something that exists,
\* and nick_dedupe() always finds a nick that no one else has.
THEOREM TypeCorrect == Spec => []TypeOK
  BY InvariantIInv, IInvImplies, PTL

\* Through any sequence of calls of irc_user_set_nick(), nick_dedupe() and
\* irc_user_free(), a nick leads to the one who has it.
THEOREM NicksAlwaysLead == Spec => []NicksLeadToTheirUsers
  BY InvariantIInv, IInvImplies, PTL

\* The JOIN, PART, QUIT, NICK and NAMES lines of irc_channel.c and irc_user.c add up
\* to what the channels hold.
THEOREM ViewStaysRight == Spec => []ViewIsRight
  BY InvariantIInv, IInvImplies, PTL

\* bee_irc_channel_update() leaves no joined channel behind what its settings
\* select; only irc_channel_auto_joins() beside contacts does.
THEOREM ChannelsStayFilled == Spec => []ChannelsHoldWhoIsWanted
  BY InvariantIInv, IInvImplies, PTL

\* A line in the paste buffer of an irc_user_t is for the contact that it was typed
\* for, when g_new0() returns an address that was freed as well.
THEOREM LinesAlwaysArrive == Spec => []LinesReachTheAddressed
  BY InvariantIInv, IInvImplies, PTL
=============================================================================
