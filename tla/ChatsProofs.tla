----------------------------- MODULE ChatsProofs -----------------------------
(***************************************************************************)
(* Proofs about Chats, for any sets of channels, chats, names, rooms and   *)
(* contacts, when nobody changes the type or the room of a channel that    *)
(* shows a chat.                                                           *)
(***************************************************************************)
EXTENDS Chats, TLAPS

\* A channel that exists has a name; one that does not has no users and no
\* room.
Allocated ==
    \A ch \in Channels :
        /\ ch \in channels => name[ch] \in AllNames
        /\ ch \notin channels => users[ch] = {} /\ room[ch] = None

\* The chat of a channel is of the channel's room, so that a channel which
\* shows a chat cannot join its room a second time; and all chats go with the
\* connection, so that a login finds no pointer to an old one.
Rooming ==
    /\ \A ch \in Channels : data[ch] # None => chatRoom[data[ch]] = room[ch]
    /\ ~online => groupchats = {}

\* ViewIsRight without its choice: names are unique, so there is none.
ViewInv ==
    \A n \in AllNames :
        /\ \A ch \in Named(n) : Joined(ch) => view[n] = users[ch]
        /\ (\A ch \in Named(n) : ~Joined(ch)) => view[n] = {}

IInv == TypeOK /\ Allocated /\ PointersAgree /\ Rooming /\ NamesAreUnique /\ ViewInv

-----------------------------------------------------------------------------

LEMMA InitIInv == Init => IInv
  BY ConstantsAssumption
     DEF Init, IInv, TypeOK, Allocated, PointersAgree, Rooming, NamesAreUnique, ViewInv,
         Named, Joined, Freeing, AllNames

\* Names, users and the client's view, which most steps do not touch together
\* with the pointers.
Lists == TypeOK /\ Allocated /\ NamesAreUnique /\ ViewInv

\* Leaving any channels keeps the lists of users and the view in step.
LEMMA LeaveKeeps ==
    ASSUME Lists, NEW chs \in SUBSET Channels, Leave(chs),
           UNCHANGED <<channels, name, temp, room>>
    PROVE  /\ users' \in [Channels -> SUBSET ({Me, Root} \cup Contacts)]
           /\ soon' \subseteq Freeing /\ left' \subseteq Channels
           /\ view' \in [AllNames -> SUBSET ({Me, Root} \cup Contacts)]
           /\ Allocated' /\ NamesAreUnique' /\ ViewInv'
  <1>. USE ConstantsAssumption DEF Lists, TypeOK, Joined
  <1>1. /\ users' \in [Channels -> SUBSET ({Me, Root} \cup Contacts)]
        /\ view' \in [AllNames -> SUBSET ({Me, Root} \cup Contacts)]
        /\ left' \subseteq Channels
    BY DEF Leave, Emptied, Parted, In
  <1>2. soon' \subseteq Freeing
    <2>1. \A ch \in In(chs) : name[ch] \in AllNames
      BY DEF In, Allocated
    <2>2. \A ch \in Channels, n \in AllNames : [ic |-> ch, name |-> n] \in Freeing
      BY DEF Freeing
    <2>3. Timers(chs) \subseteq Freeing
      <3>. SUFFICES ASSUME NEW d \in Timers(chs)  PROVE d \in Freeing
        OBVIOUS
      <3>1. PICK ch \in In(chs) \cap temp : d = [ic |-> ch, name |-> name[ch]]
        BY Zenon DEF Timers
      <3>. QED  BY <2>1, <2>2, <3>1 DEF In
    <2>. QED  BY <2>3 DEF Leave
  <1>3. \A ch \in Channels : Joined(ch) => ch \in channels
    BY DEF Allocated
  <1>4. \A ch \in Channels :
           /\ ch \in chs => ~Joined(ch)'
           /\ ~Joined(ch) => users'[ch] = users[ch]
           /\ ch \notin chs => users'[ch] = users[ch]
    BY DEF Leave, Emptied, In
  <1>5. Allocated' /\ NamesAreUnique'
    BY <1>3, <1>4 DEF Allocated, NamesAreUnique
  <1>6. ViewInv'
    <2>. SUFFICES ASSUME NEW n \in AllNames
                  PROVE  /\ \A ch \in Named(n) : Joined(ch)' => view'[n] = users'[ch]
                         /\ (\A ch \in Named(n) : ~Joined(ch)') => view'[n] = {}
      BY DEF ViewInv, Named
    <2>1. CASE \E ch \in In(chs) : name[ch] = n
      <3>1. view'[n] = {}
        BY <2>1 DEF Leave, Parted
      <3>2. \A ch \in Named(n) : ~Joined(ch)'
        BY <2>1, <1>3, <1>4 DEF In, Named, NamesAreUnique
      <3>. QED  BY <3>1, <3>2
    <2>2. CASE ~\E ch \in In(chs) : name[ch] = n
      <3>1. view'[n] = view[n]
        BY <2>2 DEF Leave, Parted
      <3>2. \A ch \in Named(n) : users'[ch] = users[ch]
        BY <2>2, <1>4 DEF Named, In
      <3>. QED  BY <3>1, <3>2 DEF ViewInv, Named
    <2>. QED  BY <2>1, <2>2
  <1>. QED  BY <1>1, <1>2, <1>5, <1>6

\* So does the user's own JOIN,
LEMMA EnterKeeps ==
    ASSUME Lists, NEW ch \in channels, ~Joined(ch), Enter(ch), UNCHANGED <<channels, name, room>>
    PROVE  /\ users' \in [Channels -> SUBSET ({Me, Root} \cup Contacts)]
           /\ left' \subseteq Channels
           /\ view' \in [AllNames -> SUBSET ({Me, Root} \cup Contacts)]
           /\ Allocated' /\ NamesAreUnique' /\ ViewInv'
  <1>. USE ConstantsAssumption DEF Lists, TypeOK, Joined, Enter
  <1>1. name[ch] \in AllNames /\ ch \in Channels
    BY DEF Allocated
  <1>2. /\ users' \in [Channels -> SUBSET ({Me, Root} \cup Contacts)]
        /\ left' \subseteq Channels
        /\ view' \in [AllNames -> SUBSET ({Me, Root} \cup Contacts)]
    BY <1>1
  <1>3. Allocated' /\ NamesAreUnique'
    BY <1>1 DEF Allocated, NamesAreUnique
  <1>4. ViewInv'
    <2>1. \A x \in channels : name[x] = name[ch] => x = ch
      BY DEF NamesAreUnique
    <2>2. \A x \in Channels \ {ch} : users'[x] = users[x]
      OBVIOUS
    <2>3. users'[ch] = users[ch] \cup {Me} /\ view'[name[ch]] = users'[ch]
      BY <1>1
    <2>4. \A n \in AllNames : n # name[ch] => view'[n] = view[n]
      OBVIOUS
    <2>. SUFFICES ASSUME NEW n \in AllNames
                  PROVE  /\ \A x \in Named(n) : Joined(x)' => view'[n] = users'[x]
                         /\ (\A x \in Named(n) : ~Joined(x)') => view'[n] = {}
      BY DEF ViewInv, Named
    <2>5. CASE n = name[ch]
      BY <2>1, <2>3, <2>5 DEF Named
    <2>6. CASE n # name[ch]
      <3>1. \A x \in Named(n) : x \in Channels \ {ch}
        BY <2>6 DEF Named
      <3>. QED  BY <2>2, <2>4, <2>6, <3>1 DEF ViewInv
    <2>. QED  BY <2>5, <2>6
  <1>. QED  BY <1>2, <1>3, <1>4

\* a new channel under a name that is free,
LEMMA NewKeeps ==
    ASSUME Lists, NEW ch \in Channels, NEW n \in AllNames, NEW r \in Rooms \cup {None},
           NEW temporary \in BOOLEAN, NEW members \in {{Root}, {Root, Me}}, Named(n) = {},
           New(ch, n, r, temporary, members),
           view' = IF Me \in members THEN [view EXCEPT ![n] = members] ELSE view
    PROVE  /\ channels' \subseteq Channels /\ temp' \subseteq Channels
           /\ name' \in [Channels -> AllNames \cup {None}]
           /\ users' \in [Channels -> SUBSET ({Me, Root} \cup Contacts)]
           /\ room' \in [Channels -> Rooms \cup {None}]
           /\ view' \in [AllNames -> SUBSET ({Me, Root} \cup Contacts)]
           /\ Allocated' /\ NamesAreUnique' /\ ViewInv'
  <1>1. /\ channels' \subseteq Channels /\ temp' \subseteq Channels
        /\ name' \in [Channels -> AllNames \cup {None}]
        /\ users' \in [Channels -> SUBSET ({Me, Root} \cup Contacts)]
        /\ room' \in [Channels -> Rooms \cup {None}]
        /\ view' \in [AllNames -> SUBSET ({Me, Root} \cup Contacts)]
    BY DEF Lists, TypeOK, New
  <1>2. /\ name'[ch] = n /\ users'[ch] = members
        /\ \A x \in Channels \ {ch} : name'[x] = name[x] /\ users'[x] = users[x] /\ room'[x] = room[x]
    BY DEF Lists, TypeOK, New
  <1>3. \A x \in channels : name[x] # n
    BY DEF Named
  <1>4. /\ channels' = channels \cup {ch} /\ ch \notin channels /\ channels \subseteq Channels
        /\ Allocated /\ NamesAreUnique /\ ViewInv
    BY DEF New, Lists, TypeOK
  <1>5. \A k \in AllNames : /\ k # n => view'[k] = view[k]
                            /\ k = n /\ Me \in members => view'[k] = members
                            /\ Me \notin members => view'[k] = view[k]
    BY DEF Lists, TypeOK
  <1>6. Allocated'
    BY <1>2, <1>4 DEF Allocated
  <1>7. NamesAreUnique'
    BY <1>2, <1>3, <1>4 DEF NamesAreUnique
  <1>8. ViewInv'
    <2>. SUFFICES ASSUME NEW k \in AllNames
                  PROVE  /\ \A x \in Named(k)' : Joined(x)' => view'[k] = users'[x]
                         /\ (\A x \in Named(k)' : ~Joined(x)') => view'[k] = {}
      BY DEF ViewInv
    <2>1. CASE k = n
      <3>1. Named(n)' = {ch}
        BY <1>2, <1>3, <1>4 DEF Named
      <3>2. view[n] = {}
        BY <1>4 DEF ViewInv
      <3>. QED  BY <1>2, <1>5, <2>1, <3>1, <3>2 DEF Joined
    <2>2. CASE k # n
      <3>1. Named(k)' = Named(k) /\ view'[k] = view[k]
        BY <1>2, <1>4, <1>5, <2>2 DEF Named
      <3>2. \A x \in Named(k) : users'[x] = users[x]
        BY <1>2, <1>4 DEF Named
      <3>. QED  BY <1>4, <3>1, <3>2 DEF ViewInv, Joined
    <2>. QED  BY <2>1, <2>2
  <1>. QED  BY <1>1, <1>6, <1>7, <1>8

\* and the end of a channel the user is not in.
LEMMA FreeKeeps ==
    ASSUME IInv, NEW ch \in channels, ~Joined(ch), Free(ch), view' = view,
           UNCHANGED <<groupchats, inRoom, chatRoom, online, fault>>, soon' \subseteq Freeing
    PROVE  IInv'
  <1>1. TypeOK'
    BY ConstantsAssumption DEF FreeLink, IInv, TypeOK, Free
  <1>2. Allocated' /\ NamesAreUnique'
    BY DEF Allocated, NamesAreUnique, IInv, TypeOK, Free
  <1>3. /\ data'[ch] = None
        /\ \A x \in Channels \ {ch} : /\ data'[x] = data[x] /\ room'[x] = room[x]
                                       /\ users'[x] = users[x] /\ name'[x] = name[x]
        /\ data[ch] # None => ui_data'[data[ch]] = None
        /\ \A c \in Groupchats : c # data[ch] => ui_data'[c] = ui_data[c]
    BY DEF FreeLink, PointersAgree, IInv, TypeOK, Free
  <1>4. /\ channels' = channels \ {ch} /\ groupchats' = groupchats /\ channels \subseteq Channels
        /\ PointersAgree /\ Rooming /\ ViewInv /\ None \notin Groupchats \cup Channels
    BY ConstantsAssumption DEF IInv, TypeOK, Free
  <1>5. data \in [Channels -> Groupchats \cup {None}] /\ ui_data \in [Groupchats -> Channels \cup {None}]
    BY DEF IInv, TypeOK
  <1>6. PointersAgree'
    BY <1>3, <1>4, <1>5 DEF PointersAgree
  <1>7. Rooming'
    BY <1>3, <1>4 DEF Rooming
  <1>8. ViewInv'
    <2>. SUFFICES ASSUME NEW n \in AllNames
                  PROVE  /\ \A x \in Named(n)' : Joined(x)' => view'[n] = users'[x]
                         /\ (\A x \in Named(n)' : ~Joined(x)') => view'[n] = {}
      BY DEF ViewInv
    <2>1. Named(n)' = Named(n) \ {ch}
      BY <1>3, <1>4 DEF Named
    <2>2. \A x \in Named(n) \ {ch} : users'[x] = users[x]
      BY <1>3, <1>4 DEF Named
    <2>3. /\ \A x \in Named(n) : Joined(x) => view[n] = users[x]
          /\ (\A x \in Named(n) : ~Joined(x)) => view[n] = {}
      BY <1>4 DEF ViewInv
    <2>. QED  BY <2>1, <2>2, <2>3 DEF Joined
  <1>. QED  BY <1>1, <1>2, <1>6, <1>7, <1>8 DEF IInv

\* The types of what ties channels and chats together.
LinkTypes ==
    /\ data \in [Channels -> Groupchats \cup {None}]
    /\ groupchats \subseteq Groupchats /\ inRoom \subseteq Groupchats
    /\ ui_data \in [Groupchats -> Channels \cup {None}]
    /\ chatRoom \in [Groupchats -> Rooms \cup {None}]
    /\ online \in BOOLEAN

\* A step that leaves the pointers alone, and the channels that have one.
LEMMA PointersKept ==
    ASSUME IInv, UNCHANGED <<data, groupchats, ui_data, chatRoom, online>>,
           \A ch \in Channels : ch \in channels /\ data[ch] # None =>
               ch \in channels' /\ room'[ch] = room[ch]
    PROVE  PointersAgree' /\ Rooming'
  <1>1. PointersAgree /\ None \notin Groupchats /\ channels \subseteq Channels
    BY ConstantsAssumption DEF IInv, TypeOK
  <1>2. PointersAgree'
    BY <1>1 DEF PointersAgree
  <1>3. Rooming'
    BY DEF IInv, PointersAgree, Rooming
  <1>. QED  BY <1>2, <1>3

\* A new chat for a channel that has none.
LEMMA AttachKeeps ==
    ASSUME IInv, NEW ch \in Channels, NEW c \in Groupchats, NEW r \in Rooms \cup {None},
           Attach(ch, c, r), data[ch] = None, online, ch \in channels', room'[ch] = r,
           \A x \in channels \ {ch} : data[x] # None => x \in channels' /\ room'[x] = room[x]
    PROVE  LinkTypes' /\ PointersAgree' /\ Rooming'
  <1>1. /\ LinkTypes /\ PointersAgree /\ Rooming
        /\ None \notin Groupchats \cup Channels
    BY ConstantsAssumption DEF IInv, TypeOK, LinkTypes
  <1>2. LinkTypes'
    BY <1>1 DEF LinkTypes, Attach
  <1>3. /\ data'[ch] = c /\ ui_data'[c] = ch /\ chatRoom'[c] = r
        /\ c \notin groupchats /\ groupchats' = groupchats \cup {c} /\ online' = online
        /\ \A x \in Channels \ {ch} : data'[x] = data[x]
        /\ \A d \in Groupchats \ {c} : ui_data'[d] = ui_data[d] /\ chatRoom'[d] = chatRoom[d]
    BY <1>1 DEF LinkTypes, Attach
  <1>4. \A x \in Channels : data[x] # None => x \in channels /\ data[x] \in Groupchats \ {c}
    BY <1>1, <1>3 DEF LinkTypes, PointersAgree
  <1>5. \A d \in Groupchats : ui_data[d] # None => ui_data[d] \in Channels \ {ch}
    BY <1>1 DEF LinkTypes, PointersAgree
  <1>6. PointersAgree'
    BY <1>1, <1>3, <1>4, <1>5 DEF PointersAgree
  <1>7. Rooming'
    BY <1>1, <1>3, <1>4 DEF Rooming
  <1>. QED  BY <1>2, <1>6, <1>7

LEMMA JoinIInv ==
    ASSUME IInv, UNCHANGED fault, NEW ch \in Channels,
           \/ \E n \in AllNames : JoinNew(ch, n)
           \/ JoinGroupchat(ch)
           \/ \E c \in Groupchats : JoinRoom(ch, c) \/ InviteInto(ch, c)
    PROVE  IInv'
  <1>. Lists /\ \A x \in Channels \ channels : data[x] = None
    BY DEF IInv, Lists, PointersAgree
  <1>1. ASSUME NEW n \in AllNames, JoinNew(ch, n)  PROVE IInv'
    <2>1. /\ channels' \subseteq Channels /\ temp' \subseteq Channels
          /\ name' \in [Channels -> AllNames \cup {None}]
          /\ users' \in [Channels -> SUBSET ({Me, Root} \cup Contacts)]
          /\ room' \in [Channels -> Rooms \cup {None}]
          /\ view' \in [AllNames -> SUBSET ({Me, Root} \cup Contacts)]
          /\ Allocated' /\ NamesAreUnique' /\ ViewInv'
      BY <1>1, NewKeeps DEF JoinNew
    <2>2. PointersAgree' /\ Rooming'
      BY <1>1, PointersKept DEF JoinNew, New, chats, IInv, TypeOK
    <2>. QED  BY <1>1, <2>1, <2>2 DEF IInv, TypeOK, JoinNew, chats
  <1>2. CASE JoinGroupchat(ch)
    <2>1. /\ users' \in [Channels -> SUBSET ({Me, Root} \cup Contacts)]
          /\ left' \subseteq Channels
          /\ view' \in [AllNames -> SUBSET ({Me, Root} \cup Contacts)]
          /\ Allocated' /\ NamesAreUnique' /\ ViewInv'
      BY <1>2, EnterKeeps DEF JoinGroupchat
    <2>2. PointersAgree' /\ Rooming'
      BY <1>2, PointersKept DEF JoinGroupchat, chats
    <2>. QED  BY <1>2, <2>1, <2>2 DEF IInv, TypeOK, JoinGroupchat, chats
  <1>3. ASSUME NEW c \in Groupchats, JoinRoom(ch, c) \/ InviteInto(ch, c)  PROVE IInv'
    <2>1. data[ch] = None
      BY <1>3 DEF JoinRoom, JoinsRoom, InviteInto, IInv, PointersAgree, Rooming
    <2>2. /\ room[ch] \in Rooms \cup {None} /\ ch \in channels /\ online
          /\ Attach(ch, c, room[ch])
          /\ UNCHANGED <<channels, name, temp, users, room, soon, view, left>>
      BY <1>3 DEF JoinRoom, JoinsRoom, InviteInto, IInv, TypeOK
    <2>3. LinkTypes' /\ PointersAgree' /\ Rooming'
      BY <2>1, <2>2, AttachKeeps
    <2>4. Allocated' /\ NamesAreUnique' /\ ViewInv'
      BY <2>2 DEF IInv, Allocated, NamesAreUnique, ViewInv, Named, Joined
    <2>. QED  BY <2>2, <2>3, <2>4 DEF IInv, TypeOK, LinkTypes
  <1>. QED  BY <1>1, <1>2, <1>3

LEMMA CommandIInv ==
    ASSUME IInv, ~SetInUse, UNCHANGED fault, NEW ch \in Channels,
           \/ \E n \in Names, r \in Rooms : ChatAdd(ch, n, r) \/ Invitation(ch, n, r)
           \/ ChannelDel(ch) \/ SetType(ch)
           \/ \E r \in Rooms \cup {None} : SetChatType(ch, r)
    PROVE  IInv'
  <1>. Lists /\ \A x \in Channels \ channels : data[x] = None
    BY DEF IInv, Lists, PointersAgree
  <1>1. ASSUME NEW n \in Names, NEW r \in Rooms, ChatAdd(ch, n, r) \/ Invitation(ch, n, r)
        PROVE  IInv'
    <2>1. /\ Named(n) = {} /\ n \in AllNames /\ view' = view /\ ch \notin channels
          /\ UNCHANGED <<data, chats, soon, left>>
          /\ New(ch, n, r, FALSE, {Root}) \/ New(ch, n, r, TRUE, {Root})
      BY <1>1 DEF ChatAdd, Invitation, AllNames, New
    <2>2. /\ channels' \subseteq Channels /\ temp' \subseteq Channels
          /\ name' \in [Channels -> AllNames \cup {None}]
          /\ users' \in [Channels -> SUBSET ({Me, Root} \cup Contacts)]
          /\ room' \in [Channels -> Rooms \cup {None}]
          /\ view' \in [AllNames -> SUBSET ({Me, Root} \cup Contacts)]
          /\ Allocated' /\ NamesAreUnique' /\ ViewInv'
      <3>1. Me \notin {Root}
        BY ConstantsAssumption
      <3>. QED  BY <2>1, <3>1, NewKeeps
    <2>3. PointersAgree' /\ Rooming'
      BY <2>1, PointersKept DEF New, chats, IInv, TypeOK
    <2>. QED  BY <2>1, <2>2, <2>3 DEF IInv, TypeOK, chats
  <1>2. CASE ChannelDel(ch)
    BY <1>2, FreeKeeps DEF ChannelDel, IInv, TypeOK
  <1>3. CASE SetType(ch)
    <2>1. data[ch] = None /\ ui_data' = ui_data
      BY <1>3 DEF SetType, FreeLink
    <2>2. PointersAgree' /\ Rooming'
      BY <1>3, <2>1, PointersKept DEF SetType, IInv, TypeOK
    <2>3. Allocated' /\ NamesAreUnique' /\ ViewInv'
      BY <1>3 DEF SetType, IInv, Allocated, NamesAreUnique, ViewInv, Named, Joined
    <2>. QED  BY <1>3, <2>1, <2>2, <2>3 DEF SetType, IInv, TypeOK
  <1>4. ASSUME NEW r \in Rooms \cup {None}, SetChatType(ch, r)  PROVE IInv'
    <2>1. data[ch] = None
      BY <1>4 DEF SetChatType
    <2>2. PointersAgree' /\ Rooming'
      BY <1>4, <2>1, PointersKept DEF SetChatType, chats, IInv, TypeOK
    <2>3. Allocated' /\ NamesAreUnique' /\ ViewInv'
      BY <1>4 DEF SetChatType, IInv, Allocated, NamesAreUnique, ViewInv, Named, Joined
    <2>. QED  BY <1>4, <2>2, <2>3 DEF SetChatType, chats, IInv, TypeOK
  <1>. QED  BY <1>1, <1>2, <1>3, <1>4

\* A module's new chat: a channel of its own, or one in the place of a channel
\* that had its name.
LEMMA ChatNewIInv ==
    ASSUME IInv, UNCHANGED fault, NEW ch \in Channels, NEW c \in Groupchats,
           \/ \E n \in AllNames : ChatNew(ch, c, n)
           \/ \E old \in Channels : ChatNewReplaces(ch, c, old)
    PROVE  IInv'
  <1>. /\ Lists /\ \A x \in Channels \ channels : data[x] = None
       /\ channels \subseteq Channels
    BY DEF IInv, Lists, PointersAgree, TypeOK
  <1>1. ASSUME NEW n \in AllNames, ChatNew(ch, c, n)  PROVE IInv'
    <2>1. /\ Named(n) = {} /\ view' = view /\ ch \notin channels /\ Me \notin {Root}
          /\ New(ch, n, None, TRUE, {Root})
      BY <1>1, ConstantsAssumption DEF ChatNew, New
    <2>2. /\ channels' \subseteq Channels /\ temp' \subseteq Channels
          /\ name' \in [Channels -> AllNames \cup {None}]
          /\ users' \in [Channels -> SUBSET ({Me, Root} \cup Contacts)]
          /\ room' \in [Channels -> Rooms \cup {None}]
          /\ view' \in [AllNames -> SUBSET ({Me, Root} \cup Contacts)]
          /\ Allocated' /\ NamesAreUnique' /\ ViewInv'
      BY <2>1, NewKeeps
    <2>3. /\ channels' = channels \cup {ch} /\ room'[ch] = None
          /\ \A x \in channels : room'[x] = room[x]
      BY <2>1 DEF New, IInv, TypeOK
    <2>4. LinkTypes' /\ PointersAgree' /\ Rooming'
      BY <1>1, <2>1, <2>3, AttachKeeps DEF ChatNew
    <2>. QED  BY <1>1, <2>2, <2>4 DEF IInv, TypeOK, LinkTypes, ChatNew
  <1>2. ASSUME NEW old \in Channels, ChatNewReplaces(ch, c, old)  PROVE IInv'
    <2>1. /\ channels' = (channels \ {old}) \cup {ch} /\ ch \notin channels /\ old \in channels
          /\ name'[ch] = name[old] /\ users'[ch] = {Root} /\ users'[old] = {}
          /\ \A x \in Channels \ {ch, old} : name'[x] = name[x] /\ users'[x] = users[x]
      BY <1>2 DEF ChatNewReplaces, IInv, TypeOK
    <2>2. name[old] \in AllNames /\ name[old] \in Names
      BY <1>2 DEF ChatNewReplaces, AllNames
    <2>3. soon' \subseteq Freeing
      <3>1. [ic |-> old, name |-> name[old]] \in Freeing
        BY <2>2 DEF Freeing
      <3>2. \A d \in Timers({old}) : d = [ic |-> old, name |-> name[old]]
        BY Zenon DEF Timers, In
      <3>. QED  BY <1>2, <3>1, <3>2 DEF ChatNewReplaces, IInv, TypeOK
    <2>4. /\ channels' \subseteq Channels /\ temp' \subseteq Channels /\ left' \subseteq Channels
          /\ name' \in [Channels -> AllNames \cup {None}]
          /\ users' \in [Channels -> SUBSET ({Me, Root} \cup Contacts)]
          /\ view' \in [AllNames -> SUBSET ({Me, Root} \cup Contacts)]
      BY <1>2, <2>2 DEF ChatNewReplaces, IInv, TypeOK, Parted
    <2>5. LinkTypes' /\ PointersAgree' /\ Rooming'
      <3>1. room[ch] = None
        BY <2>1 DEF Lists, Allocated
      <3>. QED  BY <1>2, <2>1, <3>1, AttachKeeps DEF ChatNewReplaces
    <2>6. Allocated'
      BY <1>2, <2>1, <2>2 DEF ChatNewReplaces, Lists, Allocated
    <2>7. \A x \in channels \ {old} : name[x] # name[old]
      BY <2>1 DEF Lists, NamesAreUnique
    <2>8. NamesAreUnique'
      BY <2>1, <2>7 DEF Lists, NamesAreUnique
    <2>9. ViewInv'
      <3>. SUFFICES ASSUME NEW n \in AllNames
                    PROVE  /\ \A x \in Named(n)' : Joined(x)' => view'[n] = users'[x]
                           /\ (\A x \in Named(n)' : ~Joined(x)') => view'[n] = {}
        BY DEF ViewInv
      <3>1. /\ \A x \in Named(n) : Joined(x) => view[n] = users[x]
            /\ (\A x \in Named(n) : ~Joined(x)) => view[n] = {}
        BY DEF Lists, ViewInv
      <3>2. view'[n] = IF Joined(old) /\ name[old] = n THEN {} ELSE view[n]
        BY <1>2 DEF ChatNewReplaces, Parted, In
      <3>3. CASE n = name[old]
        <4>1. Named(n)' = {ch} /\ Named(n) = {old}
          BY <2>1, <2>7, <3>3 DEF Named
        <4>2. ~Joined(ch)'
          BY <2>1, ConstantsAssumption DEF Joined
        <4>. QED  BY <3>1, <3>2, <3>3, <4>1, <4>2
      <3>4. CASE n # name[old]
        <4>1. Named(n)' = Named(n) /\ \A x \in Named(n) : users'[x] = users[x]
          BY <2>1, <3>4 DEF Named
        <4>. QED  BY <3>1, <3>2, <3>4, <4>1 DEF Joined
      <3>. QED  BY <3>3, <3>4
    <2>. QED  BY <1>2, <2>3, <2>4, <2>5, <2>6, <2>8, <2>9 DEF ChatNewReplaces, IInv, TypeOK, LinkTypes
  <1>. QED  BY <1>1, <1>2

\* Steps of the account's connection inside a chat.
LEMMA MemberIInv ==
    ASSUME IInv, UNCHANGED fault, NEW c \in Groupchats,
           \/ AddMe(c) \/ RemoveMe(c)
           \/ \E p \in Contacts : AddOther(c, p) \/ RemoveOther(c, p)
    PROVE  IInv'
  <1>. /\ Lists /\ None \notin Channels
       /\ ui_data[c] # None => ui_data[c] \in channels
       /\ channels \subseteq Channels /\ ui_data[c] \in Channels \cup {None}
    BY ConstantsAssumption DEF IInv, Lists, PointersAgree, TypeOK
  <1>1. CASE AddMe(c)
    <2>1. PointersAgree' /\ Rooming'
      BY <1>1, PointersKept DEF AddMe
    <2>2. CASE ui_data[c] # None /\ ~Joined(ui_data[c])
      <3>1. /\ users' \in [Channels -> SUBSET ({Me, Root} \cup Contacts)]
            /\ left' \subseteq Channels
            /\ view' \in [AllNames -> SUBSET ({Me, Root} \cup Contacts)]
            /\ Allocated' /\ NamesAreUnique' /\ ViewInv'
        BY <1>1, <2>2, EnterKeeps DEF AddMe
      <3>. QED  BY <1>1, <2>1, <3>1 DEF AddMe, IInv, TypeOK
    <2>3. CASE ~(ui_data[c] # None /\ ~Joined(ui_data[c]))
      <3>1. Allocated' /\ NamesAreUnique' /\ ViewInv'
        BY <1>1, <2>3 DEF AddMe, Lists, Allocated, NamesAreUnique, ViewInv, Named, Joined
      <3>. QED  BY <1>1, <2>1, <2>3, <3>1 DEF AddMe, IInv, TypeOK
    <2>. QED  BY <2>2, <2>3
  <1>2. CASE RemoveMe(c)
    <2>1. PointersAgree' /\ Rooming'
      BY <1>2, PointersKept DEF RemoveMe
    <2>2. /\ users' \in [Channels -> SUBSET ({Me, Root} \cup Contacts)]
          /\ soon' \subseteq Freeing /\ left' \subseteq Channels
          /\ view' \in [AllNames -> SUBSET ({Me, Root} \cup Contacts)]
          /\ Allocated' /\ NamesAreUnique' /\ ViewInv'
      <3>1. {ui_data[c]} \ {None} \in SUBSET Channels
        OBVIOUS
      <3>. QED  BY <1>2, <3>1, LeaveKeeps DEF RemoveMe
    <2>. QED  BY <1>2, <2>1, <2>2 DEF RemoveMe, IInv, TypeOK
  <1>3. ASSUME NEW p \in Contacts, AddOther(c, p) \/ RemoveOther(c, p)  PROVE IInv'
    <2>. DEFINE ch == ui_data[c]
    <2>1. /\ UNCHANGED <<channels, name, temp, room, data, chats, soon, left>>
          /\ ch \in channels /\ p # Me
      BY <1>3, ConstantsAssumption DEF AddOther, RemoveOther
    <2>2. PointersAgree' /\ Rooming'
      BY <2>1, PointersKept DEF chats
    <2>3. PICK U \in SUBSET ({Me, Root} \cup Contacts) :
            /\ users' = [users EXCEPT ![ch] = U] /\ (Me \in U <=> Joined(ch))
            /\ view' = IF Joined(ch) THEN [view EXCEPT ![name[ch]] = U] ELSE view
      <3>1. Joined(ch) => view[name[ch]] = users[ch]
        BY <2>1 DEF Lists, ViewInv, Named, Allocated
      <3>2. CASE AddOther(c, p)
        <4>1. users[ch] \cup {p} \in SUBSET ({Me, Root} \cup Contacts)
          BY <2>1 DEF Lists, TypeOK
        <4>2. /\ users' = [users EXCEPT ![ch] = users[ch] \cup {p}]
              /\ view' = IF Joined(ch) THEN [view EXCEPT ![name[ch]] = users[ch] \cup {p}] ELSE view
          BY <3>1, <3>2 DEF AddOther, Seen
        <4>. QED  BY <2>1, <4>1, <4>2 DEF Joined
      <3>3. CASE RemoveOther(c, p)
        <4>1. users[ch] \ {p} \in SUBSET ({Me, Root} \cup Contacts)
          BY <2>1 DEF Lists, TypeOK
        <4>2. /\ users' = [users EXCEPT ![ch] = users[ch] \ {p}]
              /\ view' = IF Joined(ch) THEN [view EXCEPT ![name[ch]] = users[ch] \ {p}] ELSE view
          BY <3>1, <3>3 DEF RemoveOther
        <4>. QED  BY <2>1, <4>1, <4>2 DEF Joined
      <3>. QED  BY <1>3, <3>2, <3>3
    <2>4. /\ name[ch] \in AllNames
          /\ users' \in [Channels -> SUBSET ({Me, Root} \cup Contacts)]
          /\ view' \in [AllNames -> SUBSET ({Me, Root} \cup Contacts)]
      BY <2>1, <2>3 DEF Lists, TypeOK, Allocated
    <2>5. Allocated' /\ NamesAreUnique'
      BY <2>1, <2>3 DEF Lists, TypeOK, Allocated, NamesAreUnique
    <2>6. ViewInv'
      <3>. SUFFICES ASSUME NEW n \in AllNames
                    PROVE  /\ \A x \in Named(n) : Joined(x)' => view'[n] = users'[x]
                           /\ (\A x \in Named(n) : ~Joined(x)') => view'[n] = {}
        BY <2>1 DEF ViewInv, Named
      <3>1. /\ \A x \in Named(n) : Joined(x) => view[n] = users[x]
            /\ (\A x \in Named(n) : ~Joined(x)) => view[n] = {}
        BY DEF Lists, ViewInv
      <3>2. /\ users'[ch] = U /\ \A x \in Channels \ {ch} : users'[x] = users[x]
            /\ view'[n] = IF Joined(ch) /\ name[ch] = n THEN U ELSE view[n]
        BY <2>1, <2>3 DEF Lists, TypeOK
      <3>3. CASE ch \in Named(n)
        <4>1. Named(n) = {ch} /\ name[ch] = n
          BY <2>1, <3>3 DEF Named, Lists, NamesAreUnique
        <4>. QED  BY <2>3, <3>1, <3>2, <4>1 DEF Joined
      <3>4. CASE ch \notin Named(n)
        <4>1. name[ch] # n /\ \A x \in Named(n) : users'[x] = users[x]
          BY <2>1, <3>2, <3>4 DEF Named
        <4>. QED  BY <3>1, <3>2, <4>1 DEF Joined
      <3>. QED  BY <3>3, <3>4
    <2>. QED  BY <2>1, <2>2, <2>4, <2>5, <2>6 DEF IInv, TypeOK, chats
  <1>. QED  BY <1>1, <1>2, <1>3

\* A contact leaves every channel at once.
LEMMA ContactIInv ==
    ASSUME IInv, UNCHANGED fault, NEW p \in Contacts, ContactGoes(p)
    PROVE  IInv'
  <1>1. /\ UNCHANGED <<channels, name, temp, room, data, chats, soon, left>>
        /\ p # Me /\ channels \subseteq Channels
        /\ \A ch \in Channels : users'[ch] = users[ch] \ {p}
        /\ \A n \in AllNames : view'[n] = view[n] \ {q \in {p} : \E ch \in channels : Joined(ch) /\ q \in users[ch]}
    BY ConstantsAssumption DEF ContactGoes, Quits, IInv, TypeOK
  <1>2. PointersAgree' /\ Rooming'
    BY <1>1, PointersKept DEF chats
  <1>3. /\ users' \in [Channels -> SUBSET ({Me, Root} \cup Contacts)]
        /\ view' \in [AllNames -> SUBSET ({Me, Root} \cup Contacts)]
    BY DEF ContactGoes, Quits, IInv, TypeOK
  <1>4. Allocated' /\ NamesAreUnique'
    BY <1>1 DEF IInv, Allocated, NamesAreUnique
  <1>5. ViewInv'
    <2>. SUFFICES ASSUME NEW n \in AllNames
                  PROVE  /\ \A ch \in Named(n) : Joined(ch)' => view'[n] = users'[ch]
                         /\ (\A ch \in Named(n) : ~Joined(ch)') => view'[n] = {}
      BY <1>1 DEF ViewInv, Named
    <2>1. /\ \A ch \in Named(n) : Joined(ch) => view[n] = users[ch]
          /\ (\A ch \in Named(n) : ~Joined(ch)) => view[n] = {}
      BY DEF IInv, ViewInv
    <2>2. \A ch \in Named(n) : ch \in channels /\ users'[ch] = users[ch] \ {p} /\ (Joined(ch)' <=> Joined(ch))
      BY <1>1 DEF Named, Joined
    <2>3. \A ch \in Named(n) : Joined(ch) => view'[n] = users'[ch]
      BY <1>1, <2>1, <2>2
    <2>4. (\A ch \in Named(n) : ~Joined(ch)) => view'[n] = {}
      BY <1>1, <2>1
    <2>. QED  BY <2>2, <2>3, <2>4
  <1>. QED  BY <1>1, <1>2, <1>3, <1>4, <1>5 DEF IInv, TypeOK, chats

\* The user parts, the module frees a chat, or a timer a channel.
LEMMA PartIInv ==
    ASSUME IInv, NEW ch \in Channels, Part(ch)
    PROVE  IInv'
  <1>. /\ Lists /\ PointersAgree /\ Rooming /\ LinkTypes
       /\ None \notin Channels \cup Groupchats /\ channels \subseteq Channels
    BY ConstantsAssumption DEF IInv, Lists, LinkTypes, TypeOK
  <1>1. /\ users' \in [Channels -> SUBSET ({Me, Root} \cup Contacts)]
        /\ soon' \subseteq Freeing /\ left' \subseteq Channels
        /\ view' \in [AllNames -> SUBSET ({Me, Root} \cup Contacts)]
        /\ Allocated' /\ NamesAreUnique' /\ ViewInv'
    BY LeaveKeeps DEF Part
  <1>2. /\ UNCHANGED <<channels, room, chatRoom, online>>
        /\ data'[ch] = None /\ \A x \in Channels \ {ch} : data'[x] = data[x]
        /\ \A c \in Groupchats : ui_data'[c] = IF c = data[ch] THEN None ELSE ui_data[c]
        /\ \/ groupchats' = groupchats
           \/ data[ch] # None /\ groupchats' = groupchats \ {data[ch]}
    <2>1. /\ UNCHANGED <<channels, room, chatRoom, online>>
          /\ data' = [data EXCEPT ![ch] = None]
          /\ ui_data' = IF data[ch] = None THEN ui_data ELSE [ui_data EXCEPT ![data[ch]] = None]
          /\ \/ groupchats' = groupchats
             \/ data[ch] # None /\ groupchats' = groupchats \ {data[ch]}
      BY DEF Part
    <2>2. \A c \in Groupchats : ui_data'[c] = IF c = data[ch] THEN None ELSE ui_data[c]
      BY <2>1 DEF LinkTypes
    <2>3. data'[ch] = None /\ \A x \in Channels \ {ch} : data'[x] = data[x]
      BY <2>1 DEF LinkTypes
    <2>. QED  BY <2>1, <2>2, <2>3
  <1>3. LinkTypes'
    BY DEF Part, LinkTypes
  <1>4. \A x \in Channels \ {ch} : data[x] # None => data[x] # data[ch]
    BY DEF PointersAgree
  <1>5. PointersAgree'
    BY <1>2, <1>4 DEF PointersAgree, LinkTypes
  <1>6. Rooming'
    BY <1>2 DEF Rooming
  <1>. QED  BY <1>1, <1>3, <1>5, <1>6 DEF Part, IInv, TypeOK, LinkTypes

LEMMA ChatFreeIInv ==
    ASSUME IInv, UNCHANGED fault, NEW c \in Groupchats, ChatFree(c)
    PROVE  IInv'
  <1>. /\ Lists /\ PointersAgree /\ Rooming /\ LinkTypes
       /\ None \notin Channels \cup Groupchats /\ channels \subseteq Channels
    BY ConstantsAssumption DEF IInv, Lists, LinkTypes, TypeOK
  <1>1. /\ users' \in [Channels -> SUBSET ({Me, Root} \cup Contacts)]
        /\ soon' \subseteq Freeing /\ left' \subseteq Channels
        /\ view' \in [AllNames -> SUBSET ({Me, Root} \cup Contacts)]
        /\ Allocated' /\ NamesAreUnique' /\ ViewInv'
    <2>1. {ui_data[c]} \ {None} \in SUBSET Channels
      BY DEF LinkTypes
    <2>. QED  BY <2>1, LeaveKeeps DEF ChatFree
  <1>2. /\ UNCHANGED <<channels, room, chatRoom, online>>
        /\ groupchats' = groupchats \ {c} /\ ui_data'[c] = None
        /\ \A d \in Groupchats \ {c} : ui_data'[d] = ui_data[d]
        /\ \A x \in Channels : data'[x] = IF x = ui_data[c] THEN None ELSE data[x]
    BY DEF ChatFree, LinkTypes
  <1>3. LinkTypes'
    BY DEF ChatFree, LinkTypes
  <1>4. PointersAgree'
    BY <1>2 DEF PointersAgree, LinkTypes
  <1>5. Rooming'
    BY <1>2 DEF Rooming
  <1>. QED  BY <1>1, <1>3, <1>4, <1>5 DEF ChatFree, IInv, TypeOK, LinkTypes

LEMMA FreeSoonIInv ==
    ASSUME IInv, UNCHANGED fault, NEW d \in soon, FreeSoon(d)
    PROVE  IInv'
  <1>1. CASE d.ic \in Named(d.name) /\ ~Joined(d.ic)
    <2>1. /\ d.ic \in channels /\ ~Joined(d.ic) /\ Free(d.ic) /\ view' = view
          /\ UNCHANGED <<groupchats, inRoom, chatRoom, online, fault>>
      BY <1>1 DEF FreeSoon, Named
    <2>2. soon' \subseteq Freeing
      BY DEF FreeSoon, IInv, TypeOK
    <2>. QED  BY <2>1, <2>2, FreeKeeps
  <1>2. CASE ~(d.ic \in Named(d.name) /\ ~Joined(d.ic))
    <2>1. UNCHANGED <<channels, name, temp, users, room, data, chats, view, left, fault>>
      BY <1>2 DEF FreeSoon, chats
    <2>2. PointersAgree' /\ Rooming'
      BY <2>1, PointersKept DEF chats
    <2>3. Allocated' /\ NamesAreUnique' /\ ViewInv'
      BY <2>1 DEF IInv, Allocated, NamesAreUnique, ViewInv, Named, Joined
    <2>. QED  BY <2>1, <2>2, <2>3 DEF FreeSoon, IInv, TypeOK, chats
  <1>. QED  BY <1>1, <1>2

\* The connection comes: the chats it opens are new, and so are all there are.
LEMMA LoginIInv ==
    ASSUME IInv, UNCHANGED fault, Login
    PROVE  IInv'
  <1>. /\ PointersAgree /\ Rooming /\ LinkTypes /\ TypeOK
       /\ None \notin Channels \cup Groupchats /\ channels \subseteq Channels
    BY ConstantsAssumption DEF IInv, LinkTypes, TypeOK
  <1>1. UNCHANGED <<channels, name, temp, users, room, inRoom, soon, view, left>>
    BY DEF Login
  <1>0. PICK S \in SUBSET {ch \in channels : room[ch] # None} :
          \E f \in [S -> Groupchats] :
            /\ \A x, y \in S : f[x] = f[y] => x = y
            /\ groupchats' = {f[ch] : ch \in S}
            /\ data' = [ch \in Channels |-> IF ch \in S THEN f[ch] ELSE data[ch]]
            /\ ui_data' = [c \in Groupchats |-> IF c \in groupchats' THEN CHOOSE ch \in S : f[ch] = c ELSE None]
            /\ chatRoom' = [c \in Groupchats |-> IF c \in groupchats' THEN room[ui_data'[c]] ELSE None]
    BY DEF Login
  <1>2. PICK f \in [S -> Groupchats] :
          /\ \A x, y \in S : f[x] = f[y] => x = y
          /\ groupchats' = {f[ch] : ch \in S}
          /\ data' = [ch \in Channels |-> IF ch \in S THEN f[ch] ELSE data[ch]]
          /\ ui_data' = [c \in Groupchats |-> IF c \in groupchats' THEN CHOOSE ch \in S : f[ch] = c ELSE None]
          /\ chatRoom' = [c \in Groupchats |-> IF c \in groupchats' THEN room[ui_data'[c]] ELSE None]
    BY <1>0
  <1>3. \A ch \in Channels : data[ch] = None
    BY DEF Login, PointersAgree, Rooming
  <1>4. \A ch \in S : ch \in Channels /\ ch \in channels
    BY <1>2
  <1>5. \A ch \in S : /\ f[ch] \in Groupchats /\ f[ch] \in groupchats'
                      /\ (CHOOSE x \in S : f[x] = f[ch]) = ch
    BY <1>2
  <1>6. \A ch \in S : data'[ch] = f[ch] /\ ui_data'[f[ch]] = ch /\ chatRoom'[f[ch]] = room[ch]
    BY <1>2, <1>4, <1>5
  <1>7. \A ch \in Channels \ S : data'[ch] = None
    BY <1>2, <1>3
  <1>8. \A c \in Groupchats : c \in groupchats' \/ (ui_data'[c] = None /\ chatRoom'[c] = None)
    BY <1>2
  <1>9. \A c \in groupchats' : \E ch \in S : c = f[ch]
    BY <1>2
  <1>10. LinkTypes'
    <2>1. groupchats' \subseteq Groupchats
      BY <1>5, <1>9
    <2>2. \A c \in Groupchats : /\ ui_data'[c] \in Channels \cup {None}
                                /\ chatRoom'[c] \in Rooms \cup {None}
      <3>. SUFFICES ASSUME NEW c \in groupchats', c \in Groupchats
                    PROVE  ui_data'[c] \in Channels \cup {None} /\ chatRoom'[c] \in Rooms \cup {None}
        BY <1>8
      <3>1. PICK ch \in S : c = f[ch]
        BY <1>9
      <3>2. ui_data'[c] = ch /\ chatRoom'[c] = room[ch]
        BY <1>6, <3>1
      <3>3. room[ch] \in Rooms \cup {None}
        BY <1>4 DEF TypeOK
      <3>. QED  BY <1>4, <3>2, <3>3
    <2>3. \A ch \in Channels : data'[ch] \in Groupchats \cup {None}
      BY <1>5, <1>6, <1>7
    <2>4. /\ data' \in [Channels -> Groupchats \cup {None}]
          /\ ui_data' \in [Groupchats -> Channels \cup {None}]
          /\ chatRoom' \in [Groupchats -> Rooms \cup {None}]
      BY <1>2, <2>2, <2>3
    <2>. QED  BY <1>1, <2>1, <2>4 DEF LinkTypes, Login
  <1>11. PointersAgree'
    BY <1>1, <1>4, <1>5, <1>6, <1>7, <1>8, <1>9 DEF PointersAgree
  <1>12. Rooming'
    BY <1>1, <1>6, <1>7 DEF Rooming, Login
  <1>13. Allocated' /\ NamesAreUnique' /\ ViewInv'
    BY <1>1 DEF IInv, Allocated, NamesAreUnique, ViewInv, Named, Joined
  <1>. QED  BY <1>1, <1>10, <1>11, <1>12, <1>13 DEF IInv, TypeOK, LinkTypes

\* The connection goes: each chat is left, and each contact quits the others.
LEMMA LogoutIInv ==
    ASSUME IInv, UNCHANGED fault, Logout
    PROVE  IInv'
  <1>. DEFINE linked == {ui_data[c] : c \in groupchats} \ {None}
  <1>. /\ PointersAgree /\ LinkTypes /\ TypeOK /\ Allocated /\ NamesAreUnique
       /\ None \notin Channels \cup Groupchats /\ channels \subseteq Channels
    BY ConstantsAssumption DEF IInv, LinkTypes, TypeOK
  <1>. linked \subseteq channels
    BY DEF LinkTypes, PointersAgree
  <1>1. /\ UNCHANGED <<channels, name, temp, room>>
        /\ online' = FALSE /\ groupchats' = {} /\ inRoom' = {}
        /\ ui_data' = [c \in Groupchats |-> None]
        /\ chatRoom' = [c \in Groupchats |-> None]
        /\ data' = [ch \in Channels |-> IF ch \in linked THEN None ELSE data[ch]]
        /\ users' = [ch \in Channels |-> Emptied(ch, linked) \ Contacts]
        /\ view' = [n \in AllNames |->
                      Parted(linked)[n] \ {p \in Contacts : \E ch \in channels \ linked : Joined(ch) /\ p \in users[ch]}]
        /\ soon' = soon \cup Timers(linked) /\ left' = left \cup (In(linked) \cap temp)
    BY DEF Logout
  <1>2. \A ch \in Channels : data'[ch] = None
    BY <1>1 DEF PointersAgree, LinkTypes
  <1>3. LinkTypes' /\ PointersAgree' /\ Rooming'
    BY <1>1, <1>2 DEF LinkTypes, PointersAgree, Rooming
  <1>4. soon' \subseteq Freeing
    <2>. SUFFICES ASSUME NEW d \in Timers(linked)  PROVE d \in Freeing
      BY <1>1 DEF TypeOK
    <2>1. PICK ch \in In(linked) \cap temp : d = [ic |-> ch, name |-> name[ch]]
      BY Zenon DEF Timers
    <2>2. name[ch] \in AllNames /\ ch \in Channels
      BY <2>1 DEF In, Allocated
    <2>. QED  BY <2>1, <2>2 DEF Freeing
  <1>5. /\ left' \subseteq Channels
        /\ users' \in [Channels -> SUBSET ({Me, Root} \cup Contacts)]
        /\ view' \in [AllNames -> SUBSET ({Me, Root} \cup Contacts)]
    <2>1. \A ch \in Channels : Emptied(ch, linked) \subseteq {Me, Root} \cup Contacts
      BY DEF Emptied, TypeOK
    <2>2. \A n \in AllNames : Parted(linked)[n] \subseteq {Me, Root} \cup Contacts
      BY DEF Parted, TypeOK
    <2>. QED  BY <1>1, <2>1, <2>2 DEF In, TypeOK
  <1>6. /\ \A ch \in Channels \ channels : users'[ch] = {}
        /\ \A ch \in linked : ~Joined(ch)'
        /\ \A ch \in Channels \ linked : users'[ch] = users[ch] \ Contacts
    BY <1>1, ConstantsAssumption DEF Emptied, In, Joined, Allocated, TypeOK
  <1>7. Allocated' /\ NamesAreUnique'
    BY <1>1, <1>6 DEF Allocated, NamesAreUnique
  <1>8. ViewInv'
    <2>. SUFFICES ASSUME NEW n \in AllNames
                  PROVE  /\ \A ch \in Named(n) : Joined(ch)' => view'[n] = users'[ch]
                         /\ (\A ch \in Named(n) : ~Joined(ch)') => view'[n] = {}
      BY <1>1 DEF ViewInv, Named
    <2>1. /\ \A ch \in Named(n) : Joined(ch) => view[n] = users[ch]
          /\ (\A ch \in Named(n) : ~Joined(ch)) => view[n] = {}
      BY DEF IInv, ViewInv
    <2>2. CASE \E ch \in In(linked) : name[ch] = n
      <3>1. view'[n] = {}
        BY <1>1, <2>2 DEF Parted
      <3>2. \A ch \in Named(n) : ch \in linked
        BY <2>2 DEF In, Named, NamesAreUnique
      <3>. QED  BY <1>6, <3>1, <3>2
    <2>3. CASE ~\E ch \in In(linked) : name[ch] = n
      <3>1. view'[n] = view[n] \ {p \in Contacts : \E ch \in channels \ linked : Joined(ch) /\ p \in users[ch]}
        BY <1>1, <2>3 DEF Parted
      <3>2. \A ch \in Named(n) : Joined(ch) => ch \in channels \ linked
        BY <2>3 DEF In, Named
      <3>3. \A ch \in Named(n) : Joined(ch) => view'[n] = users'[ch]
        BY <1>6, <2>1, <3>1, <3>2
      <3>4. \A ch \in Named(n) : Joined(ch)' <=> Joined(ch)
        BY <1>6, <3>2, ConstantsAssumption DEF Joined, Named
      <3>5. (\A ch \in Named(n) : ~Joined(ch)) => view'[n] = {}
        BY <2>1, <3>1
      <3>. QED  BY <3>3, <3>4, <3>5
    <2>. QED  BY <2>2, <2>3
  <1>9. UNCHANGED <<channels, name, temp, room, fault>>
    BY <1>1
  <1>10. TypeOK'
    BY <1>3, <1>4, <1>5, <1>9 DEF TypeOK, LinkTypes
  <1>. QED  BY <1>3, <1>7, <1>8, <1>10 DEF IInv

LEMMA NextIInv == IInv /\ ~SetInUse /\ [Next]_vars => IInv'
  <1>. SUFFICES ASSUME IInv, ~SetInUse, [Next]_vars  PROVE IInv'
    OBVIOUS
  <1>1. CASE UNCHANGED vars
    <2>1. TypeOK'
      BY <1>1 DEF vars, chats, IInv, TypeOK
    <2>2. PointersAgree' /\ Rooming'
      BY <1>1, PointersKept DEF vars, chats
    <2>3. Allocated' /\ NamesAreUnique' /\ ViewInv'
      BY <1>1 DEF vars, IInv, Allocated, NamesAreUnique, ViewInv, Named, Joined
    <2>. QED  BY <2>1, <2>2, <2>3 DEF IInv
  <1>2. CASE Handler /\ UNCHANGED fault
    BY <1>2, JoinIInv, CommandIInv, ChatNewIInv, MemberIInv, ContactIInv, ChatFreeIInv,
       LoginIInv, LogoutIInv, FreeSoonIInv, ConstantsAssumption DEF Handler, AllNames
  <1>3. CASE \E ch \in Channels : Part(ch)
    BY <1>3, PartIInv
  <1>4. CASE \E n \in Names : InvitationToExisting(n)
    <2>1. UNCHANGED <<channels, name, temp, users, room, data, chats, soon, view, left>>
      BY <1>4 DEF InvitationToExisting
    <2>2. fault' = "no channel"
      BY <1>4 DEF InvitationToExisting
    <2>3. PointersAgree' /\ Rooming'
      BY <2>1, PointersKept DEF chats
    <2>4. Allocated' /\ NamesAreUnique' /\ ViewInv'
      BY <2>1 DEF IInv, Allocated, NamesAreUnique, ViewInv, Named, Joined
    <2>. QED  BY <2>1, <2>2, <2>3, <2>4 DEF IInv, TypeOK, chats
  <1>. QED  BY <1>1, <1>2, <1>3, <1>4 DEF Next

LEMMA InvariantIInv == ~SetInUse /\ Spec => []IInv
  <1>. SUFFICES ASSUME ~SetInUse  PROVE Spec => []IInv
    OBVIOUS
  <1>. QED  BY InitIInv, NextIInv, PTL DEF Spec

-----------------------------------------------------------------------------

\* Types: no timer of a channel is set without the name it is found by.
THEOREM TypeCorrect == ~SetInUse /\ Spec => []TypeOK
  <1>1. IInv => TypeOK
    BY DEF IInv
  <1>. QED  BY <1>1, InvariantIInv, PTL

\* A channel and a chat point at each other or not at all, and both exist
\* (ic->data of irc_channel.c and c->ui_data of irc_im.c), whichever side
\* frees first and whatever address is used again.
THEOREM PointersAlwaysAgree == ~SetInUse /\ Spec => []PointersAgree
  <1>1. IInv => PointersAgree
    BY DEF IInv
  <1>. QED  BY <1>1, InvariantIInv, PTL

\* No two channels have one name (irc_channel_new() and the renaming of
\* bee_irc_chat_name_hint()).
THEOREM NamesStayUnique == ~SetInUse /\ Spec => []NamesAreUnique
  <1>1. IInv => NamesAreUnique
    BY DEF IInv
  <1>. QED  BY <1>1, InvariantIInv, PTL

\* The client shows the users of the channels the user is in, and nothing
\* else, by the JOINs, PARTs, KICKs and QUITs it was sent.
THEOREM ViewStaysRight == ~SetInUse /\ Spec => []ViewIsRight
  <1>1. IInv => ViewIsRight
    <2>. SUFFICES ASSUME IInv, NEW n \in AllNames
                  PROVE  view[n] = IF \E ch \in Named(n) : Joined(ch)
                                   THEN users[CHOOSE ch \in Named(n) : Joined(ch)] ELSE {}
      BY DEF ViewIsRight
    <2>1. CASE \E ch \in Named(n) : Joined(ch)
      <3>. DEFINE x == CHOOSE ch \in Named(n) : Joined(ch)
      <3>1. x \in Named(n) /\ Joined(x)
        BY <2>1
      <3>. QED  BY <2>1, <3>1 DEF IInv, ViewInv
    <2>2. CASE ~\E ch \in Named(n) : Joined(ch)
      BY <2>2 DEF IInv, ViewInv
    <2>. QED  BY <2>1, <2>2
  <1>. QED  BY <1>1, InvariantIInv, PTL
=============================================================================
