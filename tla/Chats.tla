------------------------------- MODULE Chats --------------------------------
(***************************************************************************)
(* Group chats and the IRC channels that show them: irc_channel.c, the     *)
(* chat functions of irc_im.c, bee_chat.c, JOIN, PART and INVITE.          *)
(*                                                                         *)
(* A channel and a chat point at each other, ic->data and c->ui_data, and  *)
(* are created and freed by different sides: the client's commands on one, *)
(* the account's connection on the other.  channels and groupchats are the *)
(* addresses that are allocated; a pointer may be to one that is not.  All *)
(* channels are chat channels here, and there is one account.  view is     *)
(* what the IRC client shows, computed only from the lines it was sent.    *)
(***************************************************************************)
EXTENDS FiniteSets, Naturals

CONSTANTS
    Channels,        \* addresses g_new0() may return for an irc_channel_t
    Groupchats,      \* and for a struct groupchat
    Names,           \* channel names a client may type or a module suggest
    Generic,         \* #chat_000 and so on
    Rooms,           \* named rooms of the account's network
    Contacts,
    Me, Root,        \* irc->user and irc->root
    None,
    LeaveFrees,      \* the module frees the chat in chat_leave() already
    SetInUse         \* the user changes `type' and `room' of a channel with a chat

ASSUME ConstantsAssumption ==
    /\ None \notin Channels \cup Groupchats \cup Rooms
    /\ Me # Root /\ {Me, Root} \cap Contacts = {}
    /\ {LeaveFrees, SetInUse} \subseteq BOOLEAN

VARIABLES
    channels,        \* irc->channels
    name,            \* of each channel
    temp,            \* those with IRC_CHANNEL_TEMP
    users,           \* ic->users; IRC_CHANNEL_JOINED says if irc->user is one
    room,            \* the room of a channel with chat_type = room, or None
    data,            \* ic->data: a chat or None
    groupchats,      \* the chats of the account's connection
    ui_data,         \* c->ui_data: a channel or None
    inRoom,          \* chats with c->joined
    chatRoom,        \* the room a chat is of, or None
    online,          \* the account has a connection
    soon,            \* irc_channel_free_callback() timers: a channel and its name
    view,            \* the client's: the users in the channel of a name
    left,            \* history: temporary channels the user has left
    fault            \* the memory error that ends the program, or "no"

chats == <<groupchats, ui_data, inRoom, chatRoom, online>>
vars == <<channels, name, temp, users, room, data, chats, soon, view, left, fault>>

AllNames == Names \cup Generic

\* Mutant: the channels the user is not in are not found.
NamedJoined(n) == {ch \in channels : name[ch] = n /\ Me \in users[ch]}

\* irc_channel_by_name()
Named(n) == {ch \in channels : name[ch] = n}

Joined(ch) == Me \in users[ch]

Init ==
    /\ channels = {} /\ temp = {} /\ left = {} /\ soon = {}
    /\ name = [ch \in Channels |-> None]
    /\ users = [ch \in Channels |-> {}]
    /\ room = [ch \in Channels |-> None]
    /\ data = [ch \in Channels |-> None]
    /\ groupchats = {} /\ inRoom = {}
    /\ ui_data = [c \in Groupchats |-> None]
    /\ chatRoom = [c \in Groupchats |-> None]
    /\ online = FALSE
    /\ view = [n \in AllNames |-> {}]
    /\ fault = "no"

-----------------------------------------------------------------------------
(* The functions of irc_channel.c *)

\* irc_channel_new() and the settings made at once.  A chat channel is
\* temporary until its chat_type is room.
New(ch, n, r, temporary, members) ==
    /\ ch \notin channels
    /\ channels' = channels \cup {ch}
    /\ name' = [name EXCEPT ![ch] = n]
    /\ users' = [users EXCEPT ![ch] = members]
    /\ room' = [room EXCEPT ![ch] = r]
    /\ temp' = IF temporary THEN temp \cup {ch} ELSE temp

\* irc_channel_add_user() for irc->user: JOIN, and NAMES for who is there.
Enter(ch) ==
    /\ users' = [users EXCEPT ![ch] = @ \cup {Me}]
    /\ left' = left \ {ch}
    /\ view' = [view EXCEPT ![name[ch]] = users[ch] \cup {Me}]

\* Mutant: the client is told of channels it is not in.
SeenAlways(ch, p) == [view EXCEPT ![name[ch]] = @ \cup {p}]

\* The same for a contact.
Seen(ch, p) == IF Joined(ch) THEN [view EXCEPT ![name[ch]] = @ \cup {p}] ELSE view

\* irc_channel_del_user() for irc->user in each of chs: a temporary channel is
\* freed soon and keeps its list, another is emptied.
In(chs) == {ch \in chs : Joined(ch)}

Emptied(ch, chs) ==
    IF ch \notin In(chs) THEN users[ch] ELSE IF ch \in temp THEN users[ch] \ {Me} ELSE {Root}

Parted(chs) == [n \in AllNames |-> IF \E ch \in In(chs) : name[ch] = n THEN {} ELSE view[n]]

\* Mutant: the channel is not found again by the name it has had.
TimersOfNoName(chs) == {[ic |-> ch, name |-> None] : ch \in In(chs) \cap temp}

\* Mutant: only a channel with a chat is freed soon.
TimersOfChats(chs) == {[ic |-> ch, name |-> name[ch]] : ch \in {x \in In(chs) \cap temp : data[x] # None}}

\* irc_channel_free_soon()
Timers(chs) == {[ic |-> ch, name |-> name[ch]] : ch \in In(chs) \cap temp}

Leave(chs) ==
    /\ users' = [ch \in Channels |-> Emptied(ch, chs)]
    /\ soon' = soon \cup Timers(chs)
    /\ left' = left \cup (In(chs) \cap temp)
    /\ view' = Parted(chs)

\* Mutant: a freed channel's chat still points at it.
KeepLink(ch) == ui_data

\* bee_irc_channel_free(): the pointer of the chat
FreeLink(ch) == IF data[ch] = None THEN ui_data ELSE [ui_data EXCEPT ![data[ch]] = None]

\* irc_channel_free() of a channel the user is not in
Free(ch) ==
    /\ channels' = channels \ {ch}
    /\ data' = [data EXCEPT ![ch] = None]
    /\ ui_data' = FreeLink(ch)
    /\ users' = [users EXCEPT ![ch] = {}]
    /\ name' = [name EXCEPT ![ch] = None]
    /\ room' = [room EXCEPT ![ch] = None]
    /\ temp' = temp \ {ch}
    /\ left' = left \ {ch}

\* imcb_chat_new() for a channel: the one with IRC_CHANNEL_CHAT_PICKME, or a
\* new one
Attach(ch, c, r) ==
    /\ c \notin groupchats
    /\ groupchats' = groupchats \cup {c}
    /\ chatRoom' = [chatRoom EXCEPT ![c] = r]
    /\ data' = [data EXCEPT ![ch] = c]
    /\ ui_data' = [ui_data EXCEPT ![c] = ch]
    /\ UNCHANGED <<inRoom, online>>

-----------------------------------------------------------------------------
(* Commands of the client *)

\* irc_cmd_join() of a name that has no channel
JoinNew(ch, n) ==
    /\ Named(n) = {}
    /\ New(ch, n, None, TRUE, {Root, Me})
    /\ view' = [view EXCEPT ![n] = {Root, Me}]
    /\ UNCHANGED <<data, chats, soon, left>>

\* irc_cmd_join() with chat_type = groupchat
JoinGroupchat(ch) ==
    /\ ch \in channels /\ ~Joined(ch) /\ room[ch] = None
    /\ Enter(ch)
    /\ UNCHANGED <<channels, name, temp, room, data, chats, soon>>

\* A module opens no second chat of a room ("Already present").
JoinsRoom(ch) ==
    /\ online /\ room[ch] # None
    /\ \A c \in groupchats : chatRoom[c] # room[ch]

\* bee_irc_channel_chat_join() with chat_type = room: the channel waits for the
\* module to say that the user is in.
JoinRoom(ch, c) ==
    /\ ch \in channels /\ ~Joined(ch) /\ JoinsRoom(ch)
    /\ Attach(ch, c, room[ch])
    /\ UNCHANGED <<channels, name, temp, users, room, soon, view, left>>

\* irc_cmd_part() and bee_irc_channel_chat_part(): c->ui_data is written after
\* chat_leave().
Part(ch) ==
    /\ ch \in channels /\ Joined(ch)
    /\ Leave({ch})
    /\ data' = [data EXCEPT ![ch] = None]
    /\ LET c == data[ch]
           freed == LeaveFrees /\ c # None
       IN  /\ ui_data' = IF c = None THEN ui_data ELSE [ui_data EXCEPT ![c] = None]
           /\ groupchats' = IF freed THEN groupchats \ {c} ELSE groupchats
           /\ fault' = IF freed THEN "freed chat" ELSE fault
    /\ UNCHANGED <<channels, name, temp, room, inRoom, chatRoom, online>>

\* bee_irc_channel_chat_invite() in a channel without a chat, chat_with()
InviteInto(ch, c) ==
    /\ ch \in channels /\ online
    /\ room[ch] = None /\ data[ch] = None
    /\ Attach(ch, c, None)
    /\ UNCHANGED <<channels, name, temp, users, room, soon, view, left>>

\* cmd_chat(), `chat add'
ChatAdd(ch, n, r) ==
    /\ Named(n) = {}
    /\ New(ch, n, r, FALSE, {Root})
    /\ UNCHANGED <<data, chats, soon, view, left>>

\* cmd_channel(), `channel del'
ChannelDel(ch) ==
    /\ ch \in channels /\ ~Joined(ch)
    /\ Free(ch)
    /\ UNCHANGED <<groupchats, inRoom, chatRoom, online, soon, view>>

\* set_eval_chat_type(), and the `room' setting
SetChatType(ch, r) ==
    /\ ch \in channels /\ r # room[ch]
    /\ SetInUse \/ data[ch] = None
    /\ room' = [room EXCEPT ![ch] = r]
    /\ temp' = IF r = None THEN temp \cup {ch} ELSE temp \ {ch}
    /\ left' = IF r = None THEN left ELSE left \ {ch}
    /\ UNCHANGED <<channels, name, users, data, chats, soon, view>>

\* set_eval_channel_type() to the type it has: bee_irc_channel_free() and
\* bee_irc_channel_init(), which leave ic->data.  A change to `control', which
\* makes it a channel that Contacts is about, is left out.
SetType(ch) ==
    /\ ch \in channels
    /\ SetInUse \/ data[ch] = None
    /\ ui_data' = FreeLink(ch)
    /\ room' = [room EXCEPT ![ch] = None]
    /\ temp' = temp \cup {ch}
    /\ UNCHANGED <<channels, name, users, data, groupchats, inRoom, chatRoom, online,
                   soon, view, left>>

-----------------------------------------------------------------------------
(* What the account's connection reports *)

\* imcb_chat_new() that no channel waits for, and imcb_chat_name_hint() with a
\* name or without one: #chat_000.  The modules that give a hint do so in the
\* handler that made the chat (twitter_lib.c:606-609, skype.c:917-924), so that the
\* channel that is renamed is always the new one.
ChatNew(ch, c, n) ==
    /\ online
    /\ Named(n) = {}
    /\ New(ch, n, None, TRUE, {Root})
    /\ Attach(ch, c, None)
    /\ UNCHANGED <<soon, view, left>>

\* The hint names a channel without a chat, which gives up its name: here the
\* new one is put in its place at another address.
ChatNewReplaces(ch, c, old) ==
    /\ online
    /\ ch \notin channels /\ old \in channels
    /\ data[old] = None /\ room[old] = None /\ name[old] \in Names
    /\ Attach(ch, c, None)
    /\ channels' = (channels \ {old}) \cup {ch}
    /\ name' = [name EXCEPT ![ch] = name[old], ![old] = None]
    /\ users' = [users EXCEPT ![ch] = {Root}, ![old] = {}]
    /\ temp' = (temp \ {old}) \cup {ch}
    /\ left' = left \ {old}
    /\ soon' = soon \cup Timers({old})
    /\ view' = Parted({old})
    /\ UNCHANGED room

\* imcb_chat_add_buddy() for the user: JOIN at last, in a channel not joined
AddMe(c) ==
    /\ c \in groupchats
    /\ inRoom' = inRoom \cup {c}
    /\ IF ui_data[c] # None /\ ~Joined(ui_data[c]) THEN Enter(ui_data[c]) ELSE UNCHANGED <<users, left, view>>
    /\ UNCHANGED <<channels, name, temp, room, data, groupchats, ui_data, chatRoom, online, soon>>

\* imcb_chat_remove_buddy() for the user
RemoveMe(c) ==
    /\ c \in groupchats \cap inRoom
    /\ inRoom' = inRoom \ {c}
    /\ Leave({ui_data[c]} \ {None})
    /\ UNCHANGED <<channels, name, temp, room, data, groupchats, ui_data, chatRoom, online>>

\* imcb_chat_add_buddy() for another
AddOther(c, p) ==
    /\ c \in groupchats /\ ui_data[c] # None
    /\ p \notin users[ui_data[c]]
    /\ users' = [users EXCEPT ![ui_data[c]] = @ \cup {p}]
    /\ view' = Seen(ui_data[c], p)
    /\ UNCHANGED <<channels, name, temp, room, data, chats, soon, left>>

\* imcb_chat_remove_buddy() for another
RemoveOther(c, p) ==
    /\ c \in groupchats /\ ui_data[c] # None
    /\ p \in users[ui_data[c]]
    /\ users' = [users EXCEPT ![ui_data[c]] = @ \ {p}]
    /\ view' = IF Joined(ui_data[c]) THEN [view EXCEPT ![name[ui_data[c]]] = @ \ {p}] ELSE view
    /\ UNCHANGED <<channels, name, temp, room, data, chats, soon, left>>

\* bee_irc_user_free(), irc_user_quit(): out of every list, and a QUIT if the
\* user is in one of those channels.
Quits(ps) ==
    /\ users' = [ch \in Channels |-> users[ch] \ ps]
    /\ view' = [n \in AllNames |-> view[n] \ {p \in ps : \E ch \in channels : Joined(ch) /\ p \in users[ch]}]

ContactGoes(p) ==
    /\ \E ch \in channels : p \in users[ch]
    /\ Quits({p})
    /\ UNCHANGED <<channels, name, temp, room, data, chats, soon, left>>

\* imcb_chat_free()
ChatFree(c) ==
    /\ c \in groupchats
    /\ groupchats' = groupchats \ {c}
    /\ inRoom' = inRoom \ {c}
    /\ ui_data' = [ui_data EXCEPT ![c] = None]
    /\ data' = [ch \in Channels |-> IF ch = ui_data[c] THEN None ELSE data[ch]]
    /\ Leave({ui_data[c]} \ {None})
    /\ UNCHANGED <<channels, name, temp, room, chatRoom, online>>

\* imcb_chat_invite() and bee_irc_chat_invite().  For an account without chat_join
\* the new channel is freed again at once, and nothing has changed.
Invitation(ch, n, r) ==
    /\ online
    /\ Named(n) = {}
    /\ New(ch, n, r, TRUE, {Root})
    /\ UNCHANGED <<data, chats, soon, view, left>>

\* bee_irc_chat_invite() when irc_channel_new() refuses the name: the NULL it
\* returned is given to irc_channel_free().
InvitationToExisting(n) ==
    /\ online
    /\ Named(n) # {}
    /\ fault' = "no channel"
    /\ UNCHANGED <<channels, name, temp, users, room, data, chats, soon, view, left>>

\* irc_channel_auto_joins(): the rooms marked so, or with the user in them.
Login ==
    /\ ~online
    /\ online' = TRUE
    /\ \E S \in SUBSET {ch \in channels : room[ch] # None} :
        /\ \A x, y \in S : room[x] = room[y] => x = y
        /\ \E f \in [S -> Groupchats] :
            /\ \A x, y \in S : f[x] = f[y] => x = y
            /\ groupchats' = {f[ch] : ch \in S}
            /\ data' = [ch \in Channels |-> IF ch \in S THEN f[ch] ELSE data[ch]]
            /\ ui_data' = [c \in Groupchats |-> IF c \in groupchats' THEN CHOOSE ch \in S : f[ch] = c ELSE None]
            /\ chatRoom' = [c \in Groupchats |-> IF c \in groupchats' THEN room[ui_data'[c]] ELSE None]
    /\ UNCHANGED <<channels, name, temp, users, room, inRoom, soon, view, left>>

\* imc_logout(): the module frees its chats, and the contacts go.
Logout ==
    /\ online
    /\ online' = FALSE
    /\ LET linked == {ui_data[c] : c \in groupchats} \ {None}
           seen == Parted(linked)
       IN  /\ users' = [ch \in Channels |-> Emptied(ch, linked) \ Contacts]
           /\ view' = [n \in AllNames |->
                         seen[n] \ {p \in Contacts : \E ch \in channels \ linked : Joined(ch) /\ p \in users[ch]}]
           /\ soon' = soon \cup Timers(linked)
           /\ left' = left \cup (In(linked) \cap temp)
           /\ data' = [ch \in Channels |-> IF ch \in linked THEN None ELSE data[ch]]
    /\ groupchats' = {} /\ inRoom' = {}
    /\ ui_data' = [c \in Groupchats |-> None]
    /\ chatRoom' = [c \in Groupchats |-> None]
    /\ UNCHANGED <<channels, name, temp, room>>

-----------------------------------------------------------------------------
(* Timers *)

\* irc_channel_free_callback(): if the channel is still there under its name
\* and the user has not come back.
FreeSoon(d) ==
    /\ d \in soon
    /\ soon' = soon \ {d}
    /\ IF d.ic \in Named(d.name) /\ ~Joined(d.ic) THEN Free(d.ic)
       ELSE UNCHANGED <<channels, name, temp, users, room, data, ui_data, left>>
    /\ UNCHANGED <<groupchats, inRoom, chatRoom, online, view>>

-----------------------------------------------------------------------------
Freeing == [ic : Channels, name : AllNames]

Handler ==
    \/ \E ch \in Channels, n \in AllNames : JoinNew(ch, n)
    \/ \E ch \in Channels : JoinGroupchat(ch) \/ ChannelDel(ch) \/ SetType(ch)
    \/ \E ch \in Channels, c \in Groupchats : JoinRoom(ch, c) \/ InviteInto(ch, c)
    \/ \E ch \in Channels, n \in Names, r \in Rooms : ChatAdd(ch, n, r) \/ Invitation(ch, n, r)
    \/ \E ch \in Channels, r \in Rooms \cup {None} : SetChatType(ch, r)
    \/ \E ch \in Channels, c \in Groupchats, n \in AllNames : ChatNew(ch, c, n)
    \/ \E ch, old \in Channels, c \in Groupchats : ChatNewReplaces(ch, c, old)
    \/ \E c \in Groupchats : AddMe(c) \/ RemoveMe(c) \/ ChatFree(c)
    \/ \E c \in Groupchats, p \in Contacts : AddOther(c, p) \/ RemoveOther(c, p)
    \/ \E p \in Contacts : ContactGoes(p)
    \/ Login \/ Logout
    \/ \E d \in soon : FreeSoon(d)

Next ==
    /\ fault = "no"
    /\ \/ Handler /\ UNCHANGED fault
       \/ \E ch \in Channels : Part(ch)
       \/ \E n \in Names : InvitationToExisting(n)

\* The event loop fires its timers.
Fairness == \A d \in Freeing : WF_vars(fault = "no" /\ FreeSoon(d) /\ UNCHANGED fault)

Spec == Init /\ [][Next]_vars /\ Fairness

-----------------------------------------------------------------------------
(* Properties *)

TypeOK ==
    /\ channels \subseteq Channels /\ temp \subseteq Channels /\ left \subseteq Channels
    /\ name \in [Channels -> AllNames \cup {None}]
    /\ users \in [Channels -> SUBSET ({Me, Root} \cup Contacts)]
    /\ room \in [Channels -> Rooms \cup {None}]
    /\ data \in [Channels -> Groupchats \cup {None}]
    /\ groupchats \subseteq Groupchats /\ inRoom \subseteq Groupchats
    /\ ui_data \in [Groupchats -> Channels \cup {None}]
    /\ chatRoom \in [Groupchats -> Rooms \cup {None}]
    /\ online \in BOOLEAN
    /\ soon \subseteq Freeing
    /\ view \in [AllNames -> SUBSET ({Me, Root} \cup Contacts)]
    /\ fault \in {"no", "freed chat", "no channel"}

\* A channel that points at a chat is the one the chat points at, and both
\* exist: no message of a chat goes to a freed channel and no line typed in a
\* channel to a freed chat.
PointersAgree ==
    /\ \A ch \in Channels : data[ch] # None =>
            ch \in channels /\ data[ch] \in groupchats /\ ui_data[data[ch]] = ch
    /\ \A c \in Groupchats : ui_data[c] # None =>
            c \in groupchats /\ ui_data[c] \in channels /\ data[ui_data[c]] = c

\* Two channels never have one name, although a chat's channel is renamed after
\* it was created.
NamesAreUnique == \A x, y \in channels : name[x] = name[y] => x = y

\* The client shows the channels the user is in with the users that are in
\* them, and no others.
ViewIsRight ==
    \A n \in AllNames :
        view[n] = IF \E ch \in Named(n) : Joined(ch) THEN users[CHOOSE ch \in Named(n) : Joined(ch)] ELSE {}

\* "Erase the channel when the user leaves" (IRC_CHANNEL_TEMP): a temporary
\* channel that was left is erased, or joined again, in the end.
TempChannelsGo == \A ch \in Channels : ch \in left ~> ch \notin left \/ fault # "no"

\* An invitation to a room that has a channel already is shown like another.
InvitationsAreShown == fault # "no channel"
=============================================================================
