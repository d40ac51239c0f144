------------------------------ MODULE Contacts ------------------------------
(***************************************************************************)
(* Contacts as IRC users: bee_user.c, irc_user.c, nick.c, the contact      *)
(* functions of irc_im.c, control channels, and the commands add, remove   *)
(* and rename.                                                             *)
(*                                                                         *)
(* A contact has a handle on its network and a nick on IRC.  users are the *)
(* addresses of irc_user_t that are allocated (with the bee_user_t each    *)
(* belongs to), so that one may be used again while a pointer to it is     *)
(* left.  A nick is a number: n + 1 is n with an underscore, what          *)
(* nick_dedupe() tries next.  view is what the client shows in each        *)
(* channel, computed only from the JOIN, PART, QUIT, NICK and NAMES lines  *)
(* it was sent.  There is one account.                                     *)
(***************************************************************************)
EXTENDS Naturals, FiniteSets

CONSTANTS
    Users,           \* addresses g_new0() may return for an irc_user_t
    Handles,
    Unclean,         \* handles that clean_handle() changes
    MaxNick,         \* bound: nicks are 0..MaxNick
    Generated,       \* what nick_gen() may make of a contact's names
    Given,           \* nicks the user may type
    Groups,
    Channels,        \* names of control channels
    Default,         \* &bitlbee
    Configured,      \* bound: channels whose settings the user changes
    Talked,          \* bound: channels the user types lines in, if any
    Me, None

Nicks == 0..MaxNick

\* The contacts a channel is filled by: with one account, fill_by is "all", "rest",
\* or an account or protocol that they all are or none is of; or a group, where the
\* `group' that is not set stands for the contacts of no group.
Fills == {"all", "none", "ungrouped"} \cup Groups

ASSUME ConstantsAssumption ==
    /\ MaxNick \in Nat /\ Generated \cup Given \subseteq Nicks
    /\ Unclean \subseteq Handles /\ Default \in Channels /\ Configured \cup Talked \subseteq Channels
    /\ Me \notin Users /\ None \notin Users \cup Handles \cup Fills \cup {Me}
    /\ {"all", "none", "ungrouped"} \cap Groups = {}

\* nick_dedupe() gives up after 256 nicks: here too there are more of them than
\* contacts.
ASSUME NicksAssumption ==
    /\ IsFiniteSet(Users)
    /\ \A n \in Generated \cup Given : n + Cardinality(Users) <= MaxNick

VARIABLES
    users,           \* irc->users with a bee_user_t, bee->users
    handle,          \* bu->handle
    group,           \* bu->group
    online,          \* those with BEE_USER_ONLINE
    nick,            \* iu->nick, of the contacts and of irc->user
    hash,            \* irc->nick_user_hash
    saved,           \* acc->nicks
    fill,            \* what each channel is filled by; None: not there
    shows,           \* channels whose show_users has offline
    joined,          \* IRC_CHANNEL_JOINED
    members,         \* ic->users, the contacts in it
    view,            \* the client's: nicks of contacts in each channel it is in
    typed,           \* iu->pastebuf: the handles its lines were meant for
    target,          \* ic->last_target if a contact, used if default_target is `last'
    unfilled         \* history: channels joined with contacts there, not filled since

names == <<nick, hash, members, view>>
settings == <<fill, shows, joined>>
vars == <<users, handle, group, online, names, saved, settings, typed, target, unfilled>>

Init ==
    /\ users = {} /\ online = {}
    /\ handle = [u \in Users |-> None]
    /\ group = [u \in Users |-> None]
    /\ nick = [u \in Users \cup {Me} |-> 0]
    /\ hash = [n \in Nicks |-> IF n = 0 THEN Me ELSE None]
    /\ saved = [h \in Handles |-> None]
    /\ fill = [ch \in Channels |-> IF ch = Default THEN "all" ELSE None]
    /\ shows = {} /\ joined = {Default}
    /\ members = [ch \in Channels |-> {}]
    /\ view = [ch \in Channels |-> {}]
    /\ typed = [u \in Users |-> {}]
    /\ target = [ch \in Channels |-> None]
    /\ unfilled = {}

-----------------------------------------------------------------------------
(* What one call does to the names and the channels: s is a record of the  *)
(* names variables, and the record after the call is the value.            *)

Now == [nick |-> nick, hash |-> hash, members |-> members, view |-> view]

Becomes(s) ==
    /\ nick' = s.nick /\ hash' = s.hash
    /\ members' = s.members /\ view' = s.view

\* irc_channel_wants_user() and icc->modes: who belongs in each channel
Wanted(us, groups, on, fills, offline) ==
    LET by(u) == IF groups[u] = None THEN "ungrouped" ELSE groups[u]
    IN  [ch \in Channels |-> {u \in us : fills[ch] \in {"all", by(u)} /\ (u \in on \/ ch \in offline)}]

\* Mutant: a contact that is there is not looked at again.
UpdateAdds(s, chs, us, wanted) ==
    [s EXCEPT
        !.members = [ch \in Channels |-> IF ch \in chs THEN @[ch] \cup (us \cap wanted[ch]) ELSE @[ch]],
        !.view = [ch \in Channels |->
                    IF ch \in chs \cap joined THEN @[ch] \cup {s.nick[u] : u \in us \cap wanted[ch]} ELSE @[ch]]]

\* bee_irc_channel_update() of chs for us: JOIN and PART if the user is there.
Update(s, chs, us, wanted) ==
    [s EXCEPT
        !.members = [ch \in Channels |-> IF ch \in chs THEN (@[ch] \ us) \cup (us \cap wanted[ch]) ELSE @[ch]],
        !.view = [ch \in Channels |->
                    IF ch \in chs \cap joined
                    THEN (@[ch] \ {s.nick[u] : u \in us \cap s.members[ch]}) \cup {s.nick[u] : u \in us \cap wanted[ch]}
                    ELSE @[ch]]]

Visible(s, u) == \E ch \in joined : u \in s.members[ch]

\* Mutant: only the channels the user is in are looked at.
QuitJoined(s, us) ==
    [s EXCEPT !.members = [ch \in Channels |-> IF ch \in joined THEN @[ch] \ us ELSE @[ch]],
              !.view = [ch \in Channels |-> @[ch] \ {s.nick[u] : u \in {x \in us : Visible(s, x)}}]]

\* irc_user_quit(): one QUIT if it is in a channel the user is in
Quit(s, us) ==
    LET seen == {s.nick[u] : u \in {x \in us : Visible(s, x)}}
    IN  [s EXCEPT !.members = [ch \in Channels |-> @[ch] \ us],
                  !.view = [ch \in Channels |-> @[ch] \ seen]]

\* Mutant: the entry of the old nick stays in the hash table.
SetNickKeepsKey(s, u, new) ==
    LET old == s.nick[u]
    IN  [s EXCEPT !.nick[u] = new, !.hash[new] = u,
                  !.view = [ch \in Channels |->
                      IF Visible(s, u) /\ old \in @[ch] THEN (@[ch] \ {old}) \cup {new} ELSE @[ch]]]

\* Mutant: NICK only if the contact is in the main channel.
SetNickInDefault(s, u, new) ==
    LET old == s.nick[u]
    IN  [s EXCEPT !.nick[u] = new, !.hash = [@ EXCEPT ![old] = None, ![new] = u],
                  !.view = [ch \in Channels |->
                      IF Default \in joined /\ u \in s.members[Default] /\ old \in @[ch]
                      THEN (@[ch] \ {old}) \cup {new} ELSE @[ch]]]

\* irc_user_set_nick(): a NICK line renames the user wherever the client shows it.
SetNick(s, u, new) ==
    LET old == s.nick[u]
    IN  [nick |-> [s.nick EXCEPT ![u] = new],
         hash |-> [s.hash EXCEPT ![old] = None, ![new] = u],
         members |-> s.members,
         view |-> [ch \in Channels |->
             IF Visible(s, u) /\ old \in s.view[ch] THEN (s.view[ch] \ {old}) \cup {new} ELSE s.view[ch]]]

\* nick_dedupe(): the first nick from n on that no one else has
FirstFree(s, u, n) ==
    CHOOSE m \in n..MaxNick : /\ s.hash[m] \in {None, u}
                              /\ \A k \in n..MaxNick : s.hash[k] \in {None, u} => m <= k

\* nick_get(): the saved nick or a generated one
NickFor(s, u, h, generated) == FirstFree(s, u, IF saved[h] # None THEN saved[h] ELSE generated)

\* bee_irc_user_nick_update() of a contact that is offline
NickUpdate(s, u, h, generated) ==
    IF saved[h] # None THEN s
    ELSE LET new == FirstFree(s, u, generated) IN IF new = s.nick[u] THEN s ELSE SetNick(s, u, new)

\* irc_user_free() of us
Forget(s, us) ==
    LET q == Quit(s, us)
    IN  [q EXCEPT !.nick = [u \in DOMAIN @ |-> IF u \in us THEN 0 ELSE @[u]],
                  !.hash = [n \in Nicks |-> IF n \in {s.nick[u] : u \in us} THEN None ELSE @[n]]]

Of(h) == {u \in users : handle[u] = h}

-----------------------------------------------------------------------------
(* The account's connection *)

\* bee_irc_user_group(): it is offline for a moment, in which its nick may change.
Regroup(s, u, h, us, groups, generated) ==
    LET away == Update(s, joined, {u}, Wanted(us, groups, online \ {u}, fill, shows))
    IN  Update(NickUpdate(away, u, h, generated), joined, {u}, Wanted(us, groups, online, fill, shows))

\* bee_user_new(), bee_irc_user_new() and the status that goes with it; if it
\* is called by imcb_add_buddy() the group follows.
UserNew(u, h, g, generated) ==
    /\ u \notin users /\ Of(h) = {}
    /\ users' = users \cup {u}
    /\ handle' = [handle EXCEPT ![u] = h]
    /\ group' = [group EXCEPT ![u] = g]
    /\ LET n == NickFor(Now, u, h, generated)
           named == [nick |-> [nick EXCEPT ![u] = n], hash |-> [hash EXCEPT ![n] = u],
                     members |-> members, view |-> view]
           new == Update(named, joined, {u}, Wanted(users', [group EXCEPT ![u] = None], online, fill, shows))
       IN  Becomes(IF g = None THEN new ELSE Regroup(new, u, h, users', group', generated))
    /\ UNCHANGED <<online, saved, settings, typed, target, unfilled>>

\* imcb_add_buddy() of a contact that is there
AddBuddy(u, g, generated) ==
    /\ u \in users /\ group[u] # g
    /\ group' = [group EXCEPT ![u] = g]
    /\ Becomes(Regroup(Now, u, handle[u], users, group', generated))
    /\ UNCHANGED <<users, handle, online, saved, settings, typed, target, unfilled>>

\* imcb_buddy_status(), bee_irc_user_status(); quits is offline_user_quits.
Status(u, on, quits) ==
    /\ u \in users /\ (u \in online) # on
    /\ online' = IF on THEN online \cup {u} ELSE online \ {u}
    /\ LET s == IF ~on /\ quits THEN Quit(Now, {u}) ELSE Now
       IN  Becomes(Update(s, joined, {u}, Wanted(users, group, online', fill, shows)))
    /\ UNCHANGED <<users, handle, group, saved, settings, typed, target, unfilled>>

\* imcb_buddy_nick_hint(), imcb_rename_buddy()
NickHint(u, generated) ==
    /\ u \in users \ online
    /\ Becomes(NickUpdate(Now, u, handle[u], generated))
    /\ UNCHANGED <<users, handle, group, online, saved, settings, typed, target, unfilled>>

\* Mutant: the timer of the paste buffer is not removed.
FreeKeepsPaste(us) ==
    /\ users' = users \ us /\ online' = online \ us
    /\ handle' = [u \in Users |-> IF u \in us THEN None ELSE handle[u]]
    /\ group' = [u \in Users |-> IF u \in us THEN None ELSE group[u]]
    /\ Becomes(Forget(Now, us))
    /\ UNCHANGED typed

\* bee_user_free() of us
Free(us) ==
    /\ users' = users \ us /\ online' = online \ us
    /\ handle' = [u \in Users |-> IF u \in us THEN None ELSE handle[u]]
    /\ group' = [u \in Users |-> IF u \in us THEN None ELSE group[u]]
    /\ Becomes(Forget(Now, us))
    /\ typed' = [u \in Users |-> IF u \in us THEN {} ELSE typed[u]]

\* imcb_remove_buddy()
RemoveBuddy(u) ==
    /\ u \in users
    /\ Free({u})
    /\ UNCHANGED <<saved, settings, target, unfilled>>

\* imc_logout()
Logout ==
    /\ users # {}
    /\ Free(users)
    /\ UNCHANGED <<saved, settings, target, unfilled>>

-----------------------------------------------------------------------------
(* Root commands *)

\* nick_del(): stored under the cleaned handle, removed under the raw one
NickDel(h) == IF h \in Unclean THEN saved ELSE [saved EXCEPT ![h] = None]

\* cmd_add() with a nick
AddNick(h, n) ==
    /\ hash[n] = None
    /\ saved' = [saved EXCEPT ![h] = n]
    /\ UNCHANGED <<users, handle, group, online, names, settings, typed, target, unfilled>>

\* cmd_remove().  The module tells its server first; if that loses the connection
\* imc_logout() frees all contacts and the nick is deleted of one that was freed,
\* which may find the nick, or not, or end the program.
Remove(u) ==
    /\ u \in users
    /\ \/ Free({u}) /\ saved' = NickDel(handle[u])
       \/ Free(users) /\ saved' \in {saved, NickDel(handle[u])}
    /\ UNCHANGED <<settings, target, unfilled>>

\* cmd_rename()
Rename(u, n) ==
    /\ u \in users /\ hash[n] \in {None, u}
    /\ Becomes(SetNick(Now, u, n))
    /\ saved' = [saved EXCEPT ![handle[u]] = n]
    /\ UNCHANGED <<users, handle, group, online, settings, typed, target, unfilled>>

\* `rename -del', bee_irc_user_nick_reset()
RenameDel(u, generated) ==
    /\ u \in users
    /\ saved' = NickDel(handle[u])
    /\ LET new == FirstFree(Now, u, generated)
       IN  Becomes(IF saved'[handle[u]] # None \/ new = nick[u] THEN Now ELSE SetNick(Now, u, new))
    /\ UNCHANGED <<users, handle, group, online, settings, typed, target, unfilled>>

-----------------------------------------------------------------------------
(* The client *)

\* irc_cmd_nick() after the login
Nick(n) ==
    /\ hash[n] = None
    /\ Becomes(SetNick(Now, Me, n))
    /\ UNCHANGED <<users, handle, group, online, saved, settings, typed, target, unfilled>>

\* NAMES, when the user has joined
Shown(s, ch) == [s EXCEPT !.view[ch] = {s.nick[u] : u \in s.members[ch]}]

\* irc_cmd_join(); a new channel is filled by the group, protocol or account it is
\* named after.
Join(ch, f) ==
    /\ ch \notin joined
    /\ f = fill[ch] \/ (fill[ch] = None /\ f # "ungrouped")
    /\ fill' = [fill EXCEPT ![ch] = f]
    /\ Becomes(Shown(Update(Now, {ch}, users, Wanted(users, group, online, fill', shows)), ch))
    /\ joined' = joined \cup {ch}
    /\ unfilled' = unfilled \ {ch}
    /\ UNCHANGED <<users, handle, group, online, saved, shows, typed, target>>

\* irc_cmd_part(), irc_channel_del_user()
Part(ch) ==
    /\ ch \in joined
    /\ joined' = joined \ {ch}
    /\ members' = [members EXCEPT ![ch] = {}]
    /\ view' = [view EXCEPT ![ch] = {}]
    /\ unfilled' = unfilled \ {ch}
    /\ UNCHANGED <<users, handle, group, online, nick, hash, saved, fill, shows, typed, target>>

\* irc_channel_auto_joins() when an account is logged in, which for Jabber is after
\* its contacts were added: it does not call ic->f->join(), which fills the channel.
AutoJoin(ch) ==
    /\ ch \notin joined /\ fill[ch] # None
    /\ Becomes(Shown(Now, ch))
    /\ joined' = joined \cup {ch}
    /\ unfilled' = IF users = {} THEN unfilled ELSE unfilled \cup {ch}
    /\ UNCHANGED <<users, handle, group, online, saved, fill, shows, typed, target>>

\* `channel del'
ChannelDel(ch) ==
    /\ ch \notin joined \cup {Default} /\ fill[ch] # None
    /\ fill' = [fill EXCEPT ![ch] = None]
    /\ shows' = shows \ {ch}
    /\ members' = [members EXCEPT ![ch] = {}]
    /\ target' = [target EXCEPT ![ch] = None]
    /\ UNCHANGED <<users, handle, group, online, nick, hash, view, saved, joined, typed, unfilled>>

\* set_eval_fill_by(), set_eval_by_group()
SetFillBy(ch, f) ==
    /\ ch \in Configured /\ fill[ch] \notin {None, f}
    /\ fill' = [fill EXCEPT ![ch] = f]
    /\ Becomes(Update(Now, {ch}, users, Wanted(users, group, online, fill', shows)))
    /\ unfilled' = unfilled \ {ch}
    /\ UNCHANGED <<users, handle, group, online, saved, shows, joined, typed, target>>

\* set_eval_show_users(): with or without those that are offline
SetShowUsers(ch) ==
    /\ ch \in Configured /\ fill[ch] # None
    /\ shows' = IF ch \in shows THEN shows \ {ch} ELSE shows \cup {ch}
    /\ Becomes(Update(Now, {ch}, users, Wanted(users, group, online, fill, shows')))
    /\ unfilled' = unfilled \ {ch}
    /\ UNCHANGED <<users, handle, group, online, saved, fill, joined, typed, target>>

\* bee_irc_user_privmsg(): a line for the contact with the nick n
Privmsg(n) ==
    /\ Talked # {} /\ hash[n] \in users
    /\ typed' = [typed EXCEPT ![hash[n]] = @ \cup {handle[hash[n]]}]
    /\ UNCHANGED <<users, handle, group, online, names, saved, settings, target, unfilled>>

\* control_channel_privmsg() of `nick: text', also to the user himself
Address(ch, n) ==
    /\ ch \in joined \cap Talked /\ hash[n] # None
    /\ LET u == hash[n]
       IN  IF u \in users
           THEN target' = [target EXCEPT ![ch] = u] /\ typed' = [typed EXCEPT ![u] = @ \cup {handle[u]}]
           ELSE target' = [target EXCEPT ![ch] = None] /\ UNCHANGED typed
    /\ UNCHANGED <<users, handle, group, online, names, saved, settings, unfilled>>

\* The same of text without a name, when the pointer is in irc->users
Line(ch) ==
    /\ ch \in joined /\ target[ch] \in users
    /\ typed' = [typed EXCEPT ![target[ch]] = @ \cup {handle[target[ch]]}]
    /\ UNCHANGED <<users, handle, group, online, names, saved, settings, target, unfilled>>

\* bee_irc_user_privmsg_cb()
PasteFires(u) ==
    /\ typed[u] # {}
    /\ typed' = [typed EXCEPT ![u] = {}]
    /\ UNCHANGED <<users, handle, group, online, names, saved, settings, target, unfilled>>

-----------------------------------------------------------------------------
Next ==
    \/ \E u \in Users, g \in Groups \cup {None}, n \in Generated :
        AddBuddy(u, g, n) \/ \E h \in Handles : UserNew(u, h, g, n)
    \/ \E u \in Users, on, quits \in BOOLEAN : Status(u, on, quits)
    \/ \E u \in Users, n \in Generated : NickHint(u, n) \/ RenameDel(u, n)
    \/ \E u \in Users : RemoveBuddy(u) \/ Remove(u) \/ PasteFires(u)
    \/ Logout
    \/ \E h \in Handles, n \in Given : AddNick(h, n)
    \/ \E u \in Users, n \in Given : Rename(u, n)
    \/ \E n \in Given \cup {0} : Nick(n)
    \/ \E ch \in Channels, f \in Fills : Join(ch, f) \/ SetFillBy(ch, f)
    \/ \E ch \in Channels : Part(ch) \/ AutoJoin(ch) \/ ChannelDel(ch) \/ SetShowUsers(ch) \/ Line(ch)
    \/ \E n \in Nicks : Privmsg(n)
    \/ \E ch \in Channels, n \in Nicks : Address(ch, n)

Spec == Init /\ [][Next]_vars

-----------------------------------------------------------------------------
(* Properties *)

TypeOK ==
    /\ users \subseteq Users /\ online \subseteq users
    /\ handle \in [Users -> Handles \cup {None}]
    /\ group \in [Users -> Groups \cup {None}]
    /\ nick \in [Users \cup {Me} -> Nicks]
    /\ hash \in [Nicks -> Users \cup {Me, None}]
    /\ saved \in [Handles -> Nicks \cup {None}]
    /\ fill \in [Channels -> Fills \cup {None}]
    /\ shows \subseteq Channels /\ joined \subseteq Channels
    /\ members \in [Channels -> SUBSET users]
    /\ view \in [Channels -> SUBSET Nicks]
    /\ typed \in [Users -> SUBSET Handles]
    /\ target \in [Channels -> Users \cup {None}]
    /\ unfilled \subseteq joined

\* A nick leads to the contact that has it and to no one else, however nicks are
\* generated, suggested, typed and freed, the user's own included.
NicksLeadToTheirUsers ==
    /\ \A u \in users \cup {Me} : hash[nick[u]] = u
    /\ \A n \in Nicks : hash[n] # None => hash[n] \in users \cup {Me} /\ nick[hash[n]] = n

\* The client shows exactly the contacts that are in the channel, under the nicks
\* they have now, although most lines are sent only if it can see them.
ViewIsRight ==
    \A ch \in Channels : view[ch] = IF ch \in joined THEN {nick[u] : u \in members[ch]} ELSE {}

\* A control channel the user is in holds the contacts its settings select, all
\* of them and no others, after any change of either; but for a channel that was
\* joined for the user while there were contacts, until its settings are changed or
\* the user joins it: contacts are missing in that, or are left from before.
ChannelsHoldWhoIsWanted ==
    \A ch \in joined \ unfilled : members[ch] = Wanted(users, group, online, fill, shows)[ch]

\* A line that waits in a paste buffer is sent to the contact whose nick or pointer
\* it was typed for, never to another one at the same address.
LinesReachTheAddressed == \A u \in Users : typed[u] \subseteq {handle[u]}

\* "By default, control channels will contain all your contacts": of the default
\* show_users, those that are online.
ChannelsContainAll == \A ch \in joined : fill[ch] = "all" => online \subseteq members[ch]

\* Lines without a nick go "to the last person you addressed in the control
\* channel": no contact is that from the moment it is there.
LastTargetWasAddressed ==
    [][\A u \in Users \ users, ch \in Channels : u \in users' => target'[ch] # u]_vars
=============================================================================
