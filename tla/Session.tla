------------------------------- MODULE Session -------------------------------
(***************************************************************************)
(* Registered users: the identify, register, drop, save, set password and  *)
(* /NICK commands of a session, storage.c, and the files of storage_xml.c. *)
(* Every session is a process of its own (ForkDaemon mode) and they share  *)
(* the files, so a save is two steps: the new file is written under a      *)
(* temporary name, and renamed.  The process can be killed in between.     *)
(***************************************************************************)
EXTENDS Naturals, FiniteSets

CONSTANTS
    Sessions, Nicks, Passwords, Null,
    IMAccounts,      \* what a user saves: IM accounts
    Unloadable,      \* those that this build refuses to load, for example
                     \* because it lacks the protocol
    Alone,           \* the users keep to one session per nick
    Synced           \* fsync() and close() report no error, so that all that
                     \* write() took is in the file

\* The contents of a file, and what xml_save() is writing.
File == [password : Passwords, accounts : SUBSET IMAccounts]
Reasons == {"register", "save", "quit"}
Saves == [why : Reasons, content : File]

ASSUME ConstantsAssumption ==
    /\ Null \notin Nicks \cup Passwords /\ Null \notin File /\ Null \notin Saves
    /\ Unloadable \subseteq IMAccounts /\ Alone \in BOOLEAN /\ Synced \in BOOLEAN

VARIABLES
    file,            \* the XML file of a nick, or Null
    life,            \* "new", "running", "saving" or "gone"
    nick, identified, password, accounts,
    saving,          \* what xml_save() of this session is writing
    noload,          \* history: identified with -noload
    deleted          \* history: the accounts the user deleted or never loaded

session == <<nick, identified, password, accounts>>
vars == <<file, life, session, saving, noload, deleted>>

Running(s) == life[s] = "running"

Init ==
    /\ file \in [Nicks -> File \cup {Null}]
    /\ life = [s \in Sessions |-> "new"]
    /\ nick = [s \in Sessions |-> Null]
    /\ identified = [s \in Sessions |-> FALSE]
    /\ password = [s \in Sessions |-> Null]
    /\ accounts = [s \in Sessions |-> {}]
    /\ saving = [s \in Sessions |-> Null]
    /\ noload = [s \in Sessions |-> FALSE]
    /\ deleted = [s \in Sessions |-> {}]

\* Under Alone, no other live session has the nick.
MayUse(s, n) ==
    Alone => \A t \in Sessions \ {s} : nick[t] = n => life[t] = "gone"

-----------------------------------------------------------------------------

Connect(s, n) ==
    /\ life[s] = "new" /\ MayUse(s, n)
    /\ life' = [life EXCEPT ![s] = "running"]
    /\ nick' = [nick EXCEPT ![s] = n]
    /\ UNCHANGED <<file, identified, password, accounts, saving, noload, deleted>>

SetLogin(s, p) ==
    /\ identified' = [identified EXCEPT ![s] = TRUE]
    /\ password' = [password EXCEPT ![s] = p]

\* Does xml_check_pass() accept the password?
Correct(s, p) == file[nick[s]] # Null /\ file[nick[s]].password = p

\* Mutant: an error after the password was accepted is not reported.
Ignored(s) == TRUE

\* Does xml_load() get through the file?
Loads(s) == file[nick[s]].accounts \cap Unloadable = {}

\* identify, and identify -force, which adds to the accounts there are.  What
\* was loaded before an error stays.
IdentifyAndLoad(s, p) ==
    /\ Running(s) /\ ~identified[s] /\ Correct(s, p)
    /\ \E X \in SUBSET (file[nick[s]].accounts \ Unloadable) :
         /\ Loads(s) => X = file[nick[s]].accounts \ Unloadable
         /\ accounts' = [accounts EXCEPT ![s] = @ \cup X]
         /\ deleted' = [deleted EXCEPT ![s] = @ \ X]
    /\ IF Loads(s) THEN SetLogin(s, p) ELSE UNCHANGED <<identified, password>>
    /\ noload' = [noload EXCEPT ![s] = FALSE]
    /\ UNCHANGED <<file, life, nick, saving>>

\* identify -noload
IdentifyNoLoad(s, p) ==
    /\ Running(s) /\ ~identified[s] /\ Correct(s, p)
    /\ SetLogin(s, p)
    /\ noload' = [noload EXCEPT ![s] = TRUE]
    /\ UNCHANGED <<file, life, nick, accounts, saving, deleted>>

\* Mutant: only the password is forgotten.
ForgetPassword(s) ==
    password' = [password EXCEPT ![s] = Null] /\ UNCHANGED identified

\* USTATUS_IDENTIFIED goes together with the password that saves need.
ForgetLogin(s) ==
    /\ password' = [password EXCEPT ![s] = Null]
    /\ identified' = [identified EXCEPT ![s] = FALSE]

\* NICK.  The accounts stay.
ChangeNick(s, n) ==
    /\ Running(s) /\ n # nick[s] /\ MayUse(s, n)
    /\ nick' = [nick EXCEPT ![s] = n]
    /\ ForgetLogin(s)
    /\ UNCHANGED <<file, life, accounts, saving, noload, deleted>>

\* set password
SetPassword(s, p) ==
    /\ Running(s) /\ identified[s]
    /\ password' = [password EXCEPT ![s] = p]
    /\ UNCHANGED <<file, life, nick, identified, accounts, saving, noload, deleted>>

\* account add
AddAccount(s, a) ==
    /\ Running(s) /\ a \notin accounts[s] \cup Unloadable
    /\ accounts' = [accounts EXCEPT ![s] = @ \cup {a}]
    /\ deleted' = [deleted EXCEPT ![s] = @ \ {a}]
    /\ UNCHANGED <<file, life, nick, identified, password, saving, noload>>

\* account del
DeleteAccount(s, a) ==
    /\ Running(s) /\ a \in accounts[s]
    /\ accounts' = [accounts EXCEPT ![s] = @ \ {a}]
    /\ deleted' = [deleted EXCEPT ![s] = @ \cup {a}]
    /\ UNCHANGED <<file, life, nick, identified, password, saving, noload>>

\* Mutant: drop leaves the session identified.
RemoveOnly(s, p) ==
    /\ Running(s) /\ Correct(s, p)
    /\ file' = [file EXCEPT ![nick[s]] = Null]
    /\ UNCHANGED <<life, session, saving, noload, deleted>>

\* drop
Drop(s, p) ==
    /\ Running(s) /\ Correct(s, p)
    /\ file' = [file EXCEPT ![nick[s]] = Null]
    /\ ForgetLogin(s)
    /\ UNCHANGED <<life, nick, accounts, saving, noload, deleted>>

-----------------------------------------------------------------------------
(* storage_save() and xml_save()                                           *)

WriteTemporary(s, p, why) ==
    /\ life' = [life EXCEPT ![s] = "saving"]
    /\ saving' = [saving EXCEPT ![s] =
           [why |-> why, content |-> [password |-> p, accounts |-> accounts[s]]]]

\* register: only if there is no file of that name yet.  storage_save() keeps
\* the password while it writes.
Register(s, p) ==
    /\ Running(s) /\ password[s] = Null /\ file[nick[s]] = Null
    /\ WriteTemporary(s, p, "register")
    /\ password' = [password EXCEPT ![s] = p]
    /\ UNCHANGED <<file, nick, identified, accounts, noload, deleted>>

\* save, and irc_free() if save_on_quit is on
Save(s, why) ==
    /\ Running(s) /\ identified[s] /\ why \in {"save", "quit"}
    /\ WriteTemporary(s, password[s], why)
    /\ UNCHANGED <<file, session, noload, deleted>>

\* The session goes on, or ends.
Resume(s) ==
    /\ life' = [life EXCEPT ![s] = IF saving[s].why = "quit" THEN "gone" ELSE "running"]
    /\ saving' = [saving EXCEPT ![s] = Null]
    /\ UNCHANGED <<nick, accounts, noload, deleted>>

\* fsync() and close() are not asked whether they succeeded: what rename() puts
\* in place may have been cut short.  The loader takes a file that ends too
\* early for a whole one (a file cut before the password is left out).
MayReachDisk(content) ==
    {c \in File : /\ c.password = content.password
                  /\ IF Synced THEN c.accounts = content.accounts
                     ELSE c.accounts \subseteq content.accounts}

\* rename(); cmd_register() keeps what was registered.
Saved(s) ==
    /\ life[s] = "saving"
    /\ \E c \in MayReachDisk(saving[s].content) : file' = [file EXCEPT ![nick[s]] = c]
    /\ identified' = [identified EXCEPT ![s] = @ \/ saving[s].why = "register"]
    /\ UNCHANGED password
    /\ Resume(s)

\* A write, or the rename(), fails.  A failed write frees pass_buf twice, so the
\* process may as well crash: End.
NotSaved(s) ==
    /\ life[s] = "saving"
    /\ password' = [password EXCEPT ![s] = IF saving[s].why = "register" THEN Null ELSE @]
    /\ UNCHANGED <<file, identified>>
    /\ Resume(s)

\* irc_free() without a save; or the process is killed.
End(s) ==
    /\ life[s] \in {"running", "saving"}
    /\ life' = [life EXCEPT ![s] = "gone"]
    /\ saving' = [saving EXCEPT ![s] = Null]
    /\ UNCHANGED <<file, session, noload, deleted>>

\* Someone else connects to what was this session's slot.
Recycle(s) ==
    /\ life[s] = "gone"
    /\ life' = [life EXCEPT ![s] = "new"]
    /\ nick' = [nick EXCEPT ![s] = Null]
    /\ accounts' = [accounts EXCEPT ![s] = {}]
    /\ ForgetLogin(s)
    /\ noload' = [noload EXCEPT ![s] = FALSE]
    /\ deleted' = [deleted EXCEPT ![s] = {}]
    /\ UNCHANGED <<file, saving>>

Next == \E s \in Sessions :
    \/ \E n \in Nicks : Connect(s, n) \/ ChangeNick(s, n)
    \/ \E p \in Passwords :
         \/ IdentifyAndLoad(s, p) \/ IdentifyNoLoad(s, p) \/ SetPassword(s, p)
         \/ Drop(s, p) \/ Register(s, p)
    \/ \E a \in IMAccounts : AddAccount(s, a) \/ DeleteAccount(s, a)
    \/ \E why \in Reasons : Save(s, why)
    \/ Saved(s) \/ NotSaved(s) \/ End(s) \/ Recycle(s)

Spec == Init /\ [][Next]_vars

-----------------------------------------------------------------------------

\* The variables have their types; in particular what is saved always has a
\* password: xml_save() takes the length of irc->password.
TypeOK ==
    /\ file \in [Nicks -> File \cup {Null}]
    /\ life \in [Sessions -> {"new", "running", "saving", "gone"}]
    /\ nick \in [Sessions -> Nicks \cup {Null}]
    /\ identified \in [Sessions -> BOOLEAN]
    /\ password \in [Sessions -> Passwords \cup {Null}]
    /\ accounts \in [Sessions -> SUBSET IMAccounts]
    /\ saving \in [Sessions -> Saves \cup {Null}]
    /\ noload \in [Sessions -> BOOLEAN]
    /\ deleted \in [Sessions -> SUBSET IMAccounts]

\* A session is identified when and only when it has the password to save with,
\* except while register writes; only a live session that has a nick is.
\* cmd_save(), irc_free() and xml_save() test one and use the other.
IdentifiedWithPassword ==
    \A s \in Sessions :
        /\ identified[s] => password[s] # Null /\ nick[s] # Null
        /\ password[s] # Null /\ ~identified[s] /\ life[s] # "gone" =>
               saving[s] # Null /\ saving[s].why = "register"

\* Accounts disappear from a nick's file only when the user deleted them or
\* identified with -noload: a file that loads in part, nick changes, failed and
\* interrupted saves lose nothing.  Holds for users who keep to one session, on
\* a disk that keeps what it was given.
SavedAccountsAreKept ==
    [][\A n \in Nicks : file[n] # Null /\ file'[n] # Null =>
          \A a \in file[n].accounts \ file'[n].accounts :
              \E s \in Sessions : /\ nick[s] = n /\ life[s] = "saving"
                                   /\ (noload[s] \/ a \in deleted[s])]_vars

\* The help of `drop': "Your account files will be removed and your password
\* will be forgotten".  Only register makes a file for a nick that has none.
\* Holds for users who keep to one session.
DroppedStaysDropped ==
    [][\A n \in Nicks : file[n] = Null /\ file'[n] # Null =>
          \E s \in Sessions : nick[s] = n /\ saving[s] # Null /\ saving[s].why = "register"]_vars
=============================================================================
