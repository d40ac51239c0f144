---------------------------- MODULE SessionProofs ----------------------------
(***************************************************************************)
(* Proofs about Session, for any number of sessions, nicks, passwords and  *)
(* accounts: what a user who keeps to one session per nick can rely on.    *)
(***************************************************************************)
EXTENDS Session, TLAPS

Live(s) == life[s] \in {"running", "saving"}

\* With a login, a session knows all that its nick's file holds, unless it
\* identified with -noload.
KnowsItsFile(s) ==
    /\ file[nick[s]] # Null
    /\ noload[s] \/ file[nick[s]].accounts \subseteq accounts[s] \cup deleted[s]

\* What holds of each session.
SessionInv(s) ==
    /\ life[s] = "new" => nick[s] = Null /\ ~identified[s] /\ password[s] = Null
    /\ Live(s) => nick[s] # Null
    /\ identified[s] => password[s] # Null /\ nick[s] # Null
    /\ Live(s) /\ identified[s] => KnowsItsFile(s)
    /\ life[s] = "running" /\ ~identified[s] => password[s] = Null
    /\ saving[s] # Null <=> life[s] = "saving"
    /\ saving[s] # Null =>
         /\ password[s] # Null
         /\ saving[s].content.accounts = accounts[s]
         /\ identified[s] <=> saving[s].why # "register"
         /\ ~identified[s] => file[nick[s]] = Null

\* Two live sessions have different nicks.
OneSessionPerNick ==
    \A s, t \in Sessions : s # t /\ Live(s) /\ Live(t) => nick[s] # nick[t]

\* Neither the files nor the logins can be understood without the other: a save
\* loses nothing because the session knows its file, and it knows it because no
\* other session writes it.
IInv == TypeOK /\ OneSessionPerNick /\ \A s \in Sessions : SessionInv(s)

-----------------------------------------------------------------------------

LEMMA InitIInv == Init => IInv
  BY ConstantsAssumption
     DEF Init, IInv, TypeOK, OneSessionPerNick, SessionInv, Live, KnowsItsFile

\* A step of session s that leaves the files of the other nicks alone, and its
\* own nick unless nobody else uses the new one, concerns no other session.
LEMMA OthersKeepSessionInv ==
    ASSUME IInv, NEW s \in Sessions, NEW t \in Sessions, s # t,
           life'[t] = life[t], nick'[t] = nick[t], identified'[t] = identified[t],
           password'[t] = password[t], accounts'[t] = accounts[t],
           saving'[t] = saving[t], noload'[t] = noload[t], deleted'[t] = deleted[t],
           \/ file' = file
           \/ Live(s) /\ \E f \in File \cup {Null} : file' = [file EXCEPT ![nick[s]] = f]
    PROVE  SessionInv(t)'
  <1>1. SessionInv(t) /\ TypeOK /\ OneSessionPerNick
    BY DEF IInv
  <1>2. Live(t) => file'[nick[t]] = file[nick[t]]
    BY <1>1 DEF TypeOK, OneSessionPerNick, SessionInv
  <1>3. saving[t] # Null => Live(t)
    BY <1>1 DEF SessionInv, Live
  <1>. QED
    BY <1>1, <1>2, <1>3 DEF SessionInv, Live, KnowsItsFile

\* What is left to show of a step of s.
LEMMA StepKeepsIInv ==
    ASSUME IInv, NEW s \in Sessions, TypeOK', SessionInv(s)',
           \A t \in Sessions \ {s} :
               /\ life'[t] = life[t] /\ nick'[t] = nick[t] /\ identified'[t] = identified[t]
               /\ password'[t] = password[t] /\ accounts'[t] = accounts[t]
               /\ saving'[t] = saving[t] /\ noload'[t] = noload[t] /\ deleted'[t] = deleted[t],
           \/ file' = file
           \/ Live(s) /\ \E f \in File \cup {Null} : file' = [file EXCEPT ![nick[s]] = f],
           \/ nick'[s] = nick[s] /\ (Live(s)' => Live(s))
           \/ ~Live(s)'
           \/ \A t \in Sessions \ {s} : Live(t) => nick[t] # nick'[s]
    PROVE  IInv'
  <1>1. OneSessionPerNick'
    BY DEF IInv, OneSessionPerNick, Live
  <1>2. \A t \in Sessions \ {s} : SessionInv(t)'
    BY OthersKeepSessionInv
  <1>. QED  BY <1>1, <1>2 DEF IInv

LEMMA NickIInv ==
    ASSUME IInv, Alone, NEW s \in Sessions, NEW n \in Nicks,
           Connect(s, n) \/ ChangeNick(s, n)
    PROVE  IInv'
  <1>. USE ConstantsAssumption DEF IInv, TypeOK, SessionInv, Live, KnowsItsFile
  <1>1. CASE Connect(s, n)
    <2>1. TypeOK' /\ SessionInv(s)'
      BY <1>1 DEF Connect
    <2>2. \A t \in Sessions \ {s} : Live(t) => nick[t] # nick'[s]
      BY <1>1 DEF Connect, MayUse
    <2>. QED  BY <1>1, <2>1, <2>2, StepKeepsIInv DEF Connect
  <1>2. CASE ChangeNick(s, n)
    <2>1. TypeOK' /\ SessionInv(s)'
      BY <1>2 DEF ChangeNick, ForgetLogin, Running
    <2>2. \A t \in Sessions \ {s} : Live(t) => nick[t] # nick'[s]
      BY <1>2 DEF ChangeNick, MayUse
    <2>. QED  BY <1>2, <2>1, <2>2, StepKeepsIInv DEF ChangeNick, ForgetLogin
  <1>. QED  BY <1>1, <1>2

LEMMA LoginIInv ==
    ASSUME IInv, NEW s \in Sessions, NEW p \in Passwords,
           \/ IdentifyAndLoad(s, p) \/ IdentifyNoLoad(s, p)
           \/ SetPassword(s, p) \/ Drop(s, p)
    PROVE  IInv'
  <1>. USE ConstantsAssumption DEF IInv, TypeOK, SessionInv, Live, KnowsItsFile
  <1>1. CASE IdentifyAndLoad(s, p)
    <2>1. PICK X \in SUBSET (file[nick[s]].accounts \ Unloadable) :
            /\ Loads(s) => X = file[nick[s]].accounts \ Unloadable
            /\ accounts' = [accounts EXCEPT ![s] = @ \cup X]
            /\ deleted' = [deleted EXCEPT ![s] = @ \ X]
      BY <1>1 DEF IdentifyAndLoad
    <2>2. file[nick[s]] \in File /\ life[s] = "running" /\ ~identified[s] /\ saving[s] = Null
      BY <1>1 DEF IdentifyAndLoad, Correct, Running
    <2>3. X \subseteq IMAccounts /\ (Loads(s) => X = file[nick[s]].accounts)
      BY <2>1, <2>2 DEF Loads, File
    <2>4. TypeOK'
      <3>1. /\ accounts' \in [Sessions -> SUBSET IMAccounts]
            /\ deleted' \in [Sessions -> SUBSET IMAccounts]
        BY <2>1, <2>3
      <3>2. /\ identified' \in [Sessions -> BOOLEAN]
            /\ password' \in [Sessions -> Passwords \cup {Null}]
        <4>1. CASE Loads(s)
          <5>1. /\ identified' = [identified EXCEPT ![s] = TRUE]
                /\ password' = [password EXCEPT ![s] = p]
            BY <1>1, <4>1 DEF IdentifyAndLoad, SetLogin
          <5>2. identified' \in [Sessions -> BOOLEAN]
            BY <5>1
          <5>3. password' \in [Sessions -> Passwords \cup {Null}]
            BY <5>1
          <5>. QED  BY <5>2, <5>3
        <4>2. CASE ~Loads(s)
          BY <1>1, <4>2 DEF IdentifyAndLoad
        <4>. QED  BY <4>1, <4>2
      <3>3. noload' \in [Sessions -> BOOLEAN]
        BY <1>1 DEF IdentifyAndLoad
      <3>. QED  BY <1>1, <3>1, <3>2, <3>3 DEF IdentifyAndLoad
    <2>5. /\ identified'[s] => Loads(s) /\ password'[s] = p
          /\ ~identified'[s] => password'[s] = password[s]
          /\ life'[s] = "running" /\ nick'[s] = nick[s] /\ file' = file /\ saving'[s] = Null
      BY <1>1, <2>2 DEF IdentifyAndLoad, SetLogin
    <2>6. Loads(s) => file[nick[s]].accounts \subseteq accounts'[s]
      BY <2>1, <2>3
    <2>7. SessionInv(s)'
      BY <2>2, <2>5, <2>6
    <2>8. \A t \in Sessions \ {s} :
            /\ life'[t] = life[t] /\ nick'[t] = nick[t] /\ identified'[t] = identified[t]
            /\ password'[t] = password[t] /\ accounts'[t] = accounts[t]
            /\ saving'[t] = saving[t] /\ noload'[t] = noload[t] /\ deleted'[t] = deleted[t]
      BY <1>1, <2>1 DEF IdentifyAndLoad, SetLogin
    <2>. QED  BY <2>2, <2>4, <2>5, <2>7, <2>8, StepKeepsIInv
  <1>2. CASE IdentifyNoLoad(s, p)
    <2>1. TypeOK' /\ SessionInv(s)'
      BY <1>2 DEF IdentifyNoLoad, SetLogin, Correct, Running
    <2>. QED  BY <1>2, <2>1, StepKeepsIInv DEF IdentifyNoLoad, SetLogin
  <1>3. CASE SetPassword(s, p)
    <2>1. TypeOK' /\ SessionInv(s)'
      BY <1>3 DEF SetPassword, Running
    <2>. QED  BY <1>3, <2>1, StepKeepsIInv DEF SetPassword
  <1>4. CASE Drop(s, p)
    <2>1. TypeOK' /\ SessionInv(s)'
      BY <1>4 DEF Drop, ForgetLogin, Running
    <2>. QED  BY <1>4, <2>1, StepKeepsIInv DEF Drop, ForgetLogin, Running
  <1>. QED  BY <1>1, <1>2, <1>3, <1>4

LEMMA AccountsIInv ==
    ASSUME IInv, NEW s \in Sessions, NEW a \in IMAccounts,
           AddAccount(s, a) \/ DeleteAccount(s, a)
    PROVE  IInv'
  <1>. USE ConstantsAssumption DEF IInv, TypeOK, SessionInv, Live, KnowsItsFile
  <1>1. CASE AddAccount(s, a)
    <2>1. TypeOK' /\ SessionInv(s)'
      BY <1>1 DEF AddAccount, Running
    <2>. QED  BY <1>1, <2>1, StepKeepsIInv DEF AddAccount
  <1>2. CASE DeleteAccount(s, a)
    <2>1. TypeOK' /\ SessionInv(s)'
      BY <1>2 DEF DeleteAccount, Running
    <2>. QED  BY <1>2, <2>1, StepKeepsIInv DEF DeleteAccount
  <1>. QED  BY <1>1, <1>2

LEMMA BeginSaveIInv ==
    ASSUME IInv, NEW s \in Sessions, NEW p \in Passwords, NEW why \in Reasons,
           Register(s, p) \/ Save(s, why)
    PROVE  IInv'
  <1>. USE ConstantsAssumption DEF IInv, TypeOK, SessionInv, Live, KnowsItsFile
  <1>1. CASE Register(s, p)
    <2>1. [why |-> "register", content |-> [password |-> p, accounts |-> accounts[s]]] \in Saves
      BY DEF Saves, Reasons, File
    <2>2. TypeOK' /\ SessionInv(s)'
      BY <1>1, <2>1 DEF Register, WriteTemporary, Running
    <2>. QED  BY <1>1, <2>2, StepKeepsIInv DEF Register, WriteTemporary, Running
  <1>2. CASE Save(s, why)
    <2>1. [why |-> why, content |-> [password |-> password[s], accounts |-> accounts[s]]] \in Saves
      BY <1>2 DEF Saves, Reasons, File, Save, Running
    <2>2. TypeOK' /\ SessionInv(s)'
      BY <1>2, <2>1 DEF Save, WriteTemporary, Running, session
    <2>. QED  BY <1>2, <2>2, StepKeepsIInv DEF Save, WriteTemporary, Running, session
  <1>. QED  BY <1>1, <1>2

LEMMA EndSaveIInv ==
    ASSUME IInv, NEW s \in Sessions,
           Saved(s) \/ NotSaved(s) \/ End(s) \/ Recycle(s)
    PROVE  IInv'
  <1>. USE ConstantsAssumption DEF IInv, TypeOK, SessionInv, Live, KnowsItsFile
  <1>1. CASE Saved(s)
    <2>1. PICK c \in File : /\ c.accounts \subseteq saving[s].content.accounts
                            /\ file' = [file EXCEPT ![nick[s]] = c]
      BY <1>1 DEF Saved, MayReachDisk
    <2>2. TypeOK'
      BY <1>1, <2>1 DEF Saved, Resume
    <2>3. /\ file'[nick[s]] = c /\ c.accounts \subseteq accounts[s]
          /\ identified'[s] /\ password'[s] # Null /\ nick'[s] = nick[s] /\ nick[s] # Null
          /\ life'[s] \in {"running", "gone"} /\ saving'[s] = Null /\ accounts'[s] = accounts[s]
      <3>1. password[s] # Null
        BY <1>1 DEF Saved
      <3>. QED  BY <1>1, <2>1, <3>1 DEF Saved, Resume
    <2>4. SessionInv(s)'
      BY <2>1, <2>2, <2>3
    <2>. QED  BY <1>1, <2>1, <2>2, <2>4, StepKeepsIInv DEF Saved, Resume
  <1>2. CASE NotSaved(s)
    <2>1. TypeOK' /\ SessionInv(s)'
      BY <1>2 DEF NotSaved, Resume, Saves, Reasons
    <2>. QED  BY <1>2, <2>1, StepKeepsIInv DEF NotSaved, Resume
  <1>3. CASE End(s)
    <2>1. TypeOK' /\ SessionInv(s)'
      BY <1>3 DEF End, session
    <2>. QED  BY <1>3, <2>1, StepKeepsIInv DEF End, session
  <1>4. CASE Recycle(s)
    <2>1. TypeOK' /\ SessionInv(s)' /\ ~Live(s)'
      BY <1>4 DEF Recycle, ForgetLogin
    <2>2. \A t \in Sessions \ {s} :
            /\ life'[t] = life[t] /\ nick'[t] = nick[t] /\ identified'[t] = identified[t]
            /\ password'[t] = password[t] /\ accounts'[t] = accounts[t]
            /\ saving'[t] = saving[t] /\ noload'[t] = noload[t] /\ deleted'[t] = deleted[t]
      BY <1>4 DEF Recycle, ForgetLogin
    <2>3. file' = file
      BY <1>4 DEF Recycle
    <2>. QED  BY <2>1, <2>2, <2>3, StepKeepsIInv
  <1>. QED  BY <1>1, <1>2, <1>3, <1>4

LEMMA NextIInv == ASSUME Alone PROVE IInv /\ [Next]_vars => IInv'
  <1>. SUFFICES ASSUME IInv, [Next]_vars PROVE IInv'
    OBVIOUS
  <1>1. CASE UNCHANGED vars
    BY <1>1 DEF vars, session, IInv, TypeOK, OneSessionPerNick, SessionInv, Live, KnowsItsFile
  <1>2. CASE Next
    <2>1. PICK s \in Sessions :
            \/ \E n \in Nicks : Connect(s, n) \/ ChangeNick(s, n)
            \/ \E p \in Passwords :
                 \/ IdentifyAndLoad(s, p) \/ IdentifyNoLoad(s, p) \/ SetPassword(s, p)
                 \/ Drop(s, p)
            \/ \E p \in Passwords : Register(s, p)
            \/ \E a \in IMAccounts : AddAccount(s, a) \/ DeleteAccount(s, a)
            \/ \E why \in Reasons : Save(s, why)
            \/ Saved(s) \/ NotSaved(s) \/ End(s) \/ Recycle(s)
      BY <1>2 DEF Next
    <2>2. ASSUME NEW p \in Passwords, Register(s, p) PROVE IInv'
      BY <2>2, BeginSaveIInv DEF Reasons
    <2>3. ASSUME NEW why \in Reasons, Save(s, why) PROVE IInv'
      <3>1. PICK p \in Passwords : TRUE
        BY <2>3 DEF Save, IInv, TypeOK, SessionInv
      <3>. QED  BY <2>3, <3>1, BeginSaveIInv
    <2>. QED  BY <2>1, <2>2, <2>3, NickIInv, LoginIInv, AccountsIInv, EndSaveIInv
  <1>. QED  BY <1>1, <1>2

LEMMA AlwaysIInv == ASSUME Alone PROVE Spec => []IInv
  BY InitIInv, NextIInv, PTL DEF Spec

-----------------------------------------------------------------------------

\* Only a save that succeeds writes a file.
LEMMA FilesChange ==
    ASSUME IInv, Next, NEW n \in Nicks, file'[n] # file[n], file'[n] # Null
    PROVE  \E s \in Sessions : Saved(s)
  BY DEF Next, IInv, TypeOK, Connect, ChangeNick, IdentifyAndLoad, IdentifyNoLoad,
         SetPassword, Drop, Register, AddAccount, DeleteAccount, Save, NotSaved, End, Recycle

\* The variables keep their types, and nothing is saved without a password.
THEOREM SavesHaveAPassword == ASSUME Alone PROVE Spec => []TypeOK
  BY AlwaysIInv, PTL DEF IInv

\* USTATUS_IDENTIFIED and irc->password go together.
THEOREM LoginHasItsPassword == ASSUME Alone PROVE Spec => []IdentifiedWithPassword
  <1>1. IInv => IdentifiedWithPassword
    BY DEF IInv, TypeOK, SessionInv, IdentifiedWithPassword, Live
  <1>. QED  BY AlwaysIInv, <1>1, PTL

\* Nothing that was saved is lost, by users who keep to one session per nick, on
\* a disk that keeps what it was given.
THEOREM NothingSavedIsLost == ASSUME Alone, Synced PROVE Spec => SavedAccountsAreKept
  <1>. DEFINE Kept(n) == file[n] # Null /\ file'[n] # Null =>
                \A a \in file[n].accounts \ file'[n].accounts :
                    \E s \in Sessions : /\ nick[s] = n /\ life[s] = "saving"
                                         /\ (noload[s] \/ a \in deleted[s])
  <1>1. IInv /\ [Next]_vars => [\A n \in Nicks : Kept(n)]_vars
    <2>. SUFFICES ASSUME IInv, Next, NEW n \in Nicks, file'[n] # file[n], file'[n] # Null, file[n] # Null
         PROVE  Kept(n)
      OBVIOUS
    <2>1. PICK s \in Sessions : Saved(s)
      BY FilesChange
    <2>2. nick[s] = n /\ life[s] = "saving" /\ saving[s] # Null /\ identified[s]
      BY <2>1 DEF Saved, IInv, TypeOK, SessionInv, Live
    <2>a. file'[n].accounts = accounts[s]
      BY <2>1, <2>2 DEF Saved, MayReachDisk, IInv, TypeOK, SessionInv
    <2>3. noload[s] \/ file[n].accounts \subseteq accounts[s] \cup deleted[s]
      BY <2>2 DEF IInv, SessionInv, Live, KnowsItsFile
    <2>. QED  BY <2>2, <2>a, <2>3
  <1>. QED  BY AlwaysIInv, <1>1, PTL DEF Spec, SavedAccountsAreKept

\* A dropped nick has no file until somebody registers it again, while nobody has
\* a second session of it: one that is identified brings the file back when it
\* saves.
THEOREM DropIsFinal == ASSUME Alone PROVE Spec => DroppedStaysDropped
  <1>. DEFINE Registered(n) == file[n] = Null /\ file'[n] # Null =>
          \E s \in Sessions : nick[s] = n /\ saving[s] # Null /\ saving[s].why = "register"
  <1>1. IInv /\ [Next]_vars => [\A n \in Nicks : Registered(n)]_vars
    <2>. SUFFICES ASSUME IInv, Next, NEW n \in Nicks, file[n] = Null, file'[n] # Null
         PROVE  Registered(n)
      OBVIOUS
    <2>1. PICK s \in Sessions : Saved(s)
      BY FilesChange
    <2>. QED
      BY <2>1 DEF Saved, IInv, TypeOK, SessionInv, Live, KnowsItsFile
  <1>. QED  BY AlwaysIInv, <1>1, PTL DEF Spec, DroppedStaysDropped
=============================================================================
