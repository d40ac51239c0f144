-------------------------- MODULE ConnectionProofs --------------------------
(***************************************************************************)
(* Proofs about Connection, for any number of sessions and clients.        *)
(***************************************************************************)
EXTENDS Connection, WellFoundedInduction, TLAPS

-----------------------------------------------------------------------------
(* What every session in the list is like between two handlers, and between *)
(* two lines of one.                                                        *)

Sound(r) ==
    /\ r \in Records
    /\ r.fd \in Clients
    /\ r.r = Event("read", r.fd)
    /\ r.w \in {None, Event("write", r.fd)}
    /\ r.ping \in {PingTimer, FreeTimer}
    /\ r.ev \subseteq {r.r, r.w, r.ping}
    /\ IF r.sendbuffer THEN r.w \in r.ev ELSE r.w = None
    /\ r.ended # "no" <=> FreeTimer \in r.ev

\* The client a PING waits for is the one it was sent to.
Good(r) == Sound(r) /\ (r.pinging => r.pinged)

\* What is left of a session that was freed.
Gone(r) == r \in Records /\ r.ev = {} /\ r.ended = "no"

Processes ==
    [irc : [Ircs -> Records], list : SUBSET Ircs, recvFd : Clients \cup {None},
     peers : SUBSET Clients, running : BOOLEAN]

GoodProcess(g) ==
    /\ g \in Processes
    /\ \A s \in g.list : Good(g.irc[s])
    /\ \A s \in Ircs \ g.list : Gone(g.irc[s])

IInv == GoodProcess(Process)

-----------------------------------------------------------------------------
(* One session *)

\* p is what r has become, by writing and the like.
Same(p, r) ==
    /\ p.fd = r.fd /\ p.ended = r.ended /\ p.status = r.status /\ p.given = r.given
    /\ p.pinging = r.pinging /\ p.pinged = r.pinged

LEMMA EventFacts ==
    /\ \A k \in Clients : Event("read", k) \in Events /\ Event("write", k) \in Events
    /\ PingTimer \in Events /\ FreeTimer \in Events /\ PingTimer # FreeTimer
    /\ \A k : Event("read", k) \notin {PingTimer, FreeTimer} /\ Event("write", k) \notin {PingTimer, FreeTimer}
    /\ \A k, o : Event("read", k) # Event("write", o)
    /\ None \notin Events
  <1>1. \A c, d, k, o : Event(c, k) = Event(d, o) => c = d
    BY DEF Event
  <1>2. \A k \in Clients : Event("read", k) \in Events /\ Event("write", k) \in Events
    BY DEF Events
  <1>3. PingTimer # FreeTimer
    BY <1>1 DEF PingTimer, FreeTimer
  <1>4. \A k : Event("read", k) \notin {PingTimer, FreeTimer} /\ Event("write", k) \notin {PingTimer, FreeTimer}
    BY <1>1 DEF PingTimer, FreeTimer
  <1>5. \A k, o : Event("read", k) # Event("write", o)
    BY <1>1
  <1>. QED  BY <1>2, <1>3, <1>4, <1>5, ConstantsAssumption DEF Events

LEMMA WriteSound ==
    ASSUME NEW r, Sound(r)
    PROVE  Sound(Write(r)) /\ Same(Write(r), r)
  <1>1. CASE r.w = None
    <2>. DEFINE e == Event("write", r.fd)
                p == [r EXCEPT !.sendbuffer = TRUE, !.w = e, !.ev = @ \cup {e}]
    <2>1. Write(r) = p
      BY <1>1 DEF Write
    <2>2. e \in Events /\ e # FreeTimer
      BY EventFacts DEF Sound
    <2>3. p \in Records /\ p.sendbuffer /\ p.w = e /\ p.ev = r.ev \cup {e}
      BY <2>2 DEF Sound, Records, Handles
    <2>4. /\ p.fd = r.fd /\ p.r = r.r /\ p.ping = r.ping /\ p.pinging = r.pinging
          /\ p.pinged = r.pinged /\ p.ended = r.ended /\ p.status = r.status /\ p.given = r.given
      BY DEF Sound, Records
    <2>. HIDE DEF p
    <2>5. /\ p.w \in {None, Event("write", p.fd)} /\ p.ev \subseteq {p.r, p.w, p.ping}
          /\ p.w \in p.ev /\ (FreeTimer \in p.ev <=> FreeTimer \in r.ev)
      <3>. HIDE DEF e
      <3>1. r.ev \subseteq {r.r, r.ping}
        BY <1>1, EventFacts DEF Sound, Records
      <3>. QED  BY <2>2, <2>3, <2>4, <3>1 DEF e
    <2>6. Sound(p)
      BY <2>3, <2>4, <2>5 DEF Sound
    <2>. QED  BY <2>1, <2>4, <2>6 DEF Same
  <1>2. CASE r.w # None
    BY <1>2, EventFacts DEF Sound, Write, Same, Records, Handles
  <1>. QED  BY <1>1, <1>2

LEMMA FlushSound ==
    ASSUME NEW r, Sound(r), NEW sent
    PROVE  Sound(Flush(r, sent)) /\ Same(Flush(r, sent), r)
  <1>1. CASE r.sendbuffer /\ sent = "all"
    <2>. DEFINE p == [r EXCEPT !.sendbuffer = FALSE, !.ev = @ \ {r.w}, !.w = None]
    <2>1. Flush(r, sent) = p
      BY <1>1 DEF Flush
    <2>2. p \in Records /\ ~p.sendbuffer /\ p.w = None /\ p.ev = r.ev \ {r.w}
      BY DEF Sound, Records, Handles
    <2>3. /\ p.fd = r.fd /\ p.r = r.r /\ p.ping = r.ping /\ p.pinging = r.pinging
          /\ p.pinged = r.pinged /\ p.ended = r.ended /\ p.status = r.status /\ p.given = r.given
      BY DEF Sound, Records
    <2>. HIDE DEF p
    <2>4. p.ev \subseteq {p.r, p.w, p.ping} /\ (FreeTimer \in p.ev <=> FreeTimer \in r.ev)
      BY <1>1, <2>2, <2>3, EventFacts DEF Sound
    <2>5. Sound(p)
      BY <2>2, <2>3, <2>4 DEF Sound
    <2>. QED  BY <2>1, <2>3, <2>5 DEF Same
  <1>2. CASE ~ (r.sendbuffer /\ sent = "all")
    BY <1>2 DEF Flush, Same
  <1>. QED  BY <1>1, <1>2

LEMMA AbortSound ==
    ASSUME NEW r, Sound(r), NEW why, NEW sent
    PROVE  LET p == Abort(r, why, sent)
           IN  /\ Sound(p)
               /\ p.fd = r.fd /\ p.status = r.status /\ p.given = r.given /\ p.pinging = r.pinging /\ p.pinged = r.pinged
               /\ FreeTimer \in p.ev
               /\ p.ended = IF why = "silent" THEN "silent" ELSE "other"
  <1>. DEFINE q == IF why = "takeover" THEN r ELSE Write(r)
              f == Flush(q, sent)
              e == IF why = "silent" THEN why ELSE "other"
              p == [f EXCEPT !.ev = (@ \ {f.ping}) \cup {FreeTimer}, !.ping = FreeTimer, !.ended = e]
  <1>1. Sound(q) /\ Same(q, r)
    BY WriteSound DEF Same
  <1>2. Sound(f) /\ Same(f, r)
    <2>. HIDE DEF q
    <2>. QED  BY <1>1, FlushSound DEF Same
  <1>3. Abort(r, why, sent) = p
    BY DEF Abort
  <1>. HIDE DEF f
  <1>4. e \in {"no", "silent", "other"} /\ e # "no" /\ e = IF why = "silent" THEN "silent" ELSE "other"
    OBVIOUS
  <1>. HIDE DEF e
  <1>5. p \in Records /\ p.ev = (f.ev \ {f.ping}) \cup {FreeTimer} /\ p.ping = FreeTimer /\ p.ended = e
    <2>. DEFINE left == (f.ev \ {f.ping}) \cup {FreeTimer}
    <2>1. f \in Records /\ FreeTimer \in Events /\ FreeTimer \in Handles
      BY <1>2, EventFacts DEF Sound, Handles
    <2>2. left \in SUBSET Events
      BY <2>1 DEF Records
    <2>3. p = [f EXCEPT !.ev = left, !.ping = FreeTimer, !.ended = e]
      BY <2>1 DEF Records
    <2>. HIDE DEF left, p
    <2>4. p \in Records /\ p.ev = left /\ p.ping = FreeTimer /\ p.ended = e
      BY <1>4, <2>1, <2>2, <2>3 DEF Records
    <2>. QED  BY <2>4 DEF left
  <1>6. /\ p.fd = f.fd /\ p.r = f.r /\ p.w = f.w /\ p.sendbuffer = f.sendbuffer /\ p.status = f.status /\ p.given = f.given
        /\ p.pinging = f.pinging /\ p.pinged = f.pinged
    BY <1>2 DEF Sound, Records
  <1>. HIDE DEF p
  <1>7. p.ev \subseteq {p.r, p.w, p.ping} /\ FreeTimer \in p.ev
    BY <1>2, <1>5, <1>6 DEF Sound
  <1>8. IF p.sendbuffer THEN p.w \in p.ev ELSE p.w = None
    BY <1>2, <1>5, <1>6, EventFacts DEF Sound
  <1>9. Sound(p)
    BY <1>2, <1>4, <1>5, <1>6, <1>7, <1>8 DEF Sound
  <1>. QED  BY <1>2, <1>3, <1>4, <1>5, <1>6, <1>7, <1>9 DEF Same

\* A session that takes a new client over keeps none of the old one's events.
LEMMA SwitchSound ==
    ASSUME NEW r, Sound(r), NEW k \in Clients
    PROVE  LET p == SwitchFd(r, k)
           IN  Sound(p) /\ p.fd = k /\ p.ended = r.ended /\ p.status = r.status /\ p.given = r.given
  <1>. DEFINE e == Event("read", k)
              p == SwitchFd(r, k)
  <1>1. e \in Events /\ e \notin {PingTimer, FreeTimer}
    BY EventFacts
  <1>2. /\ p \in Records /\ ~p.sendbuffer /\ p.w = None /\ p.fd = k /\ p.r = e
        /\ p.ev = (r.ev \ {r.r, r.w}) \cup {e}
    BY <1>1 DEF SwitchFd, Sound, Records, Handles
  <1>3. p.ping = r.ping /\ p.ended = r.ended /\ p.status = r.status /\ p.given = r.given
    BY DEF SwitchFd, Sound, Records
  <1>. HIDE DEF p
  <1>4. FreeTimer \in p.ev <=> FreeTimer \in r.ev
    <2>. HIDE DEF e
    <2>. QED  BY <1>1, <1>2, EventFacts DEF Sound
  <1>5. Sound(p)
    <2>1. p.ev \subseteq {p.r, p.w, p.ping}
      BY <1>2, <1>3 DEF Sound
    <2>. QED  BY <1>2, <1>3, <1>4, <2>1 DEF Sound
  <1>. QED  BY <1>2, <1>3, <1>5 DEF p

LEMMA TakenOverGood ==
    ASSUME NEW r, Good(r), NEW k \in Clients
    PROVE  LET p == Sync(SwitchFd(Write(r), k))
           IN  Good(p) /\ p.fd = k /\ p.ended = r.ended /\ p.status = r.status /\ p.given = r.given
  <1>. DEFINE q == SwitchFd(Write(r), k)
              v == Write(q)
              p == [v EXCEPT !.pinging = FALSE]
  <1>1. Sound(Write(r)) /\ Same(Write(r), r)
    BY WriteSound DEF Good
  <1>2. Sound(q) /\ q.fd = k /\ q.ended = r.ended /\ q.status = r.status /\ q.given = r.given
    BY <1>1, SwitchSound DEF Same
  <1>3. Sound(v) /\ v.fd = k /\ v.ended = r.ended /\ v.status = r.status /\ v.given = r.given
    <2>. HIDE DEF q
    <2>. QED  BY <1>2, WriteSound DEF Same
  <1>4. Sync(SwitchFd(Write(r), k)) = p
    BY DEF Sync
  <1>. HIDE DEF v
  <1>5. Good(p) /\ p.fd = v.fd /\ p.ended = v.ended /\ p.status = v.status /\ p.given = v.given
    BY <1>3 DEF Good, Sound, Records
  <1>. QED  BY <1>3, <1>4, <1>5

LEMMA MaxAgeFacts == MaxAge \in Nat \ {0} /\ MaxAge >= Interval /\ MaxAge >= Timeout
  <1>1. Interval \in Nat \ {0} /\ Timeout \in Nat \ {0} /\ LoginTimeout \in Nat \ {0}
    BY ConstantsAssumption
  <1>2. \E t \in {Interval, Timeout, LoginTimeout} : t >= Interval /\ t >= Timeout /\ t >= LoginTimeout
    BY <1>1
  <1>. QED  BY <1>1, <1>2 DEF MaxAge

LEMMA FreedGone == Gone(Freed)
  <1>1. 0 \in 0 .. MaxAge
    BY MaxAgeFacts
  <1>. QED  BY <1>1 DEF Freed, Records, Handles, Gone

\* irc_free() knows every event of a session.
LEMMA FreeGone ==
    ASSUME NEW r, Good(r)
    PROVE  Gone(Free(r))
  <1>1. r.ev \ {r.ping, r.r, r.w} = {}
    BY DEF Good, Sound
  <1>2. Free(r) = [Freed EXCEPT !.ev = {}]
    BY <1>1 DEF Free
  <1>. QED  BY <1>2, FreedGone DEF Gone, Records

LEMMA PongGood ==
    ASSUME NEW r, Good(r)
    PROVE  LET p == Pong(r)
           IN  Good(p) /\ p.fd = r.fd /\ p.ev = r.ev /\ p.ended = r.ended /\ p.status = r.status /\ p.given = r.given
  <1>1. 0 \in 0 .. MaxAge
    BY MaxAgeFacts
  <1>. QED  BY <1>1 DEF Pong, Good, Sound, Records

\* What most lines do to their session: it goes on, with its client.
Kept(p, r) == Good(p) /\ p.fd = r.fd /\ p.ended = r.ended

LEMMA WriteKept ==
    ASSUME NEW r, Good(r)
    PROVE  Kept(Write(r), r)
  BY WriteSound DEF Kept, Same, Good

LEMMA IdentifyKept ==
    ASSUME NEW r, Good(r), NEW old, NEW c \in Circumstances
    PROVE  Kept(Identify(r, old, c), r)
  <1>. DEFINE st == r.status \cup {"IDENTIFIED"}
              as == old # {} /\ c.allowed
              p == [r EXCEPT !.status = st, !.asked = as]
  <1>1. st \in SUBSET {"AUTHORIZED", "LOGGED_IN", "IDENTIFIED"} /\ as \in BOOLEAN
    BY DEF Good, Sound, Records, Circumstances
  <1>2. Identify(r, old, c) = IF "IDENTIFIED" \in r.status THEN Write(r) ELSE Write(p)
    BY DEF Identify
  <1>. HIDE DEF st, as
  <1>3. Good(p) /\ p.fd = r.fd /\ p.ended = r.ended
    BY <1>1 DEF Good, Sound, Records
  <1>. HIDE DEF p
  <1>. QED  BY <1>2, <1>3, WriteKept DEF Kept

LEMMA CheckLoginKept ==
    ASSUME NEW r, Good(r), NEW old, NEW c \in Circumstances
    PROVE  Kept(CheckLogin(r, old, c), r)
  <1>. DEFINE st == r.status \cup {"LOGGED_IN"}
              gv == r.given \ {"pass"}
              p == [r EXCEPT !.status = st, !.given = gv]
              in == Write(p)
  <1>1. st \in SUBSET {"AUTHORIZED", "LOGGED_IN", "IDENTIFIED"} /\ gv \in SUBSET {"user", "nick", "pass"}
    BY DEF Good, Sound, Records
  <1>2. \/ CheckLogin(r, old, c) = r
        \/ CheckLogin(r, old, c) = Write(r)
        \/ CheckLogin(r, old, c) = in
        \/ CheckLogin(r, old, c) = Identify(in, old, c)
    BY DEF CheckLogin
  <1>. HIDE DEF st, gv
  <1>3. Good(p) /\ p.fd = r.fd /\ p.ended = r.ended
    BY <1>1 DEF Good, Sound, Records
  <1>. HIDE DEF p
  <1>4. Good(in) /\ in.fd = r.fd /\ in.ended = r.ended
    BY <1>3, WriteKept DEF Kept
  <1>. HIDE DEF in
  <1>5. Kept(Identify(in, old, c), in)
    BY <1>4, IdentifyKept
  <1>. QED  BY <1>2, <1>4, <1>5, WriteKept DEF Kept

LEMMA RegisterKept ==
    ASSUME NEW r, Good(r), NEW line \in {"user", "nick", "pass"}, NEW old, NEW c \in Circumstances
    PROVE  Kept(Register(r, line, old, c), r)
  <1>. DEFINE st == r.status \cup {"AUTHORIZED"}
              gv == r.given \cup {line}
              p == [r EXCEPT !.status = st]
              q == [r EXCEPT !.given = gv]
  <1>1. st \in SUBSET {"AUTHORIZED", "LOGGED_IN", "IDENTIFIED"} /\ gv \in SUBSET {"user", "nick", "pass"}
    BY DEF Good, Sound, Records
  <1>2. \/ Register(r, line, old, c) = CheckLogin(p, old, c)
        \/ Register(r, line, old, c) = CheckLogin(q, old, c)
        \/ Register(r, line, old, c) = Identify(r, old, c)
        \/ Register(r, line, old, c) = Write(r)
        \/ Register(r, line, old, c) = r
    <2>1. CASE ~LoggedIn(r)
      BY <2>1 DEF Register
    <2>2. CASE LoggedIn(r)
      BY <2>2 DEF Register
    <2>. QED  BY <2>1, <2>2
  <1>. HIDE DEF st, gv
  <1>3. Good(p) /\ p.fd = r.fd /\ p.ended = r.ended /\ Good(q) /\ q.fd = r.fd /\ q.ended = r.ended
    BY <1>1 DEF Good, Sound, Records
  <1>. HIDE DEF p, q
  <1>4. Kept(CheckLogin(p, old, c), p) /\ Kept(CheckLogin(q, old, c), q)
    BY <1>3, CheckLoginKept
  <1>5. Kept(Identify(r, old, c), r) /\ Kept(Write(r), r)
    BY IdentifyKept, WriteKept
  <1>. QED  BY <1>2, <1>3, <1>4, <1>5 DEF Kept

\* What a look at the age of r makes of it.
Asked(p, r) ==
    /\ Good(p) /\ p.fd = r.fd
    /\ r.ended # "no" => p.ended # "no"
    /\ Interval <= Timeout /\ r.ended # "silent" /\ p.ended = "silent" => r.pinging

LEMMA PingedGood ==
    ASSUME NEW r, Good(r), NEW sent
    PROVE  Asked(Pinged(r, sent), r)
  <1>. DEFINE p == Pinged(r, sent)
  <1>0. Interval \in Nat /\ Timeout \in Nat /\ r.age \in Nat
    BY ConstantsAssumption, MaxAgeFacts DEF Good, Sound, Records
  <1>1. CASE LoggedIn(r) /\ r.age >= Interval /\ ~r.pinging
    <2>. DEFINE v == Write(r)
    <2>1. p = [v EXCEPT !.pinging = TRUE, !.pinged = TRUE]
      BY <1>0, <1>1 DEF Pinged
    <2>2. Kept(v, r)
      BY WriteKept
    <2>. HIDE DEF v
    <2>3. Good(p) /\ p.fd = v.fd /\ p.ended = v.ended
      BY <2>1, <2>2 DEF Kept, Good, Sound, Records
    <2>. QED  BY <2>2, <2>3 DEF Kept, Asked
  <1>2. CASE LoggedIn(r) /\ (r.age < Interval \/ r.pinging) /\ r.age >= Timeout
    <2>1. p = Abort(r, "silent", sent)
      BY <1>0, <1>2 DEF Pinged
    <2>2. Sound(r)
      BY DEF Good
    <2>3. /\ Sound(p) /\ p.fd = r.fd /\ p.pinging = r.pinging /\ p.pinged = r.pinged
          /\ p.ended = "silent"
      BY <2>1, <2>2, AbortSound
    <2>4. Interval <= Timeout => r.pinging
      BY <1>0, <1>2
    <2>. QED  BY <2>3, <2>4 DEF Good, Asked
  <1>3. CASE ~LoggedIn(r) /\ r.age >= LoginTimeout
    <2>1. p = Abort(r, "other", sent)
      BY <1>3 DEF Pinged
    <2>2. Sound(r)
      BY DEF Good
    <2>3. /\ Sound(p) /\ p.fd = r.fd /\ p.pinging = r.pinging /\ p.pinged = r.pinged
          /\ p.ended = "other"
      BY <2>1, <2>2, AbortSound
    <2>. QED  BY <2>3 DEF Good, Asked
  <1>4. CASE ~ \/ LoggedIn(r) /\ r.age >= Interval /\ ~r.pinging
               \/ LoggedIn(r) /\ (r.age < Interval \/ r.pinging) /\ r.age >= Timeout
               \/ ~LoggedIn(r) /\ r.age >= LoginTimeout
    <2>1. p = r
      BY <1>4 DEF Pinged
    <2>. QED  BY <2>1 DEF Asked
  <1>. QED  BY <1>1, <1>2, <1>3, <1>4

-----------------------------------------------------------------------------
(* The lines of one read() *)

\* The session that a takeover from s finds.
Found(g, s) == CHOOSE o \in Others(g, s) : TRUE

\* What lines of s may have done when they have turned g into h: none drops a
\* session for its silence; a session gets another client only if s found it
\* and hands its own client over, and then s is on its way out.
Along(g, h, s) ==
    /\ \A o \in Ircs : h.irc[o].ended = "silent" => g.irc[o].ended = "silent"
    /\ \/ h.list = {}
       \/ /\ h.list = g.list
          /\ h.irc[s].fd = g.irc[s].fd
          /\ \A o \in Ircs \ {s} : h.irc[o].status = g.irc[o].status /\ h.irc[o].given = g.irc[o].given
          /\ \A o \in g.list : g.irc[o].ended # "no" => h.irc[o].ended # "no"
          /\ \A o \in g.list : h.irc[o].fd # g.irc[o].fd =>
                /\ o = Found(g, s) /\ o # s
                /\ h.irc[o].fd = g.irc[s].fd /\ h.irc[s].ended # "no"

LEMMA AlongSelf ==
    ASSUME NEW g, NEW s \in Ircs
    PROVE  Along(g, g, s)
  BY DEF Along

LEMMA AlongTrans ==
    ASSUME NEW g, NEW h, NEW f, NEW s \in Ircs, GoodProcess(g), s \in h.list, Along(g, h, s), Along(h, f, s)
    PROVE  Along(g, f, s)
  <1>1. h.list = g.list /\ g.list \subseteq Ircs
    BY DEF Along, GoodProcess, Processes
  <1>2. Others(h, s) = Others(g, s)
    BY <1>1 DEF Along, Others, HasPassword
  <1>3. Found(h, s) = Found(g, s)
    BY <1>2 DEF Found
  <1>4. \A o \in Ircs : f.irc[o].ended = "silent" => g.irc[o].ended = "silent"
    BY DEF Along
  <1>5. CASE f.list = {}
    BY <1>4, <1>5 DEF Along
  <1>6. CASE f.list # {}
    <2>1. /\ f.list = h.list /\ f.irc[s].fd = h.irc[s].fd /\ h.irc[s].fd = g.irc[s].fd
          /\ \A o \in Ircs \ {s} : f.irc[o].status = h.irc[o].status /\ f.irc[o].given = h.irc[o].given /\ h.irc[o].status = g.irc[o].status /\ h.irc[o].given = g.irc[o].given
          /\ \A o \in g.list : g.irc[o].ended # "no" => h.irc[o].ended # "no"
          /\ \A o \in h.list : h.irc[o].ended # "no" => f.irc[o].ended # "no"
      BY <1>1, <1>6 DEF Along
    <2>2. ASSUME NEW o \in g.list, f.irc[o].fd # g.irc[o].fd
          PROVE  /\ o = Found(g, s) /\ o # s
                 /\ f.irc[o].fd = g.irc[s].fd /\ f.irc[s].ended # "no"
      <3>1. CASE f.irc[o].fd # h.irc[o].fd
        BY <1>1, <1>3, <1>6, <2>1, <3>1 DEF Along
      <3>2. CASE f.irc[o].fd = h.irc[o].fd
        <4>1. h.irc[o].fd # g.irc[o].fd
          BY <2>2, <3>2
        <4>. QED  BY <1>1, <1>6, <2>1, <3>2, <4>1 DEF Along
      <3>. QED  BY <3>1, <3>2
    <2>. QED  BY <1>1, <1>4, <2>1, <2>2 DEF Along
  <1>. QED  BY <1>5, <1>6

LEMMA WithTyped ==
    ASSUME NEW g \in Processes, NEW s \in Ircs, NEW r \in Records
    PROVE  LET h == With(g, s, r)
           IN  /\ h \in Processes /\ h.list = g.list /\ h.irc = [g.irc EXCEPT ![s] = r]
               /\ h.recvFd = g.recvFd /\ h.peers = g.peers /\ h.running = g.running
  BY DEF With, Processes

\* A line that changes only its own session.
LEMMA WithGood ==
    ASSUME NEW g, GoodProcess(g), NEW s \in g.list, NEW r, Good(r), r.fd = g.irc[s].fd,
           r.ended = "silent" => g.irc[s].ended = "silent",
           g.irc[s].ended # "no" => r.ended # "no"
    PROVE  GoodProcess(With(g, s, r)) /\ Along(g, With(g, s, r), s)
  <1>. DEFINE h == With(g, s, r)
  <1>1. g \in Processes /\ s \in Ircs /\ r \in Records /\ g.list \subseteq Ircs /\ DOMAIN g.irc = Ircs
    BY DEF GoodProcess, Processes, Good, Sound
  <1>2. h \in Processes /\ h.list = g.list /\ h.irc = [g.irc EXCEPT ![s] = r]
    BY <1>1, WithTyped
  <1>. HIDE DEF h
  <1>3. h.irc[s] = r /\ \A o \in Ircs \ {s} : h.irc[o] = g.irc[o]
    BY <1>1, <1>2
  <1>4. GoodProcess(h)
    BY <1>1, <1>2, <1>3 DEF GoodProcess
  <1>5. Along(g, h, s)
    BY <1>1, <1>2, <1>3 DEF Along
  <1>. QED  BY <1>4, <1>5 DEF h

LEMMA WithKept ==
    ASSUME NEW g, GoodProcess(g), NEW s \in g.list, NEW r, Kept(r, g.irc[s])
    PROVE  GoodProcess(With(g, s, r)) /\ Along(g, With(g, s, r), s)
  BY WithGood DEF Kept

LEMMA DieGood ==
    ASSUME NEW g, GoodProcess(g), NEW s \in g.list
    PROVE  GoodProcess(Die(g)) /\ Along(g, Die(g), s)
  <1>. DEFINE h == Die(g)
              after == [o \in Ircs |-> IF o \in g.list THEN Free(g.irc[o]) ELSE g.irc[o]]
  <1>1. g \in Processes /\ h = [g EXCEPT !.irc = after, !.list = {}, !.running = FALSE]
    BY DEF Die, GoodProcess
  <1>2. \A o \in Ircs : Gone(after[o])
    BY FreeGone DEF GoodProcess
  <1>3. after \in [Ircs -> Records]
    BY <1>2 DEF Gone
  <1>. HIDE DEF after
  <1>4. h \in Processes /\ h.irc = after /\ h.list = {}
    BY <1>1, <1>3 DEF Processes
  <1>. HIDE DEF h
  <1>5. GoodProcess(h)
    BY <1>2, <1>4 DEF GoodProcess
  <1>6. Along(g, h, s)
    BY <1>2, <1>4 DEF Along, Gone
  <1>. QED  BY <1>5, <1>6 DEF h

LEMMA YesGood ==
    ASSUME NEW g, GoodProcess(g), NEW s \in g.list, NEW c \in Circumstances
    PROVE  GoodProcess(Yes(g, s, c)) /\ Along(g, Yes(g, s, c), s)
  <1>. DEFINE r == g.irc[s]
              asked == [r EXCEPT !.asked = FALSE]
              new == Write(asked)
              o == Found(g, s)
              left == [new EXCEPT !.status = @ \ {"IDENTIFIED"}]
              gone == Abort(left, "takeover", c.sent)
              moved == Sync(SwitchFd(Write(g.irc[o]), Copied(g, new.fd)))
              open == Hangup(g.peers, {g.irc[o].fd}, g, g.list \ {o})
  <1>1. g \in Processes /\ s \in Ircs /\ g.list \subseteq Ircs /\ Good(r) /\ r \in Records
    BY DEF GoodProcess, Processes, Good, Sound
  <1>2. Good(asked) /\ asked.fd = r.fd /\ asked.ended = r.ended
    BY <1>1 DEF Good, Sound, Records
  <1>3. Kept(new, r)
    <2>. HIDE DEF asked
    <2>. QED  BY <1>2, WriteKept DEF Kept
  <1>4. /\ Good(gone) /\ gone.fd = r.fd /\ gone.ended = "other"
    <2>. HIDE DEF new
    <2>1. Good(left) /\ left.fd = r.fd
      BY <1>3 DEF Kept, Good, Sound, Records
    <2>. HIDE DEF left
    <2>2. /\ Sound(gone) /\ gone.fd = left.fd /\ gone.pinging = left.pinging /\ gone.pinged = left.pinged
          /\ gone.ended = "other"
      BY <2>1, AbortSound DEF Good
    <2>. QED  BY <2>1, <2>2 DEF Good
  <1>5. new.fd = r.fd /\ r.fd \in Clients
    BY <1>1, <1>3 DEF Kept, Good, Sound
  <1>6. \/ Others(g, s) = {} /\ Yes(g, s, c) = With(g, s, new)
        \/ /\ Others(g, s) # {} /\ c.allowed
           /\ Yes(g, s, c) = [With(With(g, s, gone), o, moved) EXCEPT !.recvFd = None, !.peers = Hangup(@, {g.irc[o].fd}, g, g.list \ {o})]
        \/ Yes(g, s, c) = [With(g, s, gone) EXCEPT !.recvFd = new.fd]
    BY DEF Yes, Found
  <1>. HIDE DEF new, gone
  <1>7. CASE Yes(g, s, c) = With(g, s, new)
    BY <1>3, <1>7, WithKept
  <1>. DEFINE h == With(g, s, gone)
  <1>8. GoodProcess(h) /\ Along(g, h, s)
    BY <1>4, WithGood
  <1>9. h \in Processes /\ h.list = g.list /\ h.irc = [g.irc EXCEPT ![s] = gone]
    BY <1>1, <1>4, WithTyped DEF Good, Sound
  <1>. HIDE DEF h
  <1>10. CASE Yes(g, s, c) = [h EXCEPT !.recvFd = new.fd]
    <2>. DEFINE f == [h EXCEPT !.recvFd = new.fd]
    <2>1. f \in Processes /\ f.list = h.list /\ f.irc = h.irc
      BY <1>5, <1>9 DEF Processes
    <2>. HIDE DEF f
    <2>2. GoodProcess(f) /\ Along(g, f, s)
      BY <2>1, <1>8 DEF GoodProcess, Along
    <2>. QED  BY <1>10, <2>2 DEF f
  <1>11. CASE /\ Others(g, s) # {}
              /\ Yes(g, s, c) = [With(h, o, moved) EXCEPT !.recvFd = None, !.peers = Hangup(@, {g.irc[o].fd}, g, g.list \ {o})]
    <2>1. o \in Others(g, s)
      BY <1>11 DEF Found
    <2>2. o \in g.list /\ o # s /\ o \in Ircs
      BY <1>1, <2>1 DEF Others
    <2>3. Good(g.irc[o])
      BY <2>2 DEF GoodProcess
    <2>4. Good(moved) /\ moved.fd = r.fd /\ moved.ended = g.irc[o].ended /\ moved.status = g.irc[o].status /\ moved.given = g.irc[o].given
      BY <1>5, <2>3, TakenOverGood DEF Copied
    <2>. HIDE DEF moved, o
    <2>. DEFINE v == With(h, o, moved)
                f == [v EXCEPT !.recvFd = None, !.peers = Hangup(@, {g.irc[o].fd}, g, g.list \ {o})]
    <2>5. v \in Processes /\ v.list = h.list /\ v.irc = [h.irc EXCEPT ![o] = moved]
      BY <1>9, <2>2, <2>4, WithTyped DEF Good, Sound
    <2>. HIDE DEF v
    <2>6. \A S \in SUBSET Clients : \A closed, left1 : Hangup(S, closed, g, left1) \in SUBSET Clients
      BY DEF Hangup
    <2>7. f \in Processes /\ f.list = v.list /\ f.irc = v.irc
      BY <2>5, <2>6 DEF Processes
    <2>. HIDE DEF f
    <2>8. f.irc[o] = moved /\ f.irc[s] = gone /\ \A x \in Ircs \ {o, s} : f.irc[x] = g.irc[x]
      BY <1>1, <1>9, <2>2, <2>5, <2>7 DEF Processes
    <2>9. GoodProcess(f)
      BY <1>1, <1>4, <1>9, <2>2, <2>4, <2>5, <2>7, <2>8 DEF GoodProcess
    <2>10. Along(g, f, s)
      BY <1>1, <1>4, <1>9, <2>2, <2>4, <2>5, <2>7, <2>8 DEF Along, o
    <2>. QED  BY <1>11, <2>9, <2>10 DEF f, v
  <1>. QED  BY <1>6, <1>7, <1>10, <1>11 DEF h

LEMMA ExecGood ==
    ASSUME NEW g, GoodProcess(g), NEW s \in g.list, NEW line \in Lines, NEW c \in Circumstances
    PROVE  GoodProcess(Exec(g, s, line, c)) /\ Along(g, Exec(g, s, line, c), s)
  <1>. DEFINE r == g.irc[s]
              answered == [r EXCEPT !.asked = FALSE]
              old == Others(g, s)
              h == Exec(g, s, line, c)
  <1>1. Good(r)
    BY DEF GoodProcess
  <1>2. CASE line \in {"user", "nick", "pass"}
    <2>1. h = With(g, s, Register(r, line, old, c))
      BY <1>2 DEF Exec
    <2>2. Kept(Register(r, line, old, c), r)
      BY <1>1, <1>2, RegisterKept
    <2>. QED  BY <2>1, <2>2, WithKept
  <1>3. CASE line = "quit"
    <2>. DEFINE a == Abort(r, "other", c.sent)
    <2>1. h = With(g, s, a)
      BY <1>3 DEF Exec
    <2>2. Sound(a) /\ a.fd = r.fd /\ a.pinging = r.pinging /\ a.pinged = r.pinged /\ a.ended = "other"
      BY <1>1, AbortSound DEF Good
    <2>. HIDE DEF a
    <2>3. Good(a)
      BY <1>1, <2>2 DEF Good
    <2>. QED  BY <2>1, <2>2, <2>3, WithGood
  <1>4. CASE line = "pong" /\ LoggedIn(r)
    <2>1. h = With(g, s, Pong(r))
      BY <1>4 DEF Exec
    <2>2. Kept(Pong(r), r)
      BY <1>1, PongGood DEF Kept
    <2>. QED  BY <2>1, <2>2, WithKept
  <1>5. CASE line = "identify" /\ LoggedIn(r)
    <2>1. h = With(g, s, Identify(r, old, c))
      BY <1>5 DEF Exec
    <2>2. Kept(Identify(r, old, c), r)
      BY <1>1, IdentifyKept
    <2>. QED  BY <2>1, <2>2, WithKept
  <1>6. CASE line = "yes" /\ r.asked
    BY <1>6, YesGood DEF Exec
  <1>7. CASE line = "no" /\ r.asked
    <2>1. h = With(g, s, Write(answered))
      BY <1>7 DEF Exec
    <2>2. Good(answered) /\ answered.fd = r.fd /\ answered.ended = r.ended
      BY <1>1 DEF Good, Sound, Records
    <2>. HIDE DEF answered
    <2>3. Kept(Write(answered), r)
      BY <2>2, WriteKept DEF Kept
    <2>. QED  BY <2>1, <2>3, WithKept
  <1>8. CASE line = "die" /\ LoggedIn(r)
    BY <1>8, DieGood DEF Exec
  <1>9. CASE /\ line \notin {"user", "nick", "pass", "quit"}
             /\ ~(line = "pong" /\ LoggedIn(r)) /\ ~(line = "identify" /\ LoggedIn(r))
             /\ ~(line = "yes" /\ r.asked) /\ ~(line = "no" /\ r.asked) /\ ~(line = "die" /\ LoggedIn(r))
    <2>1. h = With(g, s, Write(r))
      BY <1>9 DEF Exec
    <2>. QED  BY <1>1, <2>1, WriteKept, WithKept
  <1>. QED  BY <1>2, <1>3, <1>4, <1>5, <1>6, <1>7, <1>8, <1>9

-----------------------------------------------------------------------------
(* Induction over the lines: a set of numbers that has 0 and the successor  *)
(* of each of its members has all of them.                                  *)

LEMMA LeastExists ==
    ASSUME NEW T, T \subseteq Nat, T # {}
    PROVE  \E x \in T : \A y \in T : ~ (y < x)
  <1>1. \E x \in T : \A y \in T : ~ (<<y, x>> \in OpToRel(<, Nat))
    BY NatLessThanWellFounded, WFMin
  <1>2. \A x, y \in Nat : y < x => <<y, x>> \in OpToRel(<, Nat)
    BY DEF OpToRel
  <1>. QED  BY <1>1, <1>2

LEMMA SetInduction ==
    ASSUME NEW S, 0 \in S, \A n \in Nat : n \in S => n + 1 \in S
    PROVE  Nat \subseteq S
  <1>. DEFINE T == Nat \ S
  <1>. SUFFICES ASSUME T # {}
                PROVE  FALSE
    OBVIOUS
  <1>1. PICK x \in T : \A y \in T : ~ (y < x)
    BY LeastExists
  <1>2. CASE x = 0
    BY <1>2
  <1>3. CASE x # 0
    <2>1. x - 1 \in Nat /\ x - 1 < x
      BY <1>3
    <2>2. x - 1 \in S
      BY <2>1, <1>1
    <2>. QED  BY <2>1, <2>2
  <1>. QED  BY <1>2, <1>3

-----------------------------------------------------------------------------
\* The lines of one read() leave sessions that are sound.
LEMMA IrcProcessGood ==
    ASSUME NEW g, GoodProcess(g), NEW s \in Ircs, NEW lines \in Seq(Lines), NEW c \in Circumstances
    PROVE  GoodProcess(IrcProcess(g, s, lines, c)) /\ Along(g, IrcProcess(g, s, lines, c), s)
  <1>. DEFINE After(h, i) == IF s \in h.list THEN Exec(h, s, lines[i], c) ELSE h
              Step(f, i) == IF i = 0 THEN g ELSE After(f[i - 1], i)
              Walk(f, n) == \A i \in 0 .. n : f[i] = Step(f, i)
              P == {h \in Processes : GoodProcess(h) /\ Along(g, h, s)}
              Walks == {n \in Nat : n <= Len(lines) => \E f \in [0 .. n -> P] : Walk(f, n)}
  <1>1. Len(lines) \in Nat /\ \A i \in 1 .. Len(lines) : lines[i] \in Lines
    OBVIOUS
  <1>2. g \in P
    BY AlongSelf DEF GoodProcess
  <1>3. ASSUME NEW h \in P, NEW i \in 1 .. Len(lines)
        PROVE  After(h, i) \in P
    <2>1. CASE s \in h.list
      <3>1. lines[i] \in Lines
        BY <1>1
      <3>. DEFINE e == Exec(h, s, lines[i], c)
      <3>2. GoodProcess(e) /\ Along(h, e, s)
        BY <2>1, <3>1, ExecGood
      <3>. HIDE DEF e
      <3>3. Along(g, e, s)
        BY <2>1, <3>2, AlongTrans
      <3>4. e \in P
        BY <3>2, <3>3 DEF GoodProcess
      <3>. QED  BY <2>1, <3>4 DEF e
    <2>2. CASE s \notin h.list
      BY <2>2
    <2>. QED  BY <2>1, <2>2
  <1>. HIDE DEF P, After
  <1>4. 0 \in Walks
    <2>. DEFINE f == [i \in 0 .. 0 |-> g]
    <2>1. f \in [0 .. 0 -> P] /\ \A i \in 0 .. 0 : f[i] = g /\ i = 0
      BY <1>2
    <2>. QED  BY <2>1
  <1>5. ASSUME NEW n \in Nat, n \in Walks
        PROVE  n + 1 \in Walks
    <2>. HIDE DEF Walk
    <2>. SUFFICES ASSUME n + 1 <= Len(lines)
                  PROVE  \E f \in [0 .. (n + 1) -> P] : Walk(f, n + 1)
      OBVIOUS
    <2>0. n <= Len(lines)
      BY <1>1
    <2>1. PICK w \in [0 .. n -> P] : Walk(w, n)
      BY <2>0, <1>5
    <2>. USE DEF Walk
    <2>. DEFINE f == [i \in 0 .. (n + 1) |-> IF i = n + 1 THEN Step(w, n + 1) ELSE w[i]]
    <2>2. n + 1 \in 1 .. Len(lines) /\ w[n] \in P /\ (n + 1) - 1 = n /\ n + 1 # 0
      BY <1>1
    <2>3. Step(w, n + 1) \in P
      BY <2>2, <1>3
    <2>4. f \in [0 .. (n + 1) -> P]
      BY <2>3
    <2>5. ASSUME NEW i \in 0 .. (n + 1)
          PROVE  f[i] = Step(f, i)
      <3>1. CASE i = n + 1
        <4>1. f[n] = w[n] /\ (n + 1) - 1 = n /\ f[n + 1] = Step(w, n + 1)
          OBVIOUS
        <4>. HIDE DEF f
        <4>. QED  BY <3>1, <4>1
      <3>2. CASE i # n + 1
        <4>1. i \in 0 .. n /\ (i # 0 => i - 1 \in 0 .. n)
          BY <3>2
        <4>2. f[i] = w[i] /\ (i # 0 => f[i - 1] = w[i - 1])
          BY <4>1
        <4>3. w[i] = Step(w, i)
          BY <4>1, <2>1
        <4>. HIDE DEF f
        <4>. QED  BY <4>2, <4>3
      <3>. QED  BY <3>1, <3>2
    <2>. HIDE DEF f, Step
    <2>. QED  BY <2>4, <2>5
  <1>6. Len(lines) \in Walks
    <2>. HIDE DEF Walks
    <2>. QED  BY <1>1, <1>4, <1>5, SetInduction
  <1>7. PICK w \in [0 .. Len(lines) -> P] : Walk(w, Len(lines))
    BY <1>6
  <1>8. w = [i \in 0 .. Len(lines) |-> Step(w, i)]
    BY <1>7
  <1>. DEFINE f == CHOOSE h : h = [i \in 0 .. Len(lines) |-> Step(h, i)]
  <1>9. f = [i \in 0 .. Len(lines) |-> Step(f, i)]
    BY <1>8
  <1>10. IrcProcess(g, s, lines, c) = f[Len(lines)]
    BY DEF IrcProcess, After
  <1>. HIDE DEF f
  <1>11. Walk(f, Len(lines))
    BY <1>9
  <1>12. f[Len(lines)] \in P
    <2>. DEFINE Typed == {n \in Nat : n <= Len(lines) => f[n] \in P}
    <2>1. 0 \in Typed
      <3>1. 0 \in 0 .. Len(lines)
        BY <1>1
      <3>2. f[0] = g
        BY <3>1, <1>11
      <3>. QED  BY <3>2, <1>2
    <2>2. ASSUME NEW n \in Nat, n \in Typed
          PROVE  n + 1 \in Typed
      <3>. SUFFICES ASSUME n + 1 <= Len(lines)
                    PROVE  f[n + 1] \in P
        OBVIOUS
      <3>1. n + 1 \in 1 .. Len(lines) /\ n + 1 \in 0 .. Len(lines) /\ n + 1 # 0 /\ (n + 1) - 1 = n /\ f[n] \in P
        BY <1>1, <2>2
      <3>2. f[n + 1] = After(f[n], n + 1)
        BY <3>1, <1>11
      <3>. QED  BY <3>1, <3>2, <1>3
    <2>3. Nat \subseteq Typed
      <3>. HIDE DEF Typed
      <3>. QED  BY <2>1, <2>2, SetInduction
    <2>. QED  BY <2>3, <1>1
  <1>. QED  BY <1>10, <1>12 DEF P

-----------------------------------------------------------------------------
(* The steps of the event loop *)

\* What the action properties say of one step.
Quiet == \A s \in Ircs : irc[s].ended # "silent" /\ irc'[s].ended = "silent" => irc[s].pinged

NotShared ==
    \A k \in Clients :
        Shared(k)' => \/ Shared(k)
                      \/ \E s \in irc_connection_list : irc[s].fd = k /\ FreeTimer \in irc[s].ev

LEMMA IInvFacts ==
    ASSUME IInv
    PROVE  /\ irc \in [Ircs -> Records] /\ irc_connection_list \subseteq Ircs
           /\ recvFd \in Clients \cup {None} /\ peers \subseteq Clients /\ running \in BOOLEAN
           /\ \A s \in irc_connection_list : Good(irc[s])
           /\ \A s \in Ircs \ irc_connection_list : Gone(irc[s])
           /\ \A s \in Ircs : irc[s].ev # {} => s \in irc_connection_list
  BY DEF IInv, GoodProcess, Process, Processes, Gone

LEMMA NextIInvFacts ==
    ASSUME irc' \in [Ircs -> Records], irc_connection_list' \subseteq Ircs,
           recvFd' \in Clients \cup {None}, peers' \subseteq Clients, running' \in BOOLEAN,
           \A s \in irc_connection_list' : Good(irc'[s]),
           \A s \in Ircs \ irc_connection_list' : Gone(irc'[s])
    PROVE  IInv'
  BY DEF IInv, GoodProcess, Process, Processes

\* Sessions that only lose events or leave share no more than before.
LEMMA FewerReaders ==
    ASSUME irc_connection_list' \subseteq irc_connection_list,
           \A s \in irc_connection_list' :
                irc'[s].fd = irc[s].fd /\ (FreeTimer \in irc[s].ev => FreeTimer \in irc'[s].ev)
    PROVE  NotShared
  BY DEF NotShared, Shared, Readers

LEMMA IrcFreeKeeps ==
    ASSUME IInv, NEW s \in irc_connection_list, IrcFree(s)
    PROVE  IInv' /\ Quiet /\ NotShared
  <1>1. /\ irc \in [Ircs -> Records] /\ irc_connection_list \subseteq Ircs
        /\ recvFd \in Clients \cup {None} /\ peers \subseteq Clients /\ running \in BOOLEAN
        /\ \A o \in irc_connection_list : Good(irc[o])
        /\ \A o \in Ircs \ irc_connection_list : Gone(irc[o])
    BY IInvFacts
  <1>2. Gone(Free(irc[s]))
    BY <1>1, FreeGone
  <1>3. irc' = [irc EXCEPT ![s] = Free(irc[s])] /\ irc_connection_list' = irc_connection_list \ {s}
    BY DEF IrcFree
  <1>4. Gone(irc'[s]) /\ \A o \in Ircs \ {s} : irc'[o] = irc[o]
    BY <1>1, <1>2, <1>3
  <1>5. peers' \subseteq Clients /\ recvFd' = recvFd /\ running' = running
    BY <1>1 DEF IrcFree, Hangup
  <1>6. irc' \in [Ircs -> Records]
    BY <1>1, <1>2, <1>3 DEF Gone
  <1>7. \A o \in irc_connection_list' : Good(irc'[o])
    BY <1>1, <1>3, <1>4
  <1>8. \A o \in Ircs \ irc_connection_list' : Gone(irc'[o])
    BY <1>1, <1>3, <1>4
  <1>9. irc_connection_list' \subseteq Ircs
    BY <1>1, <1>3
  <1>10. IInv'
    BY <1>1, <1>5, <1>6, <1>7, <1>8, <1>9, NextIInvFacts
  <1>11. Quiet
    BY <1>4 DEF Quiet, Gone
  <1>12. NotShared
    BY <1>1, <1>3, <1>4, FewerReaders
  <1>. QED  BY <1>10, <1>11, <1>12

\* A handler that changes one session and leaves it its client.
LEMMA OneKeeps ==
    ASSUME IInv, NEW s \in irc_connection_list, NEW r, Good(r), r.fd = irc[s].fd,
           irc[s].ended # "no" => r.ended # "no",
           irc' = [irc EXCEPT ![s] = r],
           UNCHANGED <<irc_connection_list, recvFd, peers, running>>
    PROVE  IInv' /\ NotShared
  <1>1. /\ irc \in [Ircs -> Records] /\ irc_connection_list \subseteq Ircs
        /\ recvFd \in Clients \cup {None} /\ peers \subseteq Clients /\ running \in BOOLEAN
        /\ \A o \in irc_connection_list : Good(irc[o])
        /\ \A o \in Ircs \ irc_connection_list : Gone(irc[o])
    BY IInvFacts
  <1>2. irc'[s] = r /\ \A o \in Ircs \ {s} : irc'[o] = irc[o]
    BY <1>1
  <1>3. irc' \in [Ircs -> Records]
    BY <1>1 DEF Good, Sound
  <1>4. IInv'
    BY <1>1, <1>2, <1>3, NextIInvFacts
  <1>5. FreeTimer \in irc[s].ev => FreeTimer \in r.ev
    BY <1>1 DEF Good, Sound
  <1>6. NotShared
    BY <1>1, <1>2, <1>5, FewerReaders
  <1>. QED  BY <1>4, <1>6

LEMMA AcceptKeeps ==
    ASSUME IInv, NEW s \in Ircs, NEW k \in Clients, Accept(s, k)
    PROVE  IInv' /\ Quiet /\ NotShared
  <1>. DEFINE e == Event("read", k)
              r == [Freed EXCEPT !.fd = k, !.r = e, !.ping = PingTimer, !.ev = irc[s].ev \cup {e, PingTimer}]
  <1>1. /\ irc \in [Ircs -> Records] /\ irc_connection_list \subseteq Ircs
        /\ recvFd \in Clients \cup {None} /\ peers \subseteq Clients /\ running \in BOOLEAN
        /\ \A o \in irc_connection_list : Good(irc[o])
        /\ \A o \in Ircs \ irc_connection_list : Gone(irc[o])
    BY IInvFacts
  <1>2. /\ s \notin irc_connection_list /\ \A o \in irc_connection_list : irc[o].fd # k
        /\ irc' = [irc EXCEPT ![s] = Write(r)] /\ irc_connection_list' = irc_connection_list \cup {s}
        /\ peers' = peers \cup {k} /\ recvFd' = recvFd /\ running' = running
    BY DEF Accept
  <1>3. irc[s].ev = {}
    BY <1>1, <1>2 DEF Gone
  <1>4. Good(r) /\ r.fd = k /\ r.ended = "no"
    <2>1. e \in Events /\ e # FreeTimer /\ PingTimer \in Events /\ PingTimer # FreeTimer
      BY EventFacts
    <2>2. 0 \in 0 .. MaxAge
      BY MaxAgeFacts
    <2>3. r \in Records /\ r.fd = k /\ r.r = e /\ r.w = None /\ r.ping = PingTimer /\ r.ev = {e, PingTimer}
      BY <1>3, <2>1, <2>2 DEF Freed, Records, Handles
    <2>4. ~r.sendbuffer /\ ~r.pinging /\ r.ended = "no"
      BY DEF Freed
    <2>. HIDE DEF r, e
    <2>. QED  BY <2>1, <2>3, <2>4 DEF Good, Sound, e
  <1>. HIDE DEF r
  <1>5. Good(Write(r)) /\ Write(r).fd = k /\ Write(r).ended = "no"
    BY <1>4, WriteKept DEF Kept
  <1>6. irc'[s] = Write(r) /\ \A o \in Ircs \ {s} : irc'[o] = irc[o]
    BY <1>1, <1>2
  <1>7. irc' \in [Ircs -> Records]
    BY <1>1, <1>2, <1>5 DEF Good, Sound
  <1>8. IInv'
    <2>1. irc_connection_list' \subseteq Ircs /\ peers' \subseteq Clients
      BY <1>1, <1>2
    <2>2. \A o \in irc_connection_list' : Good(irc'[o])
      BY <1>1, <1>2, <1>5, <1>6
    <2>3. \A o \in Ircs \ irc_connection_list' : Gone(irc'[o])
      BY <1>1, <1>2, <1>6
    <2>. QED  BY <1>1, <1>2, <1>7, <2>1, <2>2, <2>3, NextIInvFacts
  <1>9. Quiet
    BY <1>5, <1>6 DEF Quiet
  <1>10. NotShared
    <2>1. ASSUME NEW x \in Clients
          PROVE  /\ x = k => Readers(x)' \subseteq {s}
                 /\ x # k => Readers(x)' \subseteq Readers(x)
      BY <1>1, <1>2, <1>5, <1>6 DEF Readers
    <2>. QED  BY <2>1 DEF NotShared, Shared
  <1>. QED  BY <1>8, <1>9, <1>10

\* After the lines of one read(), no client is shared that was not, unless
\* the session whose lines they are was on its way out before.
LEMMA ReadKeeps ==
    ASSUME IInv, NEW s \in Ircs, NEW lines \in Packets, Read(s, lines)
    PROVE  IInv' /\ Quiet /\ NotShared
  <1>1. /\ irc \in [Ircs -> Records] /\ irc_connection_list \subseteq Ircs
        /\ \A o \in irc_connection_list : Good(irc[o])
        /\ \A o \in Ircs : irc[o].ev # {} => o \in irc_connection_list
    BY IInvFacts
  <1>2. s \in irc_connection_list
    BY <1>1 DEF Read, ReadReady
  <1>3. PICK c \in Circumstances :
            LET g == IrcProcess(Process, s, lines, c)
            IN  /\ irc' = g.irc /\ irc_connection_list' = g.list /\ recvFd' = g.recvFd
                /\ peers' = g.peers /\ running' = g.running
    BY DEF Read
  <1>. DEFINE g == IrcProcess(Process, s, lines, c)
  <1>4. lines \in Seq(Lines)
    BY ConstantsAssumption
  <1>5. GoodProcess(g) /\ Along(Process, g, s)
    BY <1>4, IrcProcessGood DEF IInv
  <1>6. /\ irc' = g.irc /\ irc_connection_list' = g.list /\ recvFd' = g.recvFd
        /\ peers' = g.peers /\ running' = g.running
    BY <1>3
  <1>. HIDE DEF g
  <1>7. IInv'
    BY <1>5, <1>6, NextIInvFacts DEF GoodProcess, Processes
  <1>8. Process.irc = irc /\ Process.list = irc_connection_list
    BY DEF Process
  <1>9. Quiet
    BY <1>5, <1>6, <1>8 DEF Along, Quiet
  <1>10. NotShared
    <2>1. CASE irc_connection_list' = {}
      BY <2>1 DEF NotShared, Shared, Readers
    <2>. SUFFICES ASSUME irc_connection_list' # {}, NEW k \in Clients, Shared(k)', ~Shared(k),
                         \A o \in irc_connection_list : irc[o].fd = k => FreeTimer \notin irc[o].ev
                  PROVE  FALSE
      BY <2>1 DEF NotShared
    <2>. DEFINE x == Found(Process, s)
    <2>2. /\ irc_connection_list' = irc_connection_list
          /\ \A o \in irc_connection_list : irc[o].ended # "no" => irc'[o].ended # "no"
          /\ \A o \in irc_connection_list : irc'[o].fd # irc[o].fd =>
                o = x /\ o # s /\ irc'[o].fd = irc[s].fd /\ irc'[s].ended # "no"
      BY <1>5, <1>6, <1>8 DEF Along
    <2>. HIDE DEF x
    <2>3. \A o \in irc_connection_list' : Good(irc'[o])
      BY <1>5, <1>6 DEF GoodProcess
    <2>4. \A o \in irc_connection_list : irc[o].ended # "no" <=> FreeTimer \in irc[o].ev
      BY <1>1 DEF Good, Sound
    <2>5. \A o \in irc_connection_list : irc'[o].ended # "no" <=> FreeTimer \in irc'[o].ev
      BY <2>2, <2>3 DEF Good, Sound
    <2>6. PICK o, p \in Readers(k)' : o # p
      BY DEF Shared
    <2>7. /\ o \in irc_connection_list /\ irc'[o].fd = k /\ irc[o].ended = "no"
          /\ p \in irc_connection_list /\ irc'[p].fd = k /\ irc[p].ended = "no"
      BY <2>2, <2>5, <2>6 DEF Readers
    <2>8. ~(irc[o].fd = k /\ irc[p].fd = k)
      BY <2>4, <2>6, <2>7 DEF Shared, Readers
    <2>9. PICK y \in {o, p} : irc'[y].fd # irc[y].fd
      BY <2>7, <2>8
    <2>10. y = x /\ irc[s].fd = k /\ irc'[s].ended # "no"
      BY <2>2, <2>7, <2>9
    <2>11. PICK z \in {o, p} : z # x
      BY <2>6
    <2>12. irc[z].fd = k
      BY <2>2, <2>7, <2>11
    <2>13. s \notin {o, p}
      BY <1>2, <2>2, <2>5, <2>6, <2>10 DEF Readers
    <2>14. z \in Readers(k)
      BY <2>4, <2>7, <2>12 DEF Readers
    <2>15. s \in Readers(k)
      BY <1>2, <2>10 DEF Readers
    <2>. QED  BY <2>13, <2>14, <2>15 DEF Shared
  <1>. QED  BY <1>7, <1>9, <1>10

LEMMA ReadTooLongKeeps ==
    ASSUME IInv, NEW s \in Ircs, ReadTooLong(s)
    PROVE  IInv' /\ Quiet /\ NotShared
  <1>1. s \in irc_connection_list /\ Good(irc[s]) /\ irc \in [Ircs -> Records]
    BY IInvFacts DEF ReadTooLong, ReadReady
  <1>2. PICK sent \in Sent :
            irc' = [irc EXCEPT ![s] = [Abort(irc[s], "other", sent) EXCEPT !.ev = @ \ {irc[s].r}]]
    BY DEF ReadTooLong
  <1>. DEFINE a == Abort(irc[s], "other", sent)
              r == [a EXCEPT !.ev = @ \ {irc[s].r}]
  <1>9. irc' = [irc EXCEPT ![s] = r]
    BY <1>2
  <1>3. Sound(a) /\ a.fd = irc[s].fd /\ a.pinging = irc[s].pinging /\ a.pinged = irc[s].pinged /\ a.ended = "other"
    BY <1>1, AbortSound DEF Good
  <1>. HIDE DEF a
  <1>4. a.r = irc[s].r
    BY <1>1, <1>3 DEF Good, Sound
  <1>5. /\ r \in Records /\ r.ev = a.ev \ {a.r}
        /\ r.fd = a.fd /\ r.r = a.r /\ r.w = a.w /\ r.ping = a.ping /\ r.sendbuffer = a.sendbuffer
        /\ r.pinging = a.pinging /\ r.pinged = a.pinged /\ r.ended = a.ended
    BY <1>3, <1>4 DEF Sound, Records
  <1>. HIDE DEF r
  <1>6. a.r # FreeTimer /\ (a.w = Event("write", a.fd) => a.w # a.r)
    BY <1>3, EventFacts DEF Sound
  <1>7. IF r.sendbuffer THEN r.w \in r.ev ELSE r.w = None
    BY <1>3, <1>5, <1>6, EventFacts DEF Sound, Records
  <1>8. Good(r)
    BY <1>1, <1>3, <1>5, <1>6, <1>7 DEF Good, Sound
  <1>10. UNCHANGED <<irc_connection_list, recvFd, peers, running>>
    BY DEF ReadTooLong
  <1>11. IInv' /\ NotShared
    BY <1>1, <1>3, <1>5, <1>8, <1>9, <1>10, OneKeeps
  <1>12. Quiet
    BY <1>1, <1>3, <1>5, <1>9 DEF Quiet
  <1>. QED  BY <1>11, <1>12

LEMMA WriteEventKeeps ==
    ASSUME IInv, NEW s \in Ircs, WriteEvent(s)
    PROVE  IInv' /\ Quiet /\ NotShared
  <1>1. s \in irc_connection_list /\ Good(irc[s]) /\ irc \in [Ircs -> Records]
    BY IInvFacts DEF WriteEvent
  <1>2. PICK e \in irc[s].ev :
            /\ e.cb = "write"
            /\ LET r == [irc[s] EXCEPT !.ev = @ \ {e}]
               IN  irc' = [irc EXCEPT ![s] = IF @.sendbuffer THEN [r EXCEPT !.sendbuffer = FALSE, !.w = None] ELSE r]
    BY DEF WriteEvent
  <1>3. e = irc[s].w
    <2>1. PingTimer.cb # "write" /\ FreeTimer.cb # "write" /\ \A k : Event("read", k).cb # "write"
      BY DEF PingTimer, FreeTimer, Event
    <2>. QED  BY <1>1, <1>2, <2>1 DEF Good, Sound
  <1>4. irc[s].sendbuffer
    BY <1>1, <1>2, <1>3, EventFacts DEF Good, Sound, Records
  <1>. DEFINE q == [irc[s] EXCEPT !.ev = @ \ {e}]
              r == [q EXCEPT !.sendbuffer = FALSE, !.w = None]
  <1>5. irc' = [irc EXCEPT ![s] = r]
    BY <1>2, <1>4
  <1>6. /\ r \in Records /\ r.ev = irc[s].ev \ {irc[s].w} /\ ~r.sendbuffer /\ r.w = None
        /\ r.fd = irc[s].fd /\ r.r = irc[s].r /\ r.ping = irc[s].ping
        /\ r.pinging = irc[s].pinging /\ r.pinged = irc[s].pinged /\ r.ended = irc[s].ended
    BY <1>1, <1>3 DEF Good, Sound, Records, Handles
  <1>. HIDE DEF r
  <1>7. irc[s].w # FreeTimer
    BY <1>1, <1>2, <1>3, EventFacts DEF Good, Sound, Records
  <1>8. Good(r)
    BY <1>1, <1>6, <1>7 DEF Good, Sound
  <1>9. UNCHANGED <<irc_connection_list, recvFd, peers, running>>
    BY DEF WriteEvent
  <1>10. IInv' /\ NotShared
    BY <1>1, <1>5, <1>6, <1>8, <1>9, OneKeeps
  <1>11. Quiet
    BY <1>1, <1>5, <1>6 DEF Quiet
  <1>. QED  BY <1>10, <1>11

\* One that is silent is dropped only if it was asked: a PING is on its way
\* before the timeout is looked at, as long as the interval is not the longer.
LEMMA UserpingKeeps ==
    ASSUME IInv, NEW s \in Ircs, Userping(s)
    PROVE  IInv' /\ (Interval <= Timeout => Quiet) /\ NotShared
  <1>1. s \in irc_connection_list /\ Good(irc[s]) /\ irc \in [Ircs -> Records]
    BY IInvFacts DEF Userping
  <1>2. PICK sent \in Sent : irc' = [irc EXCEPT ![s] = Pinged(irc[s], sent)]
    BY DEF Userping
  <1>. DEFINE r == Pinged(irc[s], sent)
  <1>3. Asked(r, irc[s])
    BY <1>1, PingedGood
  <1>4. irc' = [irc EXCEPT ![s] = r]
    BY <1>2
  <1>. HIDE DEF r
  <1>5. UNCHANGED <<irc_connection_list, recvFd, peers, running>>
    BY DEF Userping
  <1>6. IInv' /\ NotShared
    BY <1>1, <1>3, <1>4, <1>5, OneKeeps DEF Asked
  <1>7. Interval <= Timeout => Quiet
    BY <1>1, <1>3, <1>4 DEF Quiet, Good, Asked
  <1>. QED  BY <1>6, <1>7

LEMMA TickKeeps ==
    ASSUME IInv, Tick
    PROVE  IInv' /\ Quiet /\ NotShared
  <1>1. /\ irc \in [Ircs -> Records] /\ irc_connection_list \subseteq Ircs
        /\ recvFd \in Clients \cup {None} /\ peers \subseteq Clients /\ running \in BOOLEAN
        /\ \A o \in irc_connection_list : Good(irc[o])
        /\ \A o \in Ircs \ irc_connection_list : Gone(irc[o])
    BY IInvFacts
  <1>2. UNCHANGED <<irc_connection_list, recvFd, peers, running>>
    BY DEF Tick
  <1>3. ASSUME NEW s \in Ircs
        PROVE  /\ irc'[s] \in Records /\ (Good(irc[s]) => Good(irc'[s])) /\ (Gone(irc[s]) => Gone(irc'[s]))
               /\ irc'[s].fd = irc[s].fd /\ irc'[s].ev = irc[s].ev /\ irc'[s].ended = irc[s].ended
    <2>1. irc[s] \in Records
      BY <1>1
    <2>2. CASE PingTimer \notin irc[s].ev \/ irc[s].age = MaxAge
      <3>1. irc'[s] = irc[s]
        BY <2>2 DEF Tick
      <3>. QED  BY <2>1, <3>1
    <2>3. CASE ~(PingTimer \notin irc[s].ev \/ irc[s].age = MaxAge)
      <3>. DEFINE n == irc[s].age + 1
      <3>1. irc'[s] = [irc[s] EXCEPT !.age = n]
        BY <2>3 DEF Tick
      <3>2. n \in 0 .. MaxAge
        <4>1. irc[s].age \in 0 .. MaxAge
          BY <2>1 DEF Records
        <4>. QED  BY <2>3, <4>1, MaxAgeFacts
      <3>. HIDE DEF n
      <3>. QED  BY <2>1, <3>1, <3>2 DEF Good, Sound, Gone, Records
    <2>. QED  BY <2>2, <2>3
  <1>4. irc' \in [Ircs -> Records]
    <2>1. irc' = [s \in Ircs |-> irc'[s]]
      BY DEF Tick
    <2>. QED  BY <1>3, <2>1
  <1>5. IInv'
    BY <1>1, <1>2, <1>3, <1>4, NextIInvFacts
  <1>6. Quiet
    BY <1>3 DEF Quiet
  <1>7. NotShared
    BY <1>1, <1>2, <1>3, FewerReaders
  <1>. QED  BY <1>5, <1>6, <1>7

LEMMA StutterKeeps ==
    ASSUME IInv, UNCHANGED <<irc, irc_connection_list, recvFd, running>>, peers' \subseteq peers
    PROVE  IInv' /\ Quiet /\ NotShared
  <1>1. IInv'
    BY IInvFacts, NextIInvFacts
  <1>2. Quiet /\ NotShared
    BY FewerReaders DEF Quiet
  <1>. QED  BY <1>1, <1>2

-----------------------------------------------------------------------------
LEMMA InitIInv == Init => IInv
  <1>. SUFFICES ASSUME Init
                PROVE  IInv
    OBVIOUS
  <1>1. irc \in [Ircs -> Records] /\ \A s \in Ircs : Gone(irc[s])
    BY FreedGone DEF Init, Gone
  <1>2. irc_connection_list = {} /\ recvFd = None /\ peers = {} /\ running = TRUE
    BY DEF Init
  <1>. QED  BY <1>1, <1>2 DEF IInv, GoodProcess, Process, Processes

LEMMA NextKeeps ==
    ASSUME IInv, [Next]_vars
    PROVE  IInv' /\ (Interval <= Timeout => Quiet) /\ NotShared
  <1>1. ASSUME NEW s \in Ircs, NEW k \in Clients, Accept(s, k)
        PROVE  IInv' /\ Quiet /\ NotShared
    BY <1>1, AcceptKeeps
  <1>2. ASSUME NEW s \in Ircs, NEW lines \in Packets, Read(s, lines)
        PROVE  IInv' /\ Quiet /\ NotShared
    BY <1>2, ReadKeeps
  <1>3. ASSUME NEW s \in Ircs, ReadTooLong(s)
        PROVE  IInv' /\ Quiet /\ NotShared
    BY <1>3, ReadTooLongKeeps
  <1>4. ASSUME NEW s \in Ircs, ReadFails(s) \/ WriteFails(s) \/ FreeTimerFires(s)
        PROVE  IInv' /\ Quiet /\ NotShared
    <2>1. s \in irc_connection_list /\ IrcFree(s)
      BY <1>4, IInvFacts DEF ReadFails, ReadReady, WriteFails, FreeTimerFires
    <2>. QED  BY <2>1, IrcFreeKeeps
  <1>5. ASSUME NEW s \in Ircs, WriteEvent(s)
        PROVE  IInv' /\ Quiet /\ NotShared
    BY <1>5, WriteEventKeeps
  <1>6. ASSUME NEW s \in Ircs, Userping(s)
        PROVE  IInv' /\ (Interval <= Timeout => Quiet) /\ NotShared
    BY <1>6, UserpingKeeps
  <1>7. ASSUME NEW k \in Clients, ClientLeaves(k)
        PROVE  IInv' /\ Quiet /\ NotShared
    BY <1>7, StutterKeeps DEF ClientLeaves
  <1>8. ASSUME Tick
        PROVE  IInv' /\ Quiet /\ NotShared
    BY <1>8, TickKeeps
  <1>9. ASSUME UNCHANGED vars
        PROVE  IInv' /\ Quiet /\ NotShared
    BY <1>9, StutterKeeps DEF vars
  <1>. QED  BY <1>1, <1>2, <1>3, <1>4, <1>5, <1>6, <1>7, <1>8, <1>9 DEF Next

LEMMA AlwaysIInv == Spec => []IInv
  <1>1. IInv /\ [Next]_vars => IInv'
    BY NextKeeps
  <1>. QED  BY InitIInv, <1>1, PTL DEF Spec

\* Every field of every session keeps to its type.
THEOREM TypeCorrect == Spec => []TypeOK
  <1>1. IInv => TypeOK
    BY IInvFacts DEF TypeOK
  <1>. QED  BY AlwaysIInv, <1>1, PTL

\* No event outlives its session or stays on a descriptor it has left: the
\* three handles irc_free() and irc_switch_fd() know are all there are.
THEOREM EventsAreKnown == Spec => []EventsBelongToSessions
  <1>1. IInv => EventsBelongToSessions
    <2>. SUFFICES ASSUME IInv, NEW s \in Ircs, NEW e \in irc[s].ev
                  PROVE  /\ s \in irc_connection_list /\ e \in {irc[s].r, irc[s].w, irc[s].ping}
                         /\ e.cb \in {"read", "write"} => e.fd = irc[s].fd
      BY DEF EventsBelongToSessions
    <2>1. s \in irc_connection_list /\ Good(irc[s])
      BY IInvFacts
    <2>2. e \in {irc[s].r, irc[s].w, irc[s].ping}
      BY <2>1 DEF Good, Sound
    <2>3. e # None
      BY <2>1, EventFacts DEF Good, Sound, Records
    <2>4. /\ \A k : Event("read", k).fd = k /\ Event("write", k).fd = k
          /\ PingTimer.cb \notin {"read", "write"} /\ FreeTimer.cb \notin {"read", "write"}
      BY DEF Event, PingTimer, FreeTimer
    <2>5. e \in {Event("read", irc[s].fd), Event("write", irc[s].fd), PingTimer, FreeTimer}
      BY <2>1, <2>2, <2>3 DEF Good, Sound
    <2>6. e.cb \in {"read", "write"} => e.fd = irc[s].fd
      BY <2>4, <2>5
    <2>. QED  BY <2>1, <2>2, <2>6
  <1>. QED  BY AlwaysIInv, <1>1, PTL

\* A session with output always waits for its client, however many lines, PINGs
\* and takeovers it went through.
THEOREM OutputGoesOn == Spec => []OutputIsNeverStuck
  <1>1. IInv => OutputIsNeverStuck
    BY IInvFacts DEF OutputIsNeverStuck, Good, Sound
  <1>. QED  BY AlwaysIInv, <1>1, PTL

\* With an interval that is not longer than the timeout, no client is dropped
\* for its silence without a PING on its own connection.
THEOREM SilenceIsAskedAbout ==
    ASSUME Interval <= Timeout
    PROVE  Spec => SilenceWasAskedAbout
  <1>1. IInv /\ [Next]_vars => Quiet
    BY NextKeeps
  <1>2. Quiet => [\A s \in Ircs : irc[s].ended # "silent" /\ irc'[s].ended = "silent"
                        => irc[s].pinged]_vars
    BY DEF Quiet
  <1>. QED  BY AlwaysIInv, <1>1, <1>2, PTL DEF Spec, SilenceWasAskedAbout

\* For any number of sessions: a client gets a second session that stays only
\* from one that is on its way out.
THEOREM ClientsAreNotShared == Spec => OneSessionPerClient
  <1>1. IInv /\ [Next]_vars => NotShared
    BY NextKeeps
  <1>2. NotShared => [\A k \in Clients :
                        Shared(k)' => \/ Shared(k)
                                      \/ \E s \in irc_connection_list : irc[s].fd = k /\ FreeTimer \in irc[s].ev]_vars
    BY DEF NotShared
  <1>. QED  BY AlwaysIInv, <1>1, <1>2, PTL DEF Spec, OneSessionPerClient

=============================================================================
