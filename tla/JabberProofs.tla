---------------------------- MODULE JabberProofs ----------------------------
(***************************************************************************)
(* Proofs about Jabber, for any settings, quirks and output and whatever   *)
(* the server says unasked: with tls set to true no login is begun before  *)
(* TLS is up, and a connection has the watches it needs.                   *)
(***************************************************************************)
EXTENDS Jabber, SequenceTheorems, TLAPS

Connections ==
    [ic : {"none", "login", "online"}, fd : {"none", "connecting", "open"},
     ssl : {"none", "new", "up"}, lib : {"none", "proxy", "starttls", "handshake"},
     loop : SUBSET {"r", "w"}, r_inpa : BOOLEAN, w_inpa : BOOLEAN,
     txq : Seq(Packets), flags : SUBSET Flags, root : {"none", "xmpp", "old"},
     reading : BOOLEAN, todo : Seq(Stanzas)]

\* What may be written outside TLS, where it has to be used: neither a secret
\* nor a request whose answer would make the client send one, but for the digest
\* that a challenge gets which the server was not asked for.
Digests == IF "challenge" \in Unasked THEN {"response"} ELSE {}
Harmless == Packets \ ({"plain", "digest", "response", "iqget", "iqset"} \ Digests)

\* So the server says nothing else that would.
Quiet == Stanzas \ ({"challenge", "fields"} \ Unasked)

Unsafe(c) == set.tls = "true" /\ c.ssl = "none"

\* A connection that is being set up or is up.
Fine(c) ==
    /\ c \in Connections /\ c.ic # "none"
    /\ Unsafe(c) => c.txq \in Seq(Harmless) /\ c.todo \in Seq(Quiet)

\* Without a connection nothing of an earlier one is left.
Cleared ==
    jd.ic = "none" =>
        /\ jd.ssl = "none" /\ jd.txq = <<>> /\ jd.root = "none" /\ jd.flags = {}
        /\ ~jd.reading /\ jd.todo = <<>> /\ inbox = <<>> /\ asked = {}

\* The secrets stay inside because everything on its way is harmless: what is
\* queued, what the server was asked, what it has answered and what the
\* handlers have before them.
Guarded ==
    Unsafe(jd) =>
        /\ jd.txq \in Seq(Harmless) /\ jd.todo \in Seq(Quiet)
        /\ inbox \in Seq(Quiet)
        /\ asked \subseteq Harmless \cup {"features", "restart"}

IInv == TypeOK /\ "misc" \notin asked /\ Cleared /\ Guarded /\ SecretsStayInside

-----------------------------------------------------------------------------

LEMMA TypeOKMeans ==
    TypeOK <=> /\ jd \in Connections
               /\ set \in Settings
               /\ orphans \subseteq {"proxy", "starttls"}
               /\ inbox \in Seq(Stanzas)
               /\ asked \subseteq Packets \cup {"features", "restart"}
               /\ exposed \subseteq Secrets
               /\ {peer, used} \subseteq BOOLEAN
  BY DEF TypeOK, Connections

LEMMA OffIsConnection == Off \in Connections
  BY DEF Off, Connections

LEMMA InitIInv == Init => IInv
  <1>. SUFFICES ASSUME Init PROVE IInv
    OBVIOUS
  <1>1. TypeOK
    <2>1. {peer, used} \subseteq BOOLEAN /\ exposed \subseteq Secrets
      BY Zenon DEF Init
    <2>2. jd \in Connections /\ inbox \in Seq(Stanzas) /\ asked = {} /\ orphans = {} /\ set \in Settings
      BY OffIsConnection DEF Init
    <2>. QED  BY <2>1, <2>2, TypeOKMeans
  <1>2. /\ jd.ssl = "none" /\ jd.txq = <<>> /\ jd.root = "none" /\ jd.flags = {}
        /\ jd.reading = FALSE /\ jd.todo = <<>> /\ inbox = <<>> /\ asked = {} /\ exposed = {}
    BY DEF Init, Off
  <1>3. Cleared /\ Guarded /\ SecretsStayInside
    BY <1>2 DEF Cleared, Guarded, SecretsStayInside
  <1>. QED  BY <1>1, <1>2, <1>3 DEF IInv

\* A connection that is fine stays so when it is only left as c,
LEMMA KeepKeeps ==
    ASSUME IInv, NEW c, Fine(c), c.ssl = "none" => jd.ssl = "none", Keep(c)
    PROVE  IInv'
  <1>1. TypeOK'
    BY TypeOKMeans DEF IInv, Keep, Fine, Connections, TypeOK
  <1>2. Cleared' /\ Guarded' /\ SecretsStayInside'
    BY DEF IInv, Keep, Fine, Cleared, Guarded, SecretsStayInside, Unsafe
  <1>. QED  BY <1>1, <1>2 DEF IInv, Keep

\* when it ends,
LEMMA LogoutKeeps ==
    ASSUME IInv, NEW c \in Connections, NEW careful \in BOOLEAN, imc_logout(c, careful)
    PROVE  IInv'
  <1>1. /\ jd' \in Connections
        /\ jd'.ssl = "none" /\ jd'.txq = <<>> /\ jd'.root = "none" /\ jd'.flags = {}
        /\ jd'.reading = FALSE /\ jd'.todo = <<>>
    <2>. DEFINE loop == c.loop \ ((IF c.r_inpa THEN {"r"} ELSE {}) \cup (IF c.w_inpa THEN {"w"} ELSE {}))
    <2>1. jd' = [Off EXCEPT !.loop = loop] /\ loop \in SUBSET {"r", "w"}
      BY DEF imc_logout, jabber_logout, Connections
    <2>. HIDE DEF loop
    <2>2. jd' \in Connections
      BY <2>1, OffIsConnection DEF Connections
    <2>. QED  BY <2>1, <2>2 DEF Off
  <1>2. /\ orphans' \subseteq {"proxy", "starttls"}
        /\ inbox' = <<>> /\ asked' = {} /\ set' = set /\ set \in Settings
        /\ {peer', used'} \subseteq BOOLEAN /\ exposed' \subseteq Secrets
    <2>1. orphans \subseteq {"proxy", "starttls"} /\ {peer, used} \subseteq BOOLEAN /\ exposed \subseteq Secrets /\ set \in Settings
      BY DEF IInv, TypeOK
    <2>. QED  BY <2>1 DEF imc_logout
  <1>3. TypeOK'
    BY <1>1, <1>2 DEF TypeOK, Connections
  <1>4. Cleared' /\ Guarded' /\ SecretsStayInside'
    BY <1>1, <1>2 DEF imc_logout, IInv, Cleared, Guarded, SecretsStayInside
  <1>. QED  BY <1>2, <1>3, <1>4 DEF IInv

\* and when it sends what may be sent.
LEMMA SendKeeps ==
    ASSUME IInv, NEW c, Fine(c), c.ssl = "none" => jd.ssl = "none",
           NEW packet \in Packets, Unsafe(c) => packet \in Harmless,
           NEW careful \in BOOLEAN, SendBy(c, packet, careful)
    PROVE  IInv'
  <1>. c \in Connections
    BY DEF Fine
  <1>1. CASE c.txq # <<>> /\ Keep([c EXCEPT !.txq = Append(@, packet)])
    <2>. DEFINE d == [c EXCEPT !.txq = Append(@, packet)]
    <2>1. /\ d.ic = c.ic /\ d.ssl = c.ssl /\ d.todo = c.todo
          /\ d.txq = Append(c.txq, packet)
      BY DEF Connections
    <2>2. d \in Connections
      <3>1. Append(c.txq, packet) \in Seq(Packets)
        BY AppendProperties DEF Connections
      <3>. QED  BY <3>1 DEF Connections
    <2>3. Fine(d)
      BY <2>1, <2>2 DEF Fine, Unsafe
    <2>. QED  BY <1>1, <2>1, <2>3, KeepKeeps
  <1>2. CASE jd' = c /\ Taken(c, {packet})
    <2>1. /\ asked' \subseteq Packets \cup {"features", "restart"} /\ "misc" \notin asked'
          /\ exposed' \subseteq Secrets
      BY <1>2 DEF Taken, IInv, TypeOK
    <2>2. TypeOK'
      BY <1>2, <2>1 DEF Taken, IInv, TypeOK, Connections
    <2>3. Cleared' /\ Guarded'
      BY <1>2 DEF Taken, IInv, Fine, Cleared, Guarded, Unsafe
    <2>4. SecretsStayInside'
      BY <1>2 DEF Taken, IInv, SecretsStayInside, Secrets, Harmless, Digests, Unsafe
    <2>. QED  BY <2>1, <2>2, <2>3, <2>4 DEF IInv
  <1>3. CASE Keep([c EXCEPT !.txq = <<packet>>, !.w_inpa = TRUE, !.loop = @ \cup {"w"}])
    <2>. DEFINE d == [c EXCEPT !.txq = <<packet>>, !.w_inpa = TRUE, !.loop = @ \cup {"w"}]
    <2>1. /\ d.ic = c.ic /\ d.ssl = c.ssl /\ d.todo = c.todo
          /\ d.txq = <<packet>>
      BY DEF Connections
    <2>2. d \in Connections
      <3>1. <<packet>> \in Seq(Packets) /\ c.loop \cup {"w"} \in SUBSET {"r", "w"}
        BY DEF Connections
      <3>. QED  BY <3>1 DEF Connections
    <2>3. Fine(d)
      BY <2>1, <2>2 DEF Fine, Unsafe
    <2>. QED  BY <1>3, <2>1, <2>3, KeepKeeps
  <1>4. CASE imc_logout([c EXCEPT !.fd = "none"], careful)
    BY <1>4, LogoutKeeps DEF Connections
  <1>. QED  BY <1>1, <1>2, <1>3, <1>4 DEF SendBy

-----------------------------------------------------------------------------
(* The handlers *)

LEMMA FlagsFine ==
    ASSUME NEW c, Fine(c), NEW F \in SUBSET Flags
    PROVE  /\ Fine([c EXCEPT !.flags = F])
           /\ [c EXCEPT !.flags = F].ssl = c.ssl /\ [c EXCEPT !.flags = F].flags = F
  BY DEF Fine, Connections, Unsafe

LEMMA FineFlags == ASSUME NEW c, Fine(c) PROVE c.flags \subseteq Flags
  BY DEF Fine, Connections

LEMMA StartStreamKeeps ==
    ASSUME IInv, NEW c, Fine(c), c.ssl = "none" => jd.ssl = "none",
           NEW careful \in BOOLEAN, StartStreamBy(c, careful)
    PROVE  IInv'
  <1>1. "header" \in Packets /\ "header" \in Harmless
    BY DEF Packets, Harmless, Digests
  <1>2. CASE c.r_inpa
    <2>. DEFINE d == [c EXCEPT !.root = "none"]
    <2>1. Fine(d) /\ d.ssl = c.ssl
      BY DEF Fine, Connections, Unsafe
    <2>. QED  BY <1>1, <1>2, <2>1, SendKeeps DEF StartStreamBy
  <1>3. CASE ~c.r_inpa
    <2>. DEFINE d == [c EXCEPT !.root = "none", !.r_inpa = TRUE, !.loop = @ \cup {"r"}]
    <2>1. Fine(d) /\ d.ssl = c.ssl
      <3>1. c \in Connections /\ c.loop \cup {"r"} \in SUBSET {"r", "w"}
        BY DEF Fine, Connections
      <3>2. /\ d \in Connections /\ d.ssl = c.ssl /\ d.ic = c.ic
            /\ d.txq = c.txq /\ d.todo = c.todo
        BY <3>1 DEF Connections
      <3>. QED  BY <3>2 DEF Fine, Unsafe
    <2>. QED  BY <1>1, <1>3, <2>1, SendKeeps DEF StartStreamBy
  <1>. QED  BY <1>2, <1>3

LEMMA BindKeeps ==
    ASSUME IInv, NEW c, Fine(c), c.ssl = jd.ssl, jabber_pkt_bind_sess(c)
    PROVE  IInv'
  <1>1. {"bind", "session", "roster"} \subseteq Packets \cap Harmless
    BY DEF Packets, Harmless, Digests
  <1>2. \A f \in Flags : /\ Fine([c EXCEPT !.flags = @ \ {f}])
                         /\ [c EXCEPT !.flags = @ \ {f}].ssl = c.ssl
    BY FlagsFine, FineFlags
  <1>3. {"WANT_BIND", "WANT_SESSION"} \subseteq Flags
    BY DEF Flags
  <1>4. CASE "WANT_BIND" \in c.flags
    BY <1>1, <1>2, <1>3, <1>4, SendKeeps DEF jabber_pkt_bind_sess, Send
  <1>5. CASE "WANT_BIND" \notin c.flags /\ "WANT_SESSION" \in c.flags
    BY <1>1, <1>2, <1>3, <1>5, SendKeeps DEF jabber_pkt_bind_sess, Send
  <1>6. CASE "WANT_BIND" \notin c.flags /\ "WANT_SESSION" \notin c.flags
    BY <1>1, <1>6, SendKeeps DEF jabber_pkt_bind_sess, Send
  <1>. QED  BY <1>4, <1>5, <1>6

\* Where TLS has to be used and is not, a stream's features lead to STARTTLS
\* or to the end.
LEMMA FeaturesKeep ==
    ASSUME IInv, NEW c, Fine(c), c.ssl = jd.ssl,
           NEW starttls \in {"no", "yes", "required"},
           NEW mechanisms \in SUBSET {"PLAIN", "DIGEST-MD5", "OTHER"},
           NEW wants \in SUBSET {"WANT_BIND", "WANT_SESSION"},
           jabber_pkt_features(c, starttls, mechanisms, wants)
    PROVE  IInv'
  <1>. DEFINE d == [c EXCEPT !.flags = @ \cup wants]
              e == [d EXCEPT !.flags = @ \cup {"STREAM_STARTED"}]
  <1>1. c \in Connections /\ {"starttls", "iqget", "plain", "digest"} \subseteq Packets /\ "starttls" \in Harmless
    BY DEF Packets, Harmless, Digests, Fine
  <1>2. c.flags \cup wants \in SUBSET Flags
    BY FineFlags DEF Flags
  <1>3. Fine(d) /\ d.ssl = c.ssl /\ d.flags = c.flags \cup wants
    BY <1>2, FlagsFine
  <1>4. d.flags \cup {"STREAM_STARTED"} \in SUBSET Flags
    BY <1>2, <1>3 DEF Flags
  <1>5. Fine(e) /\ e.ssl = c.ssl
    BY <1>3, <1>4, FlagsFine
  <1>. HIDE DEF d, e
  <1>6. CASE TlsRefused(starttls)
    BY <1>1, <1>6, LogoutKeeps DEF jabber_pkt_features, Logout
  <1>7. CASE ~TlsRefused(starttls) /\ starttls # "no" /\ c.ssl = "none" /\ Tls
    BY <1>1, <1>7, SendKeeps DEF jabber_pkt_features, Send
  <1>8. CASE ~TlsRefused(starttls) /\ ~(starttls # "no" /\ c.ssl = "none" /\ Tls)
    <2>1. ~Unsafe(c)
      BY <1>8 DEF Unsafe, TlsRefused, Tls
    <2>2. ~Unsafe(d) /\ ~Unsafe(e)
      BY <2>1, <1>3, <1>5 DEF Unsafe
    <2>3. \/ Logout(c)
          \/ Send(e, Mechanism(mechanisms))
          \/ jabber_pkt_bind_sess(d)
          \/ Send(d, "iqget")
          \/ Keep(d)
      BY <1>8 DEF jabber_pkt_features, d, e
    <2>4. Mechanism(mechanisms) \in Packets
      BY <1>1 DEF Mechanism
    <2>5. CASE Logout(c)
      BY <1>1, <2>5, LogoutKeeps DEF Logout
    <2>6. CASE Send(e, Mechanism(mechanisms))
      BY <1>5, <2>2, <2>4, <2>6, SendKeeps DEF Send
    <2>7. CASE jabber_pkt_bind_sess(d)
      BY <1>3, <2>7, BindKeeps
    <2>8. CASE Send(d, "iqget")
      BY <1>1, <1>3, <2>2, <2>8, SendKeeps DEF Send
    <2>9. CASE Keep(d)
      BY <1>3, <2>9, KeepKeeps
    <2>. QED  BY <2>3, <2>5, <2>6, <2>7, <2>8, <2>9
  <1>. QED  BY <1>6, <1>7, <1>8

\* After proceed nothing can be sent until TLS is up.
LEMMA ProceedKeeps ==
    ASSUME IInv, NEW c, Fine(c), jabber_pkt_proceed_tls(c)
    PROVE  IInv'
  <1>. DEFINE loop == c.loop \ ({"r"} \cup IF c.txq # <<>> THEN {"w"} ELSE {})
              flags == c.flags \cup {"STARTTLS_DONE"}
              d == [c EXCEPT !.loop = loop, !.r_inpa = FALSE, !.w_inpa = FALSE, !.txq = <<>>,
                             !.flags = flags, !.ssl = "new", !.lib = "starttls"]
  <1>1. c \in Connections /\ loop \in SUBSET {"r", "w"} /\ flags \in SUBSET Flags /\ <<>> \in Seq(Packets)
    BY FineFlags DEF Fine, Connections, Flags
  <1>2. Keep(d)
    BY DEF jabber_pkt_proceed_tls
  <1>. HIDE DEF loop, flags
  <1>3. d \in Connections /\ d.ic = c.ic /\ d.ssl = "new"
    BY <1>1 DEF Connections
  <1>4. Fine(d)
    BY <1>3 DEF Fine, Unsafe
  <1>. QED  BY <1>2, <1>3, <1>4, KeepKeeps

LEMMA RosterKeeps ==
    ASSUME IInv, NEW c, Fine(c), c.ssl = jd.ssl, jabber_parse_roster(c)
    PROVE  IInv'
  <1>. DEFINE d == [c EXCEPT !.ic = "online"]
  <1>1. Fine(d) /\ d.ssl = c.ssl
    BY DEF Fine, Connections, Unsafe
  <1>2. "misc" \in Packets /\ "misc" \in Harmless
    BY DEF Packets, Harmless, Digests
  <1>. HIDE DEF d
  <1>3. Keep(c) \/ SendBy(d, "misc", FALSE)
    BY DEF jabber_parse_roster, d
  <1>. QED  BY <1>1, <1>2, <1>3, KeepKeeps, SendKeeps

LEMMA HandlerKeeps ==
    ASSUME IInv, NEW c, Fine(c), c.ssl = jd.ssl, NEW x \in Stanzas,
           Unsafe(c) => x \in Quiet, Handler(c, x)
    PROVE  IInv'
  <1>1. /\ c \in Connections
        /\ {"response", "again", "iqset", "roster", "misc"} \subseteq Packets
        /\ {"again", "roster", "misc"} \subseteq Harmless
        /\ ("challenge" \in Quiet => "response" \in Harmless) /\ "fields" \notin Quiet
    BY ConstantsAssumption DEF Packets, Harmless, Digests, Fine, Quiet
  <1>2. \A F \in SUBSET Flags : /\ Fine([c EXCEPT !.flags = @ \cup F])
                                /\ [c EXCEPT !.flags = @ \cup F].ssl = c.ssl
    BY FlagsFine, FineFlags
  <1>3. {"AUTHENTICATED", "STREAM_RESTART"} \in SUBSET Flags /\ {"AUTHENTICATED"} \in SUBSET Flags
    BY DEF Flags
  <1>4. CASE x \in {"half", "header", "nothing"}
    BY <1>4, KeepKeeps DEF Handler
  <1>5. CASE x = "features"
    <2>1. PICK starttls \in {"no", "yes", "required"},
               mechanisms \in SUBSET {"PLAIN", "DIGEST-MD5", "OTHER"},
               wants \in SUBSET {"WANT_BIND", "WANT_SESSION"} :
             jabber_pkt_features(c, starttls, mechanisms, wants)
      BY <1>5 DEF Handler
    <2>. QED  BY <2>1, FeaturesKeep
  <1>6. CASE x = "proceed"
    BY <1>6, ProceedKeeps DEF Handler
  <1>7. CASE x = "challenge"
    BY <1>1, <1>7, SendKeeps DEF Handler, Send
  <1>8. CASE x = "rspauth"
    BY <1>1, <1>8, SendKeeps DEF Handler, Send
  <1>9. CASE x = "success"
    BY <1>2, <1>3, <1>9, KeepKeeps DEF Handler, SaslSuccess
  <1>10. CASE x \in {"badchallenge", "failure", "iqerror", "end"}
    BY <1>1, <1>10, LogoutKeeps DEF Handler, Logout
  <1>11. CASE x = "fields"
    BY <1>1, <1>11, SendKeeps, LogoutKeeps DEF Handler, Send, Logout
  <1>12. CASE x = "incomplete"
    BY <1>1, <1>12, LogoutKeeps DEF Handler
  <1>13. CASE x = "iqresult"
    BY <1>1, <1>2, <1>3, <1>13, SendKeeps DEF Handler, Send
  <1>14. CASE x = "bound"
    BY <1>14, BindKeeps DEF Handler
  <1>15. CASE x = "contacts"
    BY <1>15, RosterKeeps DEF Handler
  <1>16. CASE x = "ping"
    BY <1>1, <1>16, SendKeeps DEF Handler, Send
  <1>. QED  BY <1>4, <1>5, <1>6, <1>7, <1>8, <1>9, <1>10, <1>11, <1>12, <1>13, <1>14, <1>15, <1>16
            DEF Stanzas

-----------------------------------------------------------------------------
(* The steps *)

\* The connection is fine whenever there is one.
LEMMA ConnectionFine == ASSUME IInv, jd.ic # "none" PROVE Fine(jd)
  BY TypeOKMeans DEF IInv, Guarded, Fine

LEMMA HandleIInv ==
    ASSUME IInv, Handle
    PROVE  IInv'
  <1>. DEFINE c == [jd EXCEPT !.todo = Tail(@)]
  <1>1. Fine(jd) /\ jd \in Connections /\ jd.todo \in Seq(Stanzas) /\ jd.todo # <<>>
    BY ConnectionFine DEF Handle, IInv, Cleared, Fine, Connections
  <1>2. Head(jd.todo) \in Stanzas /\ Tail(jd.todo) \in Seq(Stanzas)
    BY <1>1, HeadTailProperties
  <1>3. Unsafe(jd) => Head(jd.todo) \in Quiet /\ Tail(jd.todo) \in Seq(Quiet)
    BY <1>1, HeadTailProperties DEF Fine
  <1>4. /\ c \in Connections /\ c.ssl = jd.ssl /\ c.ic = jd.ic /\ c.txq = jd.txq
        /\ c.todo = Tail(jd.todo)
    BY <1>1, <1>2 DEF Connections
  <1>5. Fine(c) /\ (Unsafe(c) => Head(jd.todo) \in Quiet)
    BY <1>1, <1>3, <1>4 DEF Fine, Unsafe
  <1>6. Handler(c, Head(jd.todo))
    BY DEF Handle
  <1>. HIDE DEF c
  <1>. QED  BY <1>2, <1>4, <1>5, <1>6, HandlerKeeps

LEMMA ReadEndsIInv ==
    ASSUME IInv, ReadEnds
    PROVE  IInv'
  <1>. DEFINE c == [jd EXCEPT !.reading = FALSE]
              d == [c EXCEPT !.flags = @ \cup {"STREAM_STARTED"}]
              e == [c EXCEPT !.flags = @ \ {"STREAM_RESTART"}]
  <1>1. Fine(jd) /\ jd \in Connections
    BY ConnectionFine DEF ReadEnds, IInv, Cleared, Fine
  <1>2. Fine(c) /\ c.ssl = jd.ssl
    BY <1>1 DEF Fine, Connections, Unsafe
  <1>3. c.flags \cup {"STREAM_STARTED"} \in SUBSET Flags /\ c.flags \ {"STREAM_RESTART"} \in SUBSET Flags
    BY <1>2, FineFlags DEF Flags
  <1>4. Fine(d) /\ d.ssl = jd.ssl /\ Fine(e) /\ e.ssl = jd.ssl
    BY <1>2, <1>3, FlagsFine
  <1>5. \/ StartStreamBy(e, FALSE)
        \/ Keep(c) \/ Keep(d)
        \/ Logout(d)
        \/ set.tls # "true" /\ Send(d, "iqget")
    BY DEF ReadEnds
  <1>. HIDE DEF c, d, e
  <1>6. "iqget" \in Packets
    BY DEF Packets
  <1>7. CASE StartStreamBy(e, FALSE)
    BY <1>4, <1>7, StartStreamKeeps
  <1>8. CASE Keep(c) \/ Keep(d)
    BY <1>2, <1>4, <1>8, KeepKeeps
  <1>9. CASE Logout(d)
    BY <1>4, <1>9, LogoutKeeps DEF Logout, Fine
  <1>10. CASE set.tls # "true" /\ Send(d, "iqget")
    BY <1>4, <1>6, <1>10, SendKeeps DEF Send, Unsafe
  <1>. QED  BY <1>5, <1>7, <1>8, <1>9, <1>10

LEMMA FlushIInv ==
    ASSUME IInv, Flush
    PROVE  IInv'
  <1>1. PICK n \in 1..Len(jd.txq) :
           /\ jd' = [jd EXCEPT !.txq = SubSeq(@, n + 1, Len(@)),
                               !.loop = IF n = Len(jd.txq) THEN @ \ {"w"} ELSE @]
           /\ Taken(jd, Range(SubSeq(jd.txq, 1, n)))
    BY DEF Flush
  <1>. DEFINE old  == SubSeq(jd.txq, 1, n)
              rest == SubSeq(jd.txq, n + 1, Len(jd.txq))
              loop == IF n = Len(jd.txq) THEN jd.loop \ {"w"} ELSE jd.loop
  <1>2. Fine(jd) /\ jd \in Connections /\ jd.txq \in Seq(Packets) /\ jd.ic # "none"
    BY ConnectionFine DEF Flush, Idle, Fine, Connections
  <1>3. ASSUME NEW S, jd.txq \in Seq(S)  PROVE rest \in Seq(S) /\ Range(old) \subseteq S
    <2>1. Len(jd.txq) \in Nat /\ n \in Int /\ \A i \in 1..Len(jd.txq) : jd.txq[i] \in S
      BY <1>3, ElementOfSeq, LenProperties
    <2>2. rest \in Seq(S)
      BY <2>1, SubSeqProperties
    <2>3. old \in Seq(S)
      BY <2>1, SubSeqProperties
    <2>. QED  BY <2>2, <2>3, LenProperties DEF Range
  <1>4. rest \in Seq(Packets) /\ Range(old) \subseteq Packets
    BY <1>2, <1>3
  <1>5. Unsafe(jd) => rest \in Seq(Harmless) /\ Range(old) \subseteq Harmless
    BY <1>2, <1>3 DEF Fine
  <1>6. loop \in SUBSET {"r", "w"}
    BY <1>2 DEF Connections
  <1>7. jd' = [jd EXCEPT !.txq = rest, !.loop = loop] /\ Taken(jd, Range(old))
    BY <1>1
  <1>. HIDE DEF old, rest, loop
  <1>8. /\ jd' \in Connections /\ jd'.ssl = jd.ssl /\ jd'.ic = jd.ic /\ jd'.todo = jd.todo
        /\ jd'.txq = rest
    BY <1>2, <1>4, <1>6, <1>7 DEF Connections
  <1>9. /\ asked' = asked \cup (Range(old) \ {"misc"})
        /\ exposed' = exposed \cup IF jd.ssl = "none" THEN Range(old) \cap Secrets ELSE {}
        /\ UNCHANGED <<set, orphans, inbox, peer, used>>
    BY <1>7 DEF Taken
  <1>10. asked' \subseteq Packets \cup {"features", "restart"} /\ "misc" \notin asked'
    BY <1>4, <1>9 DEF IInv, TypeOK
  <1>11. {peer', used'} \subseteq BOOLEAN /\ exposed' \subseteq Secrets
    BY <1>9 DEF IInv, TypeOK
  <1>12. TypeOK'
    BY <1>8, <1>9, <1>10, <1>11 DEF IInv, TypeOK, Connections
  <1>13. Cleared' /\ Guarded'
    BY <1>2, <1>5, <1>8, <1>9 DEF IInv, Cleared, Guarded, Unsafe
  <1>14. SecretsStayInside'
    BY <1>5, <1>9 DEF IInv, SecretsStayInside, Secrets, Harmless, Digests, Unsafe
  <1>. QED  BY <1>10, <1>12, <1>13, <1>14 DEF IInv

LEMMA ReadIInv ==
    ASSUME IInv, Read
    PROVE  IInv'
  <1>1. PICK n \in 1..Len(inbox) :
          LET new  == SubSeq(inbox, 1, n)
              root == IF "header" \in Range(new) THEN set.server ELSE jd.root
          IN  /\ jd' = IF root = "none" THEN [jd EXCEPT !.loop = @ \ {"r"}]
                       ELSE [jd EXCEPT !.root = root, !.reading = TRUE, !.todo = new]
              /\ inbox' = SubSeq(inbox, n + 1, Len(inbox))
    BY DEF Read
  <1>. DEFINE new  == SubSeq(inbox, 1, n)
              root == IF "header" \in Range(new) THEN set.server ELSE jd.root
              rest == SubSeq(inbox, n + 1, Len(inbox))
  <1>2. Fine(jd) /\ jd \in Connections /\ inbox \in Seq(Stanzas) /\ set \in Settings /\ jd.ic # "none"
    BY ConnectionFine DEF Read, Idle, Fine, IInv, TypeOK
  <1>3. ASSUME NEW S, inbox \in Seq(S)  PROVE new \in Seq(S) /\ rest \in Seq(S)
    <2>1. Len(inbox) \in Nat /\ n \in Int /\ \A i \in 1..Len(inbox) : inbox[i] \in S
      BY <1>3, ElementOfSeq, LenProperties
    <2>. QED  BY <2>1, SubSeqProperties
  <1>4. new \in Seq(Stanzas) /\ rest \in Seq(Stanzas)
    BY <1>2, <1>3
  <1>5. Unsafe(jd) => new \in Seq(Quiet) /\ rest \in Seq(Quiet)
    BY <1>3 DEF IInv, Guarded
  <1>6. root \in {"none", "xmpp", "old"}
    <2>1. set.server \in {"xmpp", "old"}
      BY <1>2, ConstantsAssumption
    <2>. QED  BY <1>2, <2>1 DEF Connections
  <1>7. /\ \/ jd' = [jd EXCEPT !.loop = jd.loop \ {"r"}]
           \/ jd' = [jd EXCEPT !.root = root, !.reading = TRUE, !.todo = new]
        /\ inbox' = rest
        /\ UNCHANGED <<set, orphans, asked, peer, exposed, used>>
    BY <1>1 DEF Read
  <1>. HIDE DEF new, root, rest
  <1>8. /\ jd' \in Connections /\ jd'.ssl = jd.ssl /\ jd'.ic = jd.ic /\ jd'.txq = jd.txq
        /\ jd'.todo \in {jd.todo, new}
    <2>1. CASE jd' = [jd EXCEPT !.loop = jd.loop \ {"r"}]
      <3>1. jd.loop \ {"r"} \in SUBSET {"r", "w"}
        BY <1>2 DEF Connections
      <3>. QED  BY <1>2, <2>1, <3>1 DEF Connections
    <2>2. CASE jd' = [jd EXCEPT !.root = root, !.reading = TRUE, !.todo = new]
      BY <1>2, <1>4, <1>6, <2>2 DEF Connections
    <2>. QED  BY <1>7, <2>1, <2>2
  <1>9. TypeOK'
    BY <1>4, <1>7, <1>8 DEF IInv, TypeOK, Connections
  <1>10. Cleared' /\ Guarded' /\ SecretsStayInside'
    BY <1>2, <1>5, <1>7, <1>8 DEF IInv, Cleared, Guarded, SecretsStayInside, Unsafe
  <1>. QED  BY <1>7, <1>9, <1>10 DEF IInv

\* The connection is made, and TLS with it.
LEMMA ConnectIInv ==
    ASSUME IInv, jabber_login \/ jabber_connected_plain \/ ssl_connected \/ jabber_connected_ssl
    PROVE  IInv'
  <1>1. CASE jabber_login
    <2>. DEFINE ssl == IF set'.ssl THEN "new" ELSE "none"
    <2>1. jd \in Connections /\ ssl \in {"none", "new"}
      BY TypeOKMeans DEF IInv
    <2>2. /\ jd' = [jd EXCEPT !.ic = "login", !.fd = "connecting", !.lib = "proxy", !.ssl = ssl]
          /\ set' \in Settings /\ exposed' = {} /\ jd.ic = "none"
          /\ UNCHANGED <<orphans, inbox, asked>>
      BY <1>1 DEF jabber_login
    <2>. HIDE DEF ssl
    <2>3. jd' \in Connections /\ jd'.ic = "login" /\ jd'.txq = jd.txq /\ jd'.todo = jd.todo
      BY <2>1, <2>2 DEF Connections
    <2>4. {peer', used'} \subseteq BOOLEAN /\ exposed' \subseteq Secrets
      <3>1. used \in BOOLEAN
        BY DEF IInv, TypeOK
      <3>2. peer' = TRUE /\ exposed' = {} /\ used' = used
        BY <1>1 DEF jabber_login
      <3>. QED  BY <3>1, <3>2
    <2>5. TypeOK'
      <3>1. /\ orphans' \subseteq {"proxy", "starttls"} /\ inbox' \in Seq(Stanzas)
            /\ asked' \subseteq Packets \cup {"features", "restart"}
        BY <2>2 DEF IInv, TypeOK
      <3>. QED  BY <2>2, <2>3, <2>4, <3>1 DEF TypeOK, Connections
    <2>6. jd.txq = <<>> /\ jd.todo = <<>> /\ inbox = <<>> /\ asked = {}
      BY <2>2 DEF IInv, Cleared
    <2>7. Cleared' /\ SecretsStayInside'
      BY <2>2, <2>3 DEF Cleared, SecretsStayInside
    <2>8. /\ jd'.txq \in Seq(Harmless) /\ jd'.todo \in Seq(Quiet) /\ inbox' \in Seq(Quiet)
          /\ asked' = {}
      BY <2>2, <2>3, <2>6, EmptySeq
    <2>9. Guarded'
      BY <2>8 DEF Guarded
    <2>. QED  BY <2>2, <2>5, <2>7, <2>9 DEF IInv
  <1>2. CASE jabber_connected_plain
    <2>. DEFINE c == [jd EXCEPT !.lib = "none", !.fd = "open"]
    <2>1. Fine(jd)
      BY <1>2, ConnectionFine DEF jabber_connected_plain, Idle
    <2>2. Fine(c) /\ c \in Connections /\ c.ssl = jd.ssl
      BY <2>1 DEF Fine, Connections, Unsafe
    <2>3. StartStreamBy(c, TRUE) \/ Logout(c)
      BY <1>2 DEF jabber_connected_plain
    <2>. HIDE DEF c
    <2>. QED  BY <2>2, <2>3, StartStreamKeeps, LogoutKeeps DEF Logout
  <1>3. CASE ssl_connected
    <2>. DEFINE c == [jd EXCEPT !.lib = "handshake", !.fd = "open"]
    <2>1. Fine(jd)
      BY <1>3, ConnectionFine DEF ssl_connected, Idle
    <2>2. Fine(c) /\ c.ssl = jd.ssl
      BY <2>1 DEF Fine, Connections, Unsafe
    <2>3. Keep(c)
      BY <1>3 DEF ssl_connected
    <2>. QED  BY <2>2, <2>3, KeepKeeps
  <1>4. CASE jabber_connected_ssl
    <2>. DEFINE c == [jd EXCEPT !.lib = "none", !.ssl = "up"]
    <2>1. Fine(jd)
      BY <1>4, ConnectionFine DEF jabber_connected_ssl, Idle
    <2>2. Fine(c) /\ c.ssl = "up"
      BY <2>1 DEF Fine, Connections, Unsafe
    <2>3. StartStreamBy(c, TRUE)
      BY <1>4 DEF jabber_connected_ssl
    <2>. QED  BY <2>2, <2>3, StartStreamKeeps
  <1>. QED  BY <1>1, <1>2, <1>3, <1>4

LEMMA EndIInv ==
    ASSUME IInv, SslFails \/ FlushFails \/ ReadFails \/ SwitchOff
    PROVE  IInv'
  <1>1. jd \in Connections
    BY TypeOKMeans DEF IInv
  <1>2. /\ [jd EXCEPT !.lib = "none", !.ssl = "none"] \in Connections
        /\ [jd EXCEPT !.fd = "none"] \in Connections
    BY <1>1 DEF Connections
  <1>. QED  BY <1>1, <1>2, LogoutKeeps DEF SslFails, FlushFails, ReadFails, SwitchOff, Logout

LEMMA UserLineIInv ==
    ASSUME IInv, UserLine
    PROVE  IInv'
  <1>1. "misc" \in Packets /\ "misc" \in Harmless
    BY DEF Packets, Harmless, Digests
  <1>. QED  BY <1>1, ConnectionFine, SendKeeps DEF UserLine, Send, Idle

LEMMA OtherIInv ==
    ASSUME IInv, OrphanRuns \/ ServerCloses \/ UNCHANGED vars
    PROVE  IInv'
  <1>1. /\ UNCHANGED <<jd, set, inbox, asked, exposed>> /\ orphans' \subseteq orphans
    BY DEF OrphanRuns, ServerCloses, vars
  <1>2. TypeOK'
    <2>1. {peer, used} \subseteq BOOLEAN /\ exposed \subseteq Secrets
      BY DEF IInv, TypeOK
    <2>2. CASE OrphanRuns
      <3>1. used' = TRUE /\ UNCHANGED <<peer, exposed>>
        BY <2>2 DEF OrphanRuns
      <3>2. {peer', used'} \subseteq BOOLEAN /\ exposed' \subseteq Secrets
        BY <2>1, <3>1
      <3>. QED  BY <1>1, <3>2 DEF IInv, TypeOK
    <2>3. CASE ServerCloses
      <3>1. peer' = FALSE /\ UNCHANGED <<used, exposed>>
        BY <2>3 DEF ServerCloses
      <3>2. {peer', used'} \subseteq BOOLEAN /\ exposed' \subseteq Secrets
        BY <2>1, <3>1
      <3>. QED  BY <1>1, <3>2 DEF IInv, TypeOK
    <2>4. CASE UNCHANGED vars
      BY <2>4 DEF vars, IInv, TypeOK
    <2>. QED  BY <2>2, <2>3, <2>4
  <1>3. Cleared' /\ Guarded' /\ SecretsStayInside'
    BY <1>1 DEF IInv, Cleared, Guarded, SecretsStayInside, Unsafe
  <1>. QED  BY <1>1, <1>2, <1>3 DEF IInv

\* A server that is asked nothing which leads to a secret answers nothing that
\* does, beyond what it says unasked.
LEMMA AnswersQuiet ==
    ASSUME NEW q \in (Packets \cup {"features"}) \ {"header", "misc"}, NEW x \in Answers(q)
    PROVE  x \in Stanzas /\ (q \in Harmless \cup {"features"} => x \in Quiet)
  BY DEF Answers, Packets, Harmless, Digests, Stanzas, Quiet

LEMMA ServerIInv ==
    ASSUME IInv, ServerAnswers \/ ServerSpeaks
    PROVE  IInv'
  <1>. inbox \in Seq(Stanzas) /\ asked \subseteq Packets \cup {"features", "restart"}
    BY DEF IInv, TypeOK
  <1>1. /\ UNCHANGED <<jd, set, orphans, peer, exposed, used>>
        /\ jd.ic # "none"
    <2>1. CASE ServerAnswers
      <3>1. asked # {} /\ UNCHANGED <<jd, set, orphans, peer, exposed, used>>
        BY <2>1 DEF ServerAnswers
      <3>. QED  BY <3>1 DEF IInv, Cleared
    <2>2. CASE ServerSpeaks
      BY <2>2 DEF ServerSpeaks, IInv, Cleared
    <2>. QED  BY <2>1, <2>2
  <1>2. /\ inbox' \in Seq(Stanzas) /\ (inbox \in Seq(Quiet) /\ Unsafe(jd) => inbox' \in Seq(Quiet))
        /\ asked' \subseteq asked \cup {"features", "restart"}
    <2>1. /\ {"half", "header", "end", "ping"} \cup Unasked \subseteq Stanzas
          /\ {"half", "header", "end", "ping"} \cup Unasked \subseteq Quiet
      BY ConstantsAssumption DEF Stanzas, Quiet
    <2>2. ASSUME "header" \in asked, NEW half \in {<<>>, <<"half">>},
                 inbox' = inbox \o half \o <<"header">>
          PROVE  inbox' \in Seq(Stanzas) /\ (inbox \in Seq(Quiet) => inbox' \in Seq(Quiet))
      <3>1. ASSUME NEW S, {"half", "header"} \subseteq S, inbox \in Seq(S)  PROVE inbox' \in Seq(S)
        <4>1. <<>> \in Seq(S) /\ <<"half">> \in Seq(S) /\ <<"header">> \in Seq(S)
          <5>1. "half" \in S /\ "header" \in S
            BY <3>1
          <5>. QED  BY <5>1, EmptySeq
        <4>2. inbox \o half \in Seq(S)
          BY <3>1, <4>1, ConcatProperties
        <4>. QED  BY <2>2, <4>1, <4>2, ConcatProperties
      <3>. QED  BY <2>1, <3>1
    <2>3. ASSUME asked \cap {"header", "restart"} = {}, NEW q \in asked, NEW x \in Answers(q),
                 inbox' = Append(inbox, x)
          PROVE  inbox' \in Seq(Stanzas) /\ (inbox \in Seq(Quiet) /\ Unsafe(jd) => inbox' \in Seq(Quiet))
      <3>1. q \in (Packets \cup {"features"}) \ {"header", "misc"}
        BY <2>3 DEF IInv
      <3>2. Unsafe(jd) => q \in Harmless \cup {"features"}
        BY <2>3 DEF IInv, Guarded
      <3>3. x \in Stanzas /\ (Unsafe(jd) => x \in Quiet)
        BY <3>1, <3>2, AnswersQuiet
      <3>. QED  BY <2>3, <3>3, AppendProperties
    <2>4. CASE ServerSpeaks
      <3>1. \E x \in {"end", "ping"} \cup Unasked : inbox' = <<x>>
        BY <2>4 DEF ServerSpeaks
      <3>2. \A x \in {"end", "ping"} \cup Unasked : <<x>> \in Seq(Stanzas) /\ <<x>> \in Seq(Quiet)
        BY <2>1
      <3>. QED  BY <2>4, <3>1, <3>2 DEF ServerSpeaks
    <2>5. CASE ServerAnswers
      <3>1. CASE /\ "header" \in asked
                 /\ \E half \in {<<>>} \cup IF "half" \in Quirks THEN {<<"half">>} ELSE {} :
                       inbox' = inbox \o half \o <<"header">>
                 /\ asked' = IF set.server = "xmpp" THEN {"features"} ELSE {}
        BY <2>2, <3>1
      <3>2. CASE /\ asked \cap {"header", "restart"} = {}
                 /\ \E q \in asked : \E x \in Answers(q) :
                       /\ inbox' = Append(inbox, x)
                       /\ asked' = IF x \in {"success", "proceed"} THEN {"restart"} ELSE asked \ {q}
        BY <2>3, <3>2
      <3>. QED  BY <2>5, <3>1, <3>2 DEF ServerAnswers
    <2>. QED  BY <2>4, <2>5
  <1>3. TypeOK' /\ "misc" \notin asked'
    BY <1>1, <1>2 DEF IInv, TypeOK
  <1>4. Cleared' /\ Guarded' /\ SecretsStayInside'
    BY <1>1, <1>2 DEF IInv, Cleared, Guarded, SecretsStayInside, Unsafe
  <1>. QED  BY <1>3, <1>4 DEF IInv

LEMMA NextIInv == IInv /\ [Next]_vars => IInv'
  BY HandleIInv, ReadEndsIInv, FlushIInv, ReadIInv, ConnectIInv, EndIInv, UserLineIInv,
     OtherIInv, ServerIInv DEF Next

LEMMA InvariantIInv == Spec => []IInv
  BY InitIInv, NextIInv, PTL DEF Spec

-----------------------------------------------------------------------------

\* Types: every queue holds what the handlers and the writer know.
THEOREM TypeCorrect == Spec => []TypeOK
  <1>1. IInv => TypeOK
    BY DEF IInv
  <1>. QED  BY <1>1, InvariantIInv, PTL

\* With tls set to true neither login is begun outside TLS (jabber_pkt_features()
\* and jabber_read_callback() of io.c), however the writes are split, whatever
\* is queued when the server says proceed, and whatever the server offers; and
\* sasl_pkt_challenge() sends a digest there only to a server that challenges the
\* client without being asked to.
THEOREM NoSecretOutsideTls == Spec => []SecretsStayInside
  <1>1. IInv => SecretsStayInside
    BY DEF IInv
  <1>. QED  BY <1>1, InvariantIInv, PTL

-----------------------------------------------------------------------------
(* Every connection is attended, if a stream's opening tag comes in one     *)
(* piece with what is before it.                                            *)

Headers(q) == {i \in 1..Len(q) : q[i] = "header"}

\* After these the server waits for a new stream.
Ends == {"success", "proceed"}

\* The new stream is not asked for yet.
Waiting(c) == c.lib # "none" \/ "STREAM_RESTART" \in c.flags

\* The handles and the watches agree, but for the one of a drained queue.
Watches(c) ==
    /\ "r" \in c.loop <=> c.r_inpa
    /\ "w" \in c.loop => c.w_inpa
    /\ "w" \in c.loop <=> c.txq # <<>>

\* The client and the server agree on where a stream begins: while the header
\* is asked for nothing else arrives, what ends a stream is the last that
\* does, and the first that arrives of the next one is its header.
Streams(c, in, as) ==
    /\ ~c.reading => c.todo = <<>>
    /\ "STREAM_RESTART" \in c.flags => c.lib = "none" /\ c.reading
    /\ \A i, j \in Headers(c.txq) : i = j
    /\ \A i \in 1..Len(c.todo) : c.todo[i] \in Ends => i = Len(c.todo) /\ in = <<>> /\ "restart" \in as
    /\ \A i \in 1..Len(in) : in[i] \in Ends => i = Len(in) /\ "restart" \in as
    /\ Waiting(c) => /\ in = <<>> /\ c.todo = <<>> /\ "header" \notin as /\ Headers(c.txq) = {}
                     /\ "restart" \in as \/ (as = {} /\ c.txq = <<>> /\ c.root = "none" /\ c.ic = "login")
    /\ Headers(c.txq) # {} => /\ "header" \notin as /\ c.root = "none" /\ in = <<>>
                              /\ "restart" \in as \/ (as = {} /\ c.txq[1] = "header")
    /\ "header" \in as => c.root = "none" /\ in = <<>>
    /\ c.root = "none" => /\ ~c.reading
                          /\ \/ in # <<>> /\ in[1] = "header"
                             \/ Waiting(c) \/ Headers(c.txq) # {} \/ "header" \in as

Served(c) ==
    /\ c \in Connections /\ c.ic # "none"
    /\ Watches(c) /\ (c.lib = "none" => "r" \in c.loop)
    /\ Streams(c, inbox, asked)

WInv ==
    /\ jd.ic = "none" => jd.loop = {} /\ ~jd.r_inpa
    /\ jd.ic # "none" => Served(jd)

LEMMA KeepServes ==
    ASSUME NEW c, Served(c), Keep(c)
    PROVE  WInv'
  BY DEF WInv, Served, Keep

\* jabber_logout() takes the watches it has handles of.
LEMMA LogoutServes ==
    ASSUME NEW c \in Connections, "r" \in c.loop => c.r_inpa, "w" \in c.loop => c.w_inpa,
           NEW careful, imc_logout(c, careful)
    PROVE  WInv'
  <1>. DEFINE loop == c.loop \ ((IF c.r_inpa THEN {"r"} ELSE {}) \cup (IF c.w_inpa THEN {"w"} ELSE {}))
  <1>1. loop = {}
    BY DEF Connections
  <1>2. jd' = [Off EXCEPT !.loop = loop]
    BY DEF imc_logout, jabber_logout
  <1>. HIDE DEF loop
  <1>3. jd'.ic = "none" /\ jd'.loop = {} /\ ~jd'.r_inpa
    BY <1>1, <1>2 DEF Off
  <1>. QED  BY <1>3 DEF WInv

LEMMA HeadersAppend ==
    ASSUME NEW q \in Seq(Packets), NEW packet \in Packets
    PROVE  /\ packet # "header" => Headers(Append(q, packet)) = Headers(q)
           /\ packet = "header" => Headers(Append(q, packet)) = Headers(q) \cup {Len(q) + 1}
           /\ q # <<>> => Append(q, packet)[1] = q[1] /\ Append(q, packet) # <<>>
  <1>1. /\ Len(q) \in Nat /\ Len(Append(q, packet)) = Len(q) + 1
        /\ \A i \in 1..Len(q) : Append(q, packet)[i] = q[i]
        /\ Append(q, packet)[Len(q) + 1] = packet
    BY AppendProperties, LenProperties
  <1>2. q # <<>> => Len(q) >= 1
    BY EmptySeq, LenProperties
  <1>. QED  BY <1>1, <1>2 DEF Headers

LEMMA HeadersOne == \A packet : Headers(<<packet>>) = (IF packet = "header" THEN {1} ELSE {})
  BY DEF Headers

LEMMA HeadersNone == Headers(<<>>) = {}
  BY DEF Headers

\* Packets of a stream do not get in the way of the next one.
LEMMA SendServes ==
    ASSUME NEW c, Served(c), Waiting(c) => "restart" \in asked,
           NEW packet \in Packets \ {"header"}, NEW careful, SendBy(c, packet, careful)
    PROVE  WInv'
  <1>. c \in Connections /\ c.txq \in Seq(Packets)
    BY DEF Served, Connections
  <1>1. CASE c.txq # <<>> /\ Keep([c EXCEPT !.txq = Append(@, packet)])
    <2>. DEFINE q == Append(c.txq, packet)
                d == [c EXCEPT !.txq = q]
    <2>1. Headers(q) = Headers(c.txq) /\ q[1] = c.txq[1] /\ q # <<>> /\ q \in Seq(Packets)
      BY <1>1, HeadersAppend, AppendProperties
    <2>. HIDE DEF q
    <2>2. /\ d \in Connections /\ d.txq = q /\ d.ic = c.ic /\ d.lib = c.lib /\ d.flags = c.flags
          /\ d.root = c.root /\ d.reading = c.reading /\ d.todo = c.todo /\ d.loop = c.loop
          /\ d.r_inpa = c.r_inpa /\ d.w_inpa = c.w_inpa
      BY <2>1 DEF Connections
    <2>3. Keep(d)
      BY <1>1 DEF q
    <2>. HIDE DEF d
    <2>4. Served(d)
      BY <1>1, <2>1, <2>2 DEF Served, Watches, Streams, Waiting
    <2>. QED  BY <2>3, <2>4, KeepServes
  <1>2. CASE c.txq = <<>> /\ jd' = c /\ Taken(c, {packet})
    <2>1. asked' = asked \cup ({packet} \ {"misc"}) /\ inbox' = inbox
      BY <1>2 DEF Taken
    <2>2. "header" \in asked' <=> "header" \in asked
      BY <2>1
    <2>3. "restart" \in asked => "restart" \in asked'
      BY <2>1
    <2>4. Streams(c, inbox, asked')
      BY <1>2, <2>2, <2>3, HeadersNone DEF Served, Streams
    <2>. QED  BY <1>2, <2>1, <2>4 DEF WInv, Served
  <1>3. CASE c.txq = <<>> /\ Keep([c EXCEPT !.txq = <<packet>>, !.w_inpa = TRUE, !.loop = @ \cup {"w"}])
    <2>. DEFINE d == [c EXCEPT !.txq = <<packet>>, !.w_inpa = TRUE, !.loop = @ \cup {"w"}]
    <2>1. <<packet>> \in Seq(Packets) /\ c.loop \cup {"w"} \in SUBSET {"r", "w"}
      BY DEF Connections
    <2>2. /\ d \in Connections /\ d.txq = <<packet>> /\ d.ic = c.ic /\ d.lib = c.lib /\ d.flags = c.flags
          /\ d.root = c.root /\ d.reading = c.reading /\ d.todo = c.todo /\ d.loop = c.loop \cup {"w"}
          /\ d.r_inpa = c.r_inpa /\ d.w_inpa
      BY <2>1 DEF Connections
    <2>3. Headers(<<packet>>) = {} /\ Headers(c.txq) = {} /\ <<packet>> # <<>>
      BY <1>3, HeadersOne, HeadersNone
    <2>. HIDE DEF d
    <2>4. Served(d)
      BY <1>3, <2>2, <2>3 DEF Served, Watches, Streams, Waiting
    <2>. QED  BY <1>3, <2>4, KeepServes DEF d
  <1>4. CASE imc_logout([c EXCEPT !.fd = "none"], careful)
    <2>. DEFINE d == [c EXCEPT !.fd = "none"]
    <2>1. d \in Connections /\ d.loop = c.loop /\ d.r_inpa = c.r_inpa /\ d.w_inpa = c.w_inpa
      BY DEF Connections
    <2>. HIDE DEF d
    <2>2. imc_logout(d, careful)
      BY <1>4 DEF d
    <2>. QED  BY <2>1, <2>2, LogoutServes DEF Served, Watches
  <1>. QED  BY <1>1, <1>2, <1>3, <1>4 DEF SendBy

\* A connection on which a new stream can begin.
Starting(c) ==
    /\ c \in Connections /\ c.ic # "none" /\ Watches(c)
    /\ ~Waiting(c) /\ ~c.reading /\ c.todo = <<>> /\ inbox = <<>>
    /\ "header" \notin asked /\ Headers(c.txq) = {}
    /\ "restart" \in asked \/ (asked = {} /\ c.txq = <<>>)

LEMMA HeaderServes ==
    ASSUME NEW c, Starting(c), "r" \in c.loop, c.root = "none", NEW careful, SendBy(c, "header", careful)
    PROVE  WInv'
  <1>. c \in Connections /\ c.txq \in Seq(Packets) /\ "header" \in Packets
    BY DEF Starting, Connections, Packets
  <1>0. 1..Len(c.todo) = {} /\ 1..Len(inbox) = {}
    BY DEF Starting
  <1>1. CASE c.txq # <<>> /\ Keep([c EXCEPT !.txq = Append(@, "header")])
    <2>. DEFINE q == Append(c.txq, "header")
                d == [c EXCEPT !.txq = q]
    <2>1. Headers(q) = {Len(c.txq) + 1} /\ q # <<>> /\ q \in Seq(Packets)
      BY <1>1, HeadersAppend, AppendProperties DEF Starting
    <2>. HIDE DEF q
    <2>2. /\ d \in Connections /\ d.txq = q /\ d.ic = c.ic /\ d.lib = c.lib /\ d.flags = c.flags
          /\ d.root = c.root /\ d.reading = c.reading /\ d.todo = c.todo /\ d.loop = c.loop
          /\ d.r_inpa = c.r_inpa /\ d.w_inpa = c.w_inpa
      BY <2>1 DEF Connections
    <2>3. Keep(d)
      BY <1>1 DEF q
    <2>. HIDE DEF d
    <2>4. Streams(d, inbox, asked)
      BY <1>0, <1>1, <2>1, <2>2 DEF Starting, Streams, Waiting
    <2>5. Served(d)
      BY <1>1, <2>1, <2>2, <2>4 DEF Starting, Served, Watches
    <2>. QED  BY <2>3, <2>5, KeepServes
  <1>2. CASE c.txq = <<>> /\ jd' = c /\ Taken(c, {"header"})
    <2>1. asked' = asked \cup ({"header"} \ {"misc"}) /\ inbox' = inbox
      BY <1>2 DEF Taken
    <2>2. "header" \in asked'
      BY <2>1
    <2>3. Streams(c, inbox, asked')
      BY <1>0, <1>2, <2>2, HeadersNone DEF Starting, Streams, Waiting
    <2>. QED  BY <1>2, <2>1, <2>3 DEF WInv, Served, Starting
  <1>3. CASE c.txq = <<>> /\ Keep([c EXCEPT !.txq = <<"header">>, !.w_inpa = TRUE, !.loop = @ \cup {"w"}])
    <2>. DEFINE q == <<"header">>
                d == [c EXCEPT !.txq = q, !.w_inpa = TRUE, !.loop = @ \cup {"w"}]
    <2>1. q \in Seq(Packets) /\ c.loop \cup {"w"} \in SUBSET {"r", "w"}
      BY DEF Connections
    <2>2. /\ d \in Connections /\ d.txq = q /\ d.ic = c.ic /\ d.lib = c.lib /\ d.flags = c.flags
          /\ d.root = c.root /\ d.reading = c.reading /\ d.todo = c.todo /\ d.loop = c.loop \cup {"w"}
          /\ d.r_inpa = c.r_inpa /\ d.w_inpa
      BY <2>1 DEF Connections
    <2>3. Headers(q) = {1} /\ q # <<>> /\ q[1] = "header"
      BY HeadersOne
    <2>. HIDE DEF d, q
    <2>4. Streams(d, inbox, asked)
      BY <1>0, <1>3, <2>2, <2>3 DEF Starting, Streams, Waiting
    <2>5. Served(d)
      BY <1>3, <2>2, <2>3, <2>4 DEF Starting, Served, Watches
    <2>. QED  BY <1>3, <2>5, KeepServes DEF d, q
  <1>4. CASE imc_logout([c EXCEPT !.fd = "none"], careful)
    <2>. DEFINE d == [c EXCEPT !.fd = "none"]
    <2>1. d \in Connections /\ d.loop = c.loop /\ d.r_inpa = c.r_inpa /\ d.w_inpa = c.w_inpa
      BY DEF Connections
    <2>. HIDE DEF d
    <2>2. imc_logout(d, careful)
      BY <1>4 DEF d
    <2>. QED  BY <2>1, <2>2, LogoutServes DEF Starting, Watches
  <1>. QED  BY <1>1, <1>2, <1>3, <1>4 DEF SendBy

\* jabber_start_stream() sees to it that the socket is read.
LEMMA StartServes ==
    ASSUME NEW c, Starting(c), NEW careful, StartStreamBy(c, careful)
    PROVE  WInv'
  <1>1. CASE c.r_inpa
    <2>. DEFINE d == [c EXCEPT !.root = "none"]
    <2>1. /\ d \in Connections /\ d.ic = c.ic /\ d.lib = c.lib /\ d.flags = c.flags /\ d.txq = c.txq
          /\ d.root = "none" /\ d.reading = c.reading /\ d.todo = c.todo /\ d.loop = c.loop
          /\ d.r_inpa = c.r_inpa /\ d.w_inpa = c.w_inpa
      BY DEF Starting, Connections
    <2>2. SendBy(d, "header", careful)
      BY <1>1 DEF StartStreamBy
    <2>. HIDE DEF d
    <2>3. Starting(d) /\ "r" \in d.loop
      BY <1>1, <2>1 DEF Starting, Watches, Waiting
    <2>. QED  BY <2>1, <2>2, <2>3, HeaderServes
  <1>2. CASE ~c.r_inpa
    <2>. DEFINE d == [c EXCEPT !.root = "none", !.r_inpa = TRUE, !.loop = @ \cup {"r"}]
    <2>1. c \in Connections /\ c.loop \cup {"r"} \in SUBSET {"r", "w"}
      BY DEF Starting, Connections
    <2>2. /\ d \in Connections /\ d.ic = c.ic /\ d.lib = c.lib /\ d.flags = c.flags /\ d.txq = c.txq
          /\ d.root = "none" /\ d.reading = c.reading /\ d.todo = c.todo /\ d.loop = c.loop \cup {"r"}
          /\ d.r_inpa /\ d.w_inpa = c.w_inpa
      BY <2>1 DEF Connections
    <2>3. SendBy(d, "header", careful)
      BY <1>2 DEF StartStreamBy
    <2>. HIDE DEF d
    <2>4. Starting(d) /\ "r" \in d.loop
      BY <1>2, <2>2 DEF Starting, Watches, Waiting
    <2>. QED  BY <2>2, <2>3, <2>4, HeaderServes
  <1>. QED  BY <1>1, <1>2

\* A connection whose stanzas are being handled.
Handling(c) == Served(c) /\ c.reading /\ ~Waiting(c)

LEMMA FlagsServe ==
    ASSUME NEW c, Handling(c), NEW F \in SUBSET Flags, "STREAM_RESTART" \notin F
    PROVE  Handling([c EXCEPT !.flags = F]) /\ [c EXCEPT !.flags = F].flags = F
  <1>. DEFINE d == [c EXCEPT !.flags = F]
  <1>1. /\ d \in Connections /\ d.ic = c.ic /\ d.lib = c.lib /\ d.flags = F /\ d.txq = c.txq
        /\ d.root = c.root /\ d.reading = c.reading /\ d.todo = c.todo /\ d.loop = c.loop
        /\ d.r_inpa = c.r_inpa /\ d.w_inpa = c.w_inpa
    BY DEF Handling, Served, Connections
  <1>. HIDE DEF d
  <1>2. Streams(d, inbox, asked)
    BY <1>1 DEF Handling, Served, Streams, Waiting
  <1>3. Handling(d)
    BY <1>1, <1>2 DEF Handling, Served, Watches, Waiting
  <1>. QED  BY <1>1, <1>3 DEF d

LEMMA HandlingFlags ==
    ASSUME NEW c, Handling(c)
    PROVE  c \in Connections /\ c.flags \in SUBSET Flags /\ "STREAM_RESTART" \notin c.flags
  BY DEF Handling, Served, Connections, Waiting

LEMMA HandlingKeep ==
    ASSUME NEW c, Handling(c), Keep(c)
    PROVE  WInv'
  BY KeepServes DEF Handling

LEMMA HandlingSend ==
    ASSUME NEW c, Handling(c), NEW packet \in Packets \ {"header"}, NEW careful, SendBy(c, packet, careful)
    PROVE  WInv'
  BY SendServes DEF Handling

LEMMA HandlingLogout ==
    ASSUME NEW c, Handling(c), NEW careful, imc_logout(c, careful)
    PROVE  WInv'
  BY LogoutServes DEF Handling, Served, Watches

LEMMA BindServes ==
    ASSUME NEW c, Handling(c), jabber_pkt_bind_sess(c)
    PROVE  WInv'
  <1>1. {"bind", "session", "roster"} \subseteq Packets \ {"header"}
    BY DEF Packets
  <1>2. \A f \in Flags : Handling([c EXCEPT !.flags = @ \ {f}])
    BY FlagsServe, HandlingFlags
  <1>3. {"WANT_BIND", "WANT_SESSION"} \subseteq Flags
    BY DEF Flags
  <1>4. CASE "WANT_BIND" \in c.flags
    BY <1>1, <1>2, <1>3, <1>4, HandlingSend DEF jabber_pkt_bind_sess, Send
  <1>5. CASE "WANT_BIND" \notin c.flags /\ "WANT_SESSION" \in c.flags
    BY <1>1, <1>2, <1>3, <1>5, HandlingSend DEF jabber_pkt_bind_sess, Send
  <1>6. CASE "WANT_BIND" \notin c.flags /\ "WANT_SESSION" \notin c.flags
    BY <1>1, <1>6, HandlingSend DEF jabber_pkt_bind_sess, Send
  <1>. QED  BY <1>4, <1>5, <1>6

LEMMA FeaturesServe ==
    ASSUME NEW c, Handling(c),
           NEW starttls \in {"no", "yes", "required"},
           NEW mechanisms \in SUBSET {"PLAIN", "DIGEST-MD5", "OTHER"},
           NEW wants \in SUBSET {"WANT_BIND", "WANT_SESSION"},
           jabber_pkt_features(c, starttls, mechanisms, wants)
    PROVE  WInv'
  <1>. DEFINE d == [c EXCEPT !.flags = @ \cup wants]
              e == [d EXCEPT !.flags = @ \cup {"STREAM_STARTED"}]
  <1>1. {"starttls", "iqget", "plain", "digest"} \subseteq Packets \ {"header"}
    BY DEF Packets
  <1>2. c.flags \cup wants \in SUBSET Flags /\ "STREAM_RESTART" \notin c.flags \cup wants
    BY HandlingFlags DEF Flags
  <1>3. Handling(d) /\ d.flags = c.flags \cup wants
    BY <1>2, FlagsServe
  <1>4. d.flags \cup {"STREAM_STARTED"} \in SUBSET Flags /\ "STREAM_RESTART" \notin d.flags \cup {"STREAM_STARTED"}
    BY <1>2, <1>3 DEF Flags
  <1>5. Handling(e)
    <2>. HIDE DEF d
    <2>. QED  BY <1>3, <1>4, FlagsServe
  <1>6. \/ Logout(c)
        \/ Send(c, "starttls")
        \/ Send(e, Mechanism(mechanisms))
        \/ jabber_pkt_bind_sess(d)
        \/ Send(d, "iqget")
        \/ Keep(d)
    BY DEF jabber_pkt_features
  <1>. HIDE DEF d, e
  <1>7. Mechanism(mechanisms) \in Packets \ {"header"}
    BY <1>1 DEF Mechanism
  <1>8. CASE Logout(c)
    BY <1>8, HandlingLogout DEF Logout
  <1>9. CASE Send(c, "starttls")
    BY <1>1, <1>9, HandlingSend DEF Send
  <1>10. CASE Send(e, Mechanism(mechanisms))
    BY <1>5, <1>7, <1>10, HandlingSend DEF Send
  <1>11. CASE jabber_pkt_bind_sess(d)
    BY <1>3, <1>11, BindServes
  <1>12. CASE Send(d, "iqget")
    BY <1>1, <1>3, <1>12, HandlingSend DEF Send
  <1>13. CASE Keep(d)
    BY <1>3, <1>13, HandlingKeep
  <1>. QED  BY <1>6, <1>8, <1>9, <1>10, <1>11, <1>12, <1>13

\* What ends a stream is handled when nothing else is there.
LEMMA EndServes ==
    ASSUME NEW c, Handling(c), c.todo = <<>>, inbox = <<>>, "restart" \in asked,
           SaslSuccess(c) \/ jabber_pkt_proceed_tls(c)
    PROVE  WInv'
  <1>1. "header" \notin asked /\ Headers(c.txq) = {} /\ c.root # "none" /\ c \in Connections
    BY DEF Handling, Served, Streams
  <1>2. 1..Len(c.todo) = {} /\ 1..Len(inbox) = {}
    OBVIOUS
  <1>3. c.flags \in SUBSET Flags
    BY HandlingFlags
  <1>4. CASE SaslSuccess(c)
    <2>. DEFINE F == c.flags \cup {"AUTHENTICATED", "STREAM_RESTART"}
                d == [c EXCEPT !.flags = F]
    <2>1. F \in SUBSET Flags /\ "STREAM_RESTART" \in F
      BY <1>3 DEF Flags
    <2>2. Keep(d)
      BY <1>4 DEF SaslSuccess
    <2>. HIDE DEF F
    <2>3. /\ d \in Connections /\ d.ic = c.ic /\ d.lib = c.lib /\ d.flags = F /\ d.txq = c.txq
          /\ d.root = c.root /\ d.reading = c.reading /\ d.todo = c.todo /\ d.loop = c.loop
          /\ d.r_inpa = c.r_inpa /\ d.w_inpa = c.w_inpa
      BY <1>1, <2>1 DEF Connections
    <2>. HIDE DEF d
    <2>4. Streams(d, inbox, asked)
      BY <1>1, <1>2, <2>1, <2>3 DEF Handling, Served, Streams, Waiting
    <2>5. Served(d)
      BY <2>3, <2>4 DEF Handling, Served, Watches
    <2>. QED  BY <2>2, <2>5, KeepServes
  <1>5. CASE jabber_pkt_proceed_tls(c)
    <2>. DEFINE loop == c.loop \ ({"r"} \cup IF c.txq # <<>> THEN {"w"} ELSE {})
                F == c.flags \cup {"STARTTLS_DONE"}
                d == [c EXCEPT !.loop = loop, !.r_inpa = FALSE, !.w_inpa = FALSE, !.txq = <<>>,
                               !.flags = F, !.ssl = "new", !.lib = "starttls"]
    <2>1. loop = {} /\ F \in SUBSET Flags /\ "STREAM_RESTART" \notin F /\ <<>> \in Seq(Packets)
      <3>1. loop = {}
        BY <1>1 DEF Handling, Served, Watches, Connections
      <3>2. "STREAM_RESTART" \notin F /\ F \in SUBSET Flags
        BY HandlingFlags DEF Flags
      <3>. QED  BY <3>1, <3>2
    <2>2. Keep(d)
      BY <1>5 DEF jabber_pkt_proceed_tls
    <2>. HIDE DEF F, loop
    <2>3. /\ d \in Connections /\ d.ic = c.ic /\ d.lib = "starttls" /\ d.flags = F /\ d.txq = <<>>
          /\ d.root = c.root /\ d.reading = c.reading /\ d.todo = c.todo /\ d.loop = loop
          /\ ~d.r_inpa /\ ~d.w_inpa
      BY <1>1, <2>1 DEF Connections
    <2>. HIDE DEF d
    <2>4. Streams(d, inbox, asked)
      BY <1>1, <1>2, <2>1, <2>3, HeadersNone DEF Handling, Served, Streams, Waiting
    <2>5. Served(d)
      BY <2>1, <2>3, <2>4 DEF Handling, Served, Watches
    <2>. QED  BY <2>2, <2>5, KeepServes
  <1>. QED  BY <1>4, <1>5

LEMMA RosterServes ==
    ASSUME NEW c, Handling(c), jabber_parse_roster(c)
    PROVE  WInv'
  <1>. DEFINE d == [c EXCEPT !.ic = "online"]
  <1>1. /\ d \in Connections /\ d.ic = "online" /\ d.lib = c.lib /\ d.flags = c.flags /\ d.txq = c.txq
        /\ d.root = c.root /\ d.reading = c.reading /\ d.todo = c.todo /\ d.loop = c.loop
        /\ d.r_inpa = c.r_inpa /\ d.w_inpa = c.w_inpa
    BY DEF Handling, Served, Connections
  <1>2. Keep(c) \/ SendBy(d, "misc", FALSE)
    BY DEF jabber_parse_roster
  <1>. HIDE DEF d
  <1>3. Streams(d, inbox, asked)
    BY <1>1 DEF Handling, Served, Streams, Waiting
  <1>4. Handling(d)
    BY <1>1, <1>3 DEF Handling, Served, Watches, Waiting
  <1>5. "misc" \in Packets \ {"header"}
    BY DEF Packets
  <1>. QED  BY <1>2, <1>4, <1>5, HandlingKeep, HandlingSend

LEMMA HandlerServes ==
    ASSUME NEW c, Handling(c), NEW x \in Stanzas, Handler(c, x),
           x \in Ends => c.todo = <<>> /\ inbox = <<>> /\ "restart" \in asked
    PROVE  WInv'
  <1>1. {"response", "again", "iqset", "roster", "misc"} \subseteq Packets \ {"header"}
    BY DEF Packets
  <1>2. CASE x \in {"half", "header", "nothing"}
    BY <1>2, HandlingKeep DEF Handler
  <1>3. CASE x = "features"
    <2>1. PICK starttls \in {"no", "yes", "required"},
               mechanisms \in SUBSET {"PLAIN", "DIGEST-MD5", "OTHER"},
               wants \in SUBSET {"WANT_BIND", "WANT_SESSION"} :
             jabber_pkt_features(c, starttls, mechanisms, wants)
      BY <1>3 DEF Handler
    <2>. QED  BY <2>1, FeaturesServe
  <1>4. CASE x = "proceed"
    BY <1>4, EndServes DEF Handler, Ends
  <1>5. CASE x = "challenge"
    BY <1>1, <1>5, HandlingSend DEF Handler, Send
  <1>6. CASE x = "rspauth"
    BY <1>1, <1>6, HandlingSend DEF Handler, Send
  <1>7. CASE x = "success"
    BY <1>7, EndServes DEF Handler, Ends
  <1>8. CASE x \in {"badchallenge", "failure", "iqerror", "end"}
    BY <1>8, HandlingLogout DEF Handler, Logout
  <1>9. CASE x = "fields"
    BY <1>1, <1>9, HandlingSend, HandlingLogout DEF Handler, Send, Logout
  <1>10. CASE x = "incomplete"
    BY <1>10, HandlingLogout DEF Handler
  <1>11. CASE x = "iqresult"
    <2>. DEFINE F == c.flags \cup {"AUTHENTICATED"}
    <2>1. F \in SUBSET Flags /\ "STREAM_RESTART" \notin F
      BY HandlingFlags DEF Flags
    <2>2. Send([c EXCEPT !.flags = F], "roster")
      BY <1>11 DEF Handler
    <2>. HIDE DEF F
    <2>3. Handling([c EXCEPT !.flags = F])
      BY <2>1, FlagsServe
    <2>. QED  BY <1>1, <2>2, <2>3, HandlingSend DEF Send
  <1>12. CASE x = "bound"
    BY <1>12, BindServes DEF Handler
  <1>13. CASE x = "contacts"
    BY <1>13, RosterServes DEF Handler
  <1>14. CASE x = "ping"
    BY <1>1, <1>14, HandlingSend DEF Handler, Send
  <1>. QED  BY <1>2, <1>3, <1>4, <1>5, <1>6, <1>7, <1>8, <1>9, <1>10, <1>11, <1>12, <1>13, <1>14
            DEF Stanzas

LEMMA HandleWInv ==
    ASSUME IInv, WInv, Handle
    PROVE  WInv'
  <1>. DEFINE q == Tail(jd.todo)
              x == Head(jd.todo)
              c == [jd EXCEPT !.todo = q]
  <1>1. Served(jd) /\ jd \in Connections /\ jd.reading /\ jd.todo \in Seq(Stanzas) /\ jd.todo # <<>>
    BY DEF Handle, IInv, Cleared, WInv, Served, Connections
  <1>2. /\ x \in Stanzas /\ q \in Seq(Stanzas) /\ x = jd.todo[1] /\ Len(q) = Len(jd.todo) - 1
        /\ Len(jd.todo) \in Nat /\ Len(jd.todo) >= 1
        /\ \A i \in 1..Len(q) : q[i] = jd.todo[i + 1]
        /\ Len(q) = 0 => q = <<>>
    <2>1. /\ Head(jd.todo) \in Stanzas /\ Tail(jd.todo) \in Seq(Stanzas)
          /\ Len(Tail(jd.todo)) = Len(jd.todo) - 1
          /\ \A i \in 1..Len(Tail(jd.todo)) : Tail(jd.todo)[i] = jd.todo[i + 1]
      BY <1>1, HeadTailProperties
    <2>2. Len(jd.todo) \in Nat \ {0} /\ (q # <<>> => Len(q) # 0)
      BY <1>1, <2>1, EmptySeq
    <2>3. Head(jd.todo) = jd.todo[1]
      BY <1>1
    <2>. QED  BY <2>1, <2>2, <2>3
  <1>3. Handler(c, x)
    BY DEF Handle
  <1>. HIDE DEF q, x
  <1>4. /\ c \in Connections /\ c.ic = jd.ic /\ c.lib = jd.lib /\ c.flags = jd.flags /\ c.txq = jd.txq
        /\ c.root = jd.root /\ c.reading = jd.reading /\ c.todo = q /\ c.loop = jd.loop
        /\ c.r_inpa = jd.r_inpa /\ c.w_inpa = jd.w_inpa
    BY <1>1, <1>2 DEF Connections
  <1>. HIDE DEF c
  <1>5. ~Waiting(jd) /\ ~Waiting(c)
    BY <1>1, <1>4 DEF Served, Streams, Waiting
  <1>6. \A i \in 1..Len(q) : q[i] \in Ends => i = Len(q) /\ inbox = <<>> /\ "restart" \in asked
    <2>1. \A i \in 1..Len(jd.todo) : jd.todo[i] \in Ends => i = Len(jd.todo) /\ inbox = <<>> /\ "restart" \in asked
      BY <1>1 DEF Served, Streams
    <2>2. \A i \in 1..Len(q) : i + 1 \in 1..Len(jd.todo) /\ (i + 1 = Len(jd.todo) => i = Len(q))
      BY <1>2
    <2>. QED  BY <1>2, <2>1, <2>2
  <1>7. Streams(c, inbox, asked)
    BY <1>1, <1>4, <1>5, <1>6 DEF Served, Streams
  <1>8. Handling(c)
    BY <1>1, <1>4, <1>5, <1>7 DEF Handling, Served, Watches
  <1>9. x \in Ends => c.todo = <<>> /\ inbox = <<>> /\ "restart" \in asked
    <2>1. 1 \in 1..Len(jd.todo) /\ (1 = Len(jd.todo) => Len(q) = 0)
      BY <1>2
    <2>2. jd.todo[1] \in Ends => 1 = Len(jd.todo) /\ inbox = <<>> /\ "restart" \in asked
      BY <1>1, <2>1 DEF Served, Streams
    <2>. QED  BY <1>2, <1>4, <2>1, <2>2
  <1>. QED  BY <1>2, <1>3, <1>8, <1>9, HandlerServes

LEMMA ReadEndsWInv ==
    ASSUME IInv, WInv, ReadEnds
    PROVE  WInv'
  <1>. DEFINE c == [jd EXCEPT !.reading = FALSE]
              S == c.flags \cup {"STREAM_STARTED"}
              R == c.flags \ {"STREAM_RESTART"}
              d == [c EXCEPT !.flags = S]
              e == [c EXCEPT !.flags = R]
  <1>1. Served(jd) /\ jd \in Connections /\ jd.reading /\ jd.todo = <<>>
    BY DEF ReadEnds, IInv, Cleared, WInv, Served
  <1>2. \/ "STREAM_RESTART" \in c.flags /\ StartStreamBy(e, FALSE)
        \/ /\ "STREAM_RESTART" \notin c.flags
           /\ Keep(c) \/ Keep(d) \/ Logout(d) \/ Send(d, "iqget")
    BY DEF ReadEnds
  <1>3. /\ c \in Connections /\ c.ic = jd.ic /\ c.lib = jd.lib /\ c.flags = jd.flags /\ c.txq = jd.txq
        /\ c.root = jd.root /\ ~c.reading /\ c.todo = jd.todo /\ c.loop = jd.loop
        /\ c.r_inpa = jd.r_inpa /\ c.w_inpa = jd.w_inpa
    BY <1>1 DEF Connections
  <1>. HIDE DEF c
  <1>4. S \in SUBSET Flags /\ R \in SUBSET Flags /\ "STREAM_RESTART" \notin R
    BY <1>3 DEF Connections, Flags
  <1>5. "STREAM_RESTART" \in S => "STREAM_RESTART" \in c.flags
    OBVIOUS
  <1>. HIDE DEF S, R
  <1>6. /\ d \in Connections /\ d.ic = c.ic /\ d.lib = c.lib /\ d.flags = S /\ d.txq = c.txq
        /\ d.root = c.root /\ ~d.reading /\ d.todo = c.todo /\ d.loop = c.loop
        /\ d.r_inpa = c.r_inpa /\ d.w_inpa = c.w_inpa
    BY <1>3, <1>4 DEF Connections
  <1>7. /\ e \in Connections /\ e.ic = c.ic /\ e.lib = c.lib /\ e.flags = R /\ e.txq = c.txq
        /\ e.root = c.root /\ ~e.reading /\ e.todo = c.todo /\ e.loop = c.loop
        /\ e.r_inpa = c.r_inpa /\ e.w_inpa = c.w_inpa
    BY <1>3, <1>4 DEF Connections
  <1>. HIDE DEF d, e
  <1>8. CASE "STREAM_RESTART" \in c.flags /\ StartStreamBy(e, FALSE)
    <2>1. Starting(e)
      BY <1>1, <1>3, <1>4, <1>7, <1>8 DEF Served, Streams, Waiting, Watches, Starting
    <2>. QED  BY <1>8, <2>1, StartServes
  <1>9. CASE "STREAM_RESTART" \notin c.flags
    <2>1. Streams(c, inbox, asked) /\ Streams(d, inbox, asked)
      BY <1>1, <1>3, <1>5, <1>6, <1>9 DEF Served, Streams, Waiting
    <2>2. Served(c) /\ Served(d)
      BY <1>1, <1>3, <1>6, <2>1 DEF Served, Watches
    <2>3. Waiting(d) => "restart" \in asked
      BY <1>1, <1>3, <1>6, <2>1 DEF Served, Streams
    <2>4. "iqget" \in Packets \ {"header"}
      BY DEF Packets
    <2>5. CASE Keep(c) \/ Keep(d)
      BY <2>2, <2>5, KeepServes
    <2>6. CASE Logout(d)
      BY <2>2, <2>6, LogoutServes DEF Logout, Served, Watches
    <2>7. CASE Send(d, "iqget")
      BY <2>2, <2>3, <2>4, <2>7, SendServes DEF Send
    <2>. QED  BY <1>2, <1>9, <2>5, <2>6, <2>7
  <1>. QED  BY <1>2, <1>8, <1>9

\* The queue gets shorter, and the watch goes with its last packet.
LEMMA FlushWInv ==
    ASSUME IInv, WInv, Flush
    PROVE  WInv'
  <1>1. PICK n \in 1..Len(jd.txq) :
           /\ jd' = [jd EXCEPT !.txq = SubSeq(@, n + 1, Len(@)),
                               !.loop = IF n = Len(jd.txq) THEN @ \ {"w"} ELSE @]
           /\ Taken(jd, Range(SubSeq(jd.txq, 1, n)))
    BY DEF Flush
  <1>. DEFINE old  == SubSeq(jd.txq, 1, n)
              rest == SubSeq(jd.txq, n + 1, Len(jd.txq))
              loop == IF n = Len(jd.txq) THEN jd.loop \ {"w"} ELSE jd.loop
  <1>2. /\ Served(jd) /\ jd \in Connections /\ jd.txq \in Seq(Packets) /\ "w" \in jd.loop
        /\ ~jd.reading /\ Len(jd.txq) \in Nat /\ n \in Nat /\ 1 <= n /\ n <= Len(jd.txq)
    BY LenProperties DEF Flush, Idle, WInv, Served, Connections
  <1>3. \A i \in 1..Len(jd.txq) : jd.txq[i] \in Packets
    BY <1>2, ElementOfSeq, LenProperties
  <1>4. /\ rest \in Seq(Packets) /\ Len(rest) = Len(jd.txq) - n
        /\ \A i \in 1..Len(rest) : rest[i] = jd.txq[i + n]
    <2>1. /\ rest \in Seq(Packets)
          /\ Len(rest) = IF n + 1 <= Len(jd.txq) THEN Len(jd.txq) - (n + 1) + 1 ELSE 0
          /\ \A i \in 1..(Len(jd.txq) - (n + 1) + 1) : rest[i] = jd.txq[(n + 1) + i - 1]
      <3>1. n + 1 \in Int /\ Len(jd.txq) \in Int /\ \A i \in (n + 1)..Len(jd.txq) : jd.txq[i] \in Packets
        BY <1>2, <1>3
      <3>. QED  BY <3>1, SubSeqProperties
    <2>2. Len(rest) = Len(jd.txq) - n
      BY <1>2, <2>1
    <2>. HIDE DEF rest
    <2>3. ASSUME NEW i \in 1..Len(rest)  PROVE rest[i] = jd.txq[i + n]
      <3>1. i \in 1..(Len(jd.txq) - (n + 1) + 1) /\ (n + 1) + i - 1 = i + n
        BY <1>2, <2>2
      <3>. QED  BY <2>1, <3>1
    <2>. QED  BY <2>1, <2>2, <2>3
  <1>5. "header" \in Range(old) <=> \E i \in 1..n : jd.txq[i] = "header"
    <2>1. /\ old \in Seq(Packets) /\ Len(old) = n
          /\ \A i \in 1..n : old[i] = jd.txq[i]
      <3>1. /\ old \in Seq(Packets) /\ Len(old) = IF 1 <= n THEN n - 1 + 1 ELSE 0
            /\ \A i \in 1..(n - 1 + 1) : old[i] = jd.txq[1 + i - 1]
        <4>1. 1 \in Int /\ n \in Int /\ \A i \in 1..n : jd.txq[i] \in Packets
          BY <1>2, <1>3
        <4>. QED  BY <4>1, SubSeqProperties
      <3>2. n - 1 + 1 = n /\ \A i \in 1..n : 1 + i - 1 = i
        BY <1>2
      <3>. QED  BY <1>2, <3>1, <3>2
    <2>2. DOMAIN old = 1..n
      BY <2>1, LenProperties
    <2>. HIDE DEF old
    <2>. QED  BY <2>1, <2>2 DEF Range
  <1>6. loop \in SUBSET {"r", "w"}
    BY <1>2 DEF Connections
  <1>7. rest = <<>> <=> n = Len(jd.txq)
    <2>. HIDE DEF rest
    <2>. QED  BY <1>2, <1>4, EmptySeq
  <1>8. jd' = [jd EXCEPT !.txq = rest, !.loop = loop] /\ Taken(jd, Range(old))
    BY <1>1
  <1>9. /\ ("w" \in loop <=> rest # <<>>) /\ ("r" \in loop <=> "r" \in jd.loop)
        /\ ("w" \in loop => "w" \in jd.loop)
    <2>. HIDE DEF rest
    <2>. QED  BY <1>2, <1>7
  <1>. HIDE DEF old, rest, loop
  <1>10. /\ jd' \in Connections /\ jd'.ic = jd.ic /\ jd'.lib = jd.lib /\ jd'.flags = jd.flags
         /\ jd'.txq = rest /\ jd'.root = jd.root /\ jd'.reading = jd.reading /\ jd'.todo = jd.todo
         /\ jd'.loop = loop /\ jd'.r_inpa = jd.r_inpa /\ jd'.w_inpa = jd.w_inpa
    BY <1>2, <1>4, <1>6, <1>8 DEF Connections
  <1>11. asked' = asked \cup (Range(old) \ {"misc"}) /\ inbox' = inbox
    BY <1>8 DEF Taken
  <1>12. /\ "header" \in asked' <=> "header" \in asked \/ \E i \in 1..n : jd.txq[i] = "header"
         /\ "restart" \in asked => "restart" \in asked'
    BY <1>5, <1>11
  <1>13. Watches(jd')
    BY <1>2, <1>9, <1>10 DEF Served, Watches
  <1>14. \A i : i \in Headers(rest) <=> i \in Nat /\ i >= 1 /\ i + n \in Headers(jd.txq)
    BY <1>2, <1>4 DEF Headers
  <1>15. (\E i \in 1..n : jd.txq[i] = "header") <=> \E i \in 1..n : i \in Headers(jd.txq)
    BY <1>2 DEF Headers
  <1>16. Headers(jd.txq) \subseteq Nat
    BY DEF Headers
  <1>17. 1 \in Headers(jd.txq) <=> jd.txq[1] = "header"
    BY <1>2 DEF Headers
  <1>18. CASE Headers(jd.txq) = {}
    <2>1. Headers(rest) = {} /\ ("header" \in asked' <=> "header" \in asked)
      BY <1>12, <1>14, <1>15, <1>18
    <2>2. Waiting(jd) /\ jd.txq = <<>> => FALSE
      BY <1>2, <1>7 DEF Served, Watches
    <2>3. Waiting(jd') <=> Waiting(jd)
      BY <1>10 DEF Waiting
    <2>4. Streams(jd', inbox', asked')
      BY <1>2, <1>10, <1>11, <1>12, <1>18, <2>1, <2>2, <2>3 DEF Served, Streams
    <2>. QED  BY <1>2, <1>9, <1>10, <1>13, <2>4 DEF WInv, Served
  <1>19. CASE Headers(jd.txq) # {}
    <2>1. PICK h \in Headers(jd.txq) : \A i \in Headers(jd.txq) : i = h
      BY <1>2, <1>19 DEF Served, Streams
    <2>2. h \in Nat /\ h >= 1
      BY <1>2 DEF Headers
    <2>3. /\ jd.root = "none" /\ inbox = <<>> /\ "header" \notin asked /\ ~Waiting(jd) /\ jd.todo = <<>>
          /\ "restart" \in asked \/ h = 1
      BY <1>2, <1>17, <1>19, <2>1 DEF Served, Streams
    <2>4. ~Waiting(jd')
      BY <1>10, <2>3 DEF Waiting
    <2>5. 1..Len(inbox') = {} /\ 1..Len(jd'.todo) = {}
      BY <1>10, <1>11, <2>3
    <2>6. CASE h <= n
      <3>1. Headers(rest) = {}
        BY <1>2, <1>14, <2>1, <2>2, <2>6
      <3>2. "header" \in asked'
        BY <1>12, <1>15, <2>1, <2>2, <2>6
      <3>3. Streams(jd', inbox', asked')
        BY <1>2, <1>10, <1>11, <2>3, <2>4, <2>5, <3>1, <3>2 DEF Served, Streams, Waiting
      <3>. QED  BY <1>2, <1>9, <1>10, <1>13, <3>3 DEF WInv, Served
    <2>7. CASE h > n
      <3>1. Headers(rest) # {} /\ \A i, j \in Headers(rest) : i = j
        <4>1. h - n \in Nat /\ h - n >= 1 /\ (h - n) + n = h
          BY <1>2, <2>2, <2>7
        <4>2. h - n \in Headers(rest)
          BY <1>14, <2>1, <4>1
        <4>3. \A i \in Headers(rest) : i \in Nat /\ i + n = h
          BY <1>14, <2>1
        <4>. QED  BY <1>2, <2>2, <4>2, <4>3
      <3>2. "header" \notin asked' /\ "restart" \in asked'
        BY <1>2, <1>12, <1>15, <2>1, <2>2, <2>3, <2>7
      <3>3. Streams(jd', inbox', asked')
        BY <1>2, <1>10, <1>11, <2>3, <2>4, <2>5, <3>1, <3>2 DEF Served, Streams, Waiting
      <3>. QED  BY <1>2, <1>9, <1>10, <1>13, <3>3 DEF WInv, Served
    <2>. QED  BY <1>2, <2>2, <2>6, <2>7
  <1>. QED  BY <1>18, <1>19

\* What is read first is the header, where one is missing.
LEMMA ReadWInv ==
    ASSUME IInv, WInv, Read
    PROVE  WInv'
  <1>1. PICK n \in 1..Len(inbox) :
          LET new  == SubSeq(inbox, 1, n)
              root == IF "header" \in Range(new) THEN set.server ELSE jd.root
          IN  /\ jd' = IF root = "none" THEN [jd EXCEPT !.loop = @ \ {"r"}]
                       ELSE [jd EXCEPT !.root = root, !.reading = TRUE, !.todo = new]
              /\ inbox' = SubSeq(inbox, n + 1, Len(inbox))
    BY DEF Read
  <1>. DEFINE new  == SubSeq(inbox, 1, n)
              root == IF "header" \in Range(new) THEN set.server ELSE jd.root
              rest == SubSeq(inbox, n + 1, Len(inbox))
  <1>2. /\ Served(jd) /\ jd \in Connections /\ jd.ic # "none" /\ ~jd.reading /\ jd.todo = <<>>
        /\ inbox \in Seq(Stanzas) /\ Len(inbox) \in Nat /\ n \in Nat /\ 1 <= n /\ n <= Len(inbox)
        /\ set \in Settings /\ asked' = asked
    BY LenProperties DEF Read, Idle, WInv, Served, Streams, IInv, TypeOK
  <1>3. \A i \in 1..Len(inbox) : inbox[i] \in Stanzas
    BY <1>2, ElementOfSeq, LenProperties
  <1>4. /\ rest \in Seq(Stanzas) /\ Len(rest) = Len(inbox) - n
        /\ \A i \in 1..Len(rest) : rest[i] = inbox[i + n]
    <2>1. /\ rest \in Seq(Stanzas)
          /\ Len(rest) = IF n + 1 <= Len(inbox) THEN Len(inbox) - (n + 1) + 1 ELSE 0
          /\ \A i \in 1..(Len(inbox) - (n + 1) + 1) : rest[i] = inbox[(n + 1) + i - 1]
      <3>1. n + 1 \in Int /\ Len(inbox) \in Int /\ \A i \in (n + 1)..Len(inbox) : inbox[i] \in Stanzas
        BY <1>2, <1>3
      <3>. QED  BY <3>1, SubSeqProperties
    <2>2. Len(rest) = Len(inbox) - n
      BY <1>2, <2>1
    <2>. HIDE DEF rest
    <2>3. ASSUME NEW i \in 1..Len(rest)  PROVE rest[i] = inbox[i + n]
      <3>1. i \in 1..(Len(inbox) - (n + 1) + 1) /\ (n + 1) + i - 1 = i + n
        BY <1>2, <2>2
      <3>. QED  BY <2>1, <3>1
    <2>. QED  BY <2>1, <2>2, <2>3
  <1>5. /\ new \in Seq(Stanzas) /\ Len(new) = n
        /\ \A i \in 1..n : new[i] = inbox[i]
    <2>1. /\ new \in Seq(Stanzas) /\ Len(new) = IF 1 <= n THEN n - 1 + 1 ELSE 0
          /\ \A i \in 1..(n - 1 + 1) : new[i] = inbox[1 + i - 1]
      <3>1. 1 \in Int /\ n \in Int /\ \A i \in 1..n : inbox[i] \in Stanzas
        BY <1>2, <1>3
      <3>. QED  BY <3>1, SubSeqProperties
    <2>2. n - 1 + 1 = n /\ \A i \in 1..n : 1 + i - 1 = i
      BY <1>2
    <2>. QED  BY <1>2, <2>1, <2>2
  <1>6. inbox[1] = "header" => "header" \in Range(new)
    <2>1. DOMAIN new = 1..n
      BY <1>5, LenProperties
    <2>2. 1 \in 1..n
      BY <1>2
    <2>. HIDE DEF new
    <2>. QED  BY <1>5, <2>1, <2>2 DEF Range
  <1>7. inbox # <<>>
    BY <1>2, EmptySeq
  <1>8. jd.root = "none" => inbox[1] = "header"
    BY <1>2, <1>7 DEF Served, Streams
  <1>9. root \in {"xmpp", "old"}
    <2>1. set.server \in {"xmpp", "old"}
      BY <1>2, ConstantsAssumption
    <2>. QED  BY <1>2, <1>6, <1>8, <2>1 DEF Connections
  <1>10. /\ jd' = [jd EXCEPT !.root = root, !.reading = TRUE, !.todo = new]
         /\ inbox' = rest
    BY <1>1, <1>9
  <1>11. rest = <<>> <=> n = Len(inbox)
    <2>. HIDE DEF rest
    <2>. QED  BY <1>2, <1>4, EmptySeq
  <1>. HIDE DEF new, root, rest
  <1>12. /\ jd' \in Connections /\ jd'.ic = jd.ic /\ jd'.lib = jd.lib /\ jd'.flags = jd.flags
         /\ jd'.txq = jd.txq /\ jd'.root = root /\ jd'.reading /\ jd'.todo = new
         /\ jd'.loop = jd.loop /\ jd'.r_inpa = jd.r_inpa /\ jd'.w_inpa = jd.w_inpa
    BY <1>2, <1>5, <1>9, <1>10 DEF Connections
  <1>13. /\ ~Waiting(jd) /\ Headers(jd.txq) = {} /\ "header" \notin asked /\ "STREAM_RESTART" \notin jd.flags
         /\ \A i \in 1..Len(inbox) : inbox[i] \in Ends => i = Len(inbox) /\ "restart" \in asked
    BY <1>2, <1>7 DEF Served, Streams
  <1>14. ~Waiting(jd')
    BY <1>12, <1>13 DEF Waiting
  <1>15. ASSUME NEW i \in 1..Len(jd'.todo), jd'.todo[i] \in Ends
         PROVE  i = Len(jd'.todo) /\ inbox' = <<>> /\ "restart" \in asked
    <2>1. i \in 1..n /\ i \in 1..Len(inbox) /\ inbox[i] \in Ends
      BY <1>2, <1>5, <1>12, <1>15
    <2>2. i = Len(inbox) /\ "restart" \in asked
      BY <1>13, <2>1
    <2>3. i = n /\ n = Len(inbox)
      BY <1>2, <2>1, <2>2
    <2>. QED  BY <1>5, <1>10, <1>11, <1>12, <2>2, <2>3
  <1>16. ASSUME NEW i \in 1..Len(inbox'), inbox'[i] \in Ends
         PROVE  i = Len(inbox') /\ "restart" \in asked
    <2>1. i + n \in 1..Len(inbox) /\ inbox[i + n] \in Ends
      BY <1>2, <1>4, <1>10, <1>16
    <2>2. i + n = Len(inbox) /\ "restart" \in asked
      BY <1>13, <2>1
    <2>. QED  BY <1>2, <1>4, <1>10, <2>2
  <1>17. Streams(jd', inbox', asked')
    BY <1>2, <1>9, <1>12, <1>13, <1>14, <1>15, <1>16 DEF Streams
  <1>18. Watches(jd')
    BY <1>2, <1>12 DEF Served, Watches
  <1>. QED  BY <1>2, <1>12, <1>17, <1>18 DEF WInv, Served

\* The connection is made, and TLS with it.
LEMMA ConnectWInv ==
    ASSUME IInv, WInv, jabber_login \/ jabber_connected_plain \/ ssl_connected \/ jabber_connected_ssl
    PROVE  WInv'
  <1>1. CASE jabber_login
    <2>. DEFINE ssl == IF set'.ssl THEN "new" ELSE "none"
    <2>1. jd \in Connections /\ ssl \in {"none", "new"}
      BY TypeOKMeans DEF IInv
    <2>2. /\ jd' = [jd EXCEPT !.ic = "login", !.fd = "connecting", !.lib = "proxy", !.ssl = ssl]
          /\ jd.ic = "none" /\ inbox' = inbox /\ asked' = asked
      BY <1>1 DEF jabber_login
    <2>. HIDE DEF ssl
    <2>3. /\ jd' \in Connections /\ jd'.ic = "login" /\ jd'.lib = "proxy" /\ jd'.flags = jd.flags
          /\ jd'.txq = jd.txq /\ jd'.root = jd.root /\ jd'.reading = jd.reading /\ jd'.todo = jd.todo
          /\ jd'.loop = jd.loop /\ jd'.r_inpa = jd.r_inpa
      BY <2>1, <2>2 DEF Connections
    <2>4. /\ jd.txq = <<>> /\ jd.root = "none" /\ jd.flags = {} /\ ~jd.reading /\ jd.todo = <<>>
          /\ inbox = <<>> /\ asked = {} /\ jd.loop = {} /\ ~jd.r_inpa
      BY <2>2 DEF IInv, Cleared, WInv
    <2>5. 1..Len(jd'.todo) = {} /\ 1..Len(inbox') = {} /\ Headers(jd'.txq) = {}
      BY <2>2, <2>3, <2>4, HeadersNone
    <2>6. Streams(jd', inbox', asked')
      BY <2>2, <2>3, <2>4, <2>5 DEF Streams, Waiting
    <2>. QED  BY <2>2, <2>3, <2>4, <2>6 DEF WInv, Served, Watches
  <1>2. ASSUME NEW c, Idle, jd.lib # "none", c \in Connections,
               c.ic = jd.ic, c.lib = "none", c.flags = jd.flags, c.txq = jd.txq,
               c.reading = jd.reading, c.todo = jd.todo, c.loop = jd.loop,
               c.r_inpa = jd.r_inpa, c.w_inpa = jd.w_inpa
        PROVE  Starting(c)
    BY <1>2 DEF Idle, WInv, Served, Streams, Waiting, Watches, Starting
  <1>3. CASE jabber_connected_plain
    <2>. DEFINE c == [jd EXCEPT !.lib = "none", !.fd = "open"]
    <2>1. Idle /\ jd.lib # "none" /\ (StartStreamBy(c, TRUE) \/ Logout(c)) /\ jd \in Connections
      BY <1>3, TypeOKMeans DEF jabber_connected_plain, IInv
    <2>2. /\ c \in Connections /\ c.ic = jd.ic /\ c.lib = "none" /\ c.flags = jd.flags
          /\ c.txq = jd.txq /\ c.reading = jd.reading /\ c.todo = jd.todo
          /\ c.loop = jd.loop /\ c.r_inpa = jd.r_inpa /\ c.w_inpa = jd.w_inpa
      BY <2>1 DEF Connections
    <2>. HIDE DEF c
    <2>3. Starting(c)
      BY <1>2, <2>1, <2>2
    <2>4. CASE StartStreamBy(c, TRUE)
      BY <2>3, <2>4, StartServes
    <2>5. CASE Logout(c)
      BY <2>3, <2>5, LogoutServes DEF Logout, Starting, Watches
    <2>. QED  BY <2>1, <2>4, <2>5
  <1>4. CASE ssl_connected
    <2>. DEFINE c == [jd EXCEPT !.lib = "handshake", !.fd = "open"]
    <2>1. Served(jd) /\ jd \in Connections /\ jd.lib # "none" /\ Keep(c)
      BY <1>4 DEF ssl_connected, Idle, WInv, Served
    <2>2. /\ c \in Connections /\ c.ic = jd.ic /\ c.lib = "handshake" /\ c.flags = jd.flags
          /\ c.txq = jd.txq /\ c.root = jd.root /\ c.reading = jd.reading /\ c.todo = jd.todo
          /\ c.loop = jd.loop /\ c.r_inpa = jd.r_inpa /\ c.w_inpa = jd.w_inpa
      BY <2>1 DEF Connections
    <2>. HIDE DEF c
    <2>3. Served(c)
      BY <2>1, <2>2 DEF Served, Watches, Streams, Waiting
    <2>. QED  BY <2>1, <2>3, KeepServes
  <1>5. CASE jabber_connected_ssl
    <2>. DEFINE c == [jd EXCEPT !.lib = "none", !.ssl = "up"]
    <2>1. Idle /\ jd.lib # "none" /\ StartStreamBy(c, TRUE) /\ jd \in Connections
      BY <1>5, TypeOKMeans DEF jabber_connected_ssl, IInv
    <2>2. /\ c \in Connections /\ c.ic = jd.ic /\ c.lib = "none" /\ c.flags = jd.flags
          /\ c.txq = jd.txq /\ c.reading = jd.reading /\ c.todo = jd.todo
          /\ c.loop = jd.loop /\ c.r_inpa = jd.r_inpa /\ c.w_inpa = jd.w_inpa
      BY <2>1 DEF Connections
    <2>. HIDE DEF c
    <2>. QED  BY <1>2, <2>1, <2>2, StartServes
  <1>. QED  BY <1>1, <1>3, <1>4, <1>5

LEMMA EndWInv ==
    ASSUME IInv, WInv, SslFails \/ FlushFails \/ ReadFails \/ SwitchOff
    PROVE  WInv'
  <1>1. Served(jd) /\ jd \in Connections
    BY DEF SslFails, FlushFails, ReadFails, SwitchOff, Idle, WInv, Served
  <1>2. PICK c \in {jd, [jd EXCEPT !.lib = "none", !.ssl = "none"], [jd EXCEPT !.fd = "none"]} :
           imc_logout(c, TRUE)
    BY DEF SslFails, FlushFails, ReadFails, SwitchOff, Logout
  <1>3. c \in Connections /\ c.loop = jd.loop /\ c.r_inpa = jd.r_inpa /\ c.w_inpa = jd.w_inpa
    BY <1>1 DEF Connections
  <1>. QED  BY <1>1, <1>2, <1>3, LogoutServes DEF Served, Watches

\* A login is over only when its streams are.
LEMMA UserLineWInv ==
    ASSUME IInv, WInv, UserLine
    PROVE  WInv'
  <1>1. Served(jd) /\ jd.ic = "online" /\ SendBy(jd, "misc", TRUE)
    BY DEF UserLine, Idle, WInv, Send
  <1>2. Waiting(jd) => "restart" \in asked
    BY <1>1 DEF Served, Streams
  <1>3. "misc" \in Packets \ {"header"}
    BY DEF Packets
  <1>. QED  BY <1>1, <1>2, <1>3, SendServes

LEMMA OtherWInv ==
    ASSUME WInv, OrphanRuns \/ ServerCloses \/ UNCHANGED vars
    PROVE  WInv'
  <1>1. UNCHANGED <<jd, inbox, asked>>
    BY DEF OrphanRuns, ServerCloses, vars
  <1>. QED  BY <1>1 DEF WInv, Served

\* The server begins a stream when it is asked for one, and says nothing when
\* it waits for one.
LEMMA ServerWInv ==
    ASSUME IInv, WInv, "half" \notin Quirks, ServerAnswers \/ ServerSpeaks
    PROVE  WInv'
  <1>1. jd' = jd /\ inbox \in Seq(Stanzas) /\ asked \subseteq Packets \cup {"features", "restart"}
    BY DEF ServerAnswers, ServerSpeaks, IInv, TypeOK
  <1>2. jd.ic # "none"
    <2>1. CASE ServerAnswers
      <3>1. asked # {}
        BY <2>1 DEF ServerAnswers
      <3>. QED  BY <3>1 DEF IInv, Cleared
    <2>2. CASE ServerSpeaks
      BY <2>2 DEF ServerSpeaks, IInv, Cleared
    <2>. QED  BY <2>1, <2>2
  <1>3. Served(jd)
    BY <1>2 DEF WInv
  <1>4. SUFFICES Streams(jd, inbox', asked')
    BY <1>1, <1>2, <1>3 DEF WInv, Served
  <1>5. CASE ServerAnswers /\ "header" \in asked
    <2>1. jd.root = "none" /\ inbox = <<>> /\ ~Waiting(jd) /\ Headers(jd.txq) = {}
          /\ ~jd.reading /\ jd.todo = <<>>
      BY <1>3, <1>5 DEF Served, Streams
    <2>2. /\ \E half \in {<<>>} \cup IF "half" \in Quirks THEN {<<"half">>} ELSE {} :
                inbox' = inbox \o half \o <<"header">>
          /\ asked' = IF set.server = "xmpp" THEN {"features"} ELSE {}
      BY <1>5 DEF ServerAnswers
    <2>3. inbox' = <<>> \o <<>> \o <<"header">>
      BY <2>1, <2>2
    <2>4. inbox' = <<"header">>
      BY <2>3
    <2>5. "header" \notin asked'
      BY <2>2
    <2>6. /\ inbox' # <<>> /\ inbox'[1] = "header" /\ 1..Len(jd.todo) = {}
          /\ \A i \in 1..Len(inbox') : inbox'[i] \notin Ends
      BY <2>1, <2>4 DEF Ends
    <2>. QED  BY <1>3, <2>1, <2>5, <2>6 DEF Served, Streams, Waiting
  <1>6. CASE asked \cap {"header", "restart"} = {} /\ (asked # {} \/ jd.root # "none")
    <2>1. "header" \notin asked /\ "restart" \notin asked
      BY <1>6
    <2>2. /\ ~Waiting(jd) /\ Headers(jd.txq) = {}
          /\ \A i \in 1..Len(jd.todo) : jd.todo[i] \notin Ends
          /\ \A i \in 1..Len(inbox) : inbox[i] \notin Ends
          /\ jd.root = "none" => inbox # <<>> /\ inbox[1] = "header"
      BY <1>3, <1>6, <2>1 DEF Served, Streams
    <2>3. ASSUME NEW in, NEW as, in # <<>>, "header" \notin as, inbox # <<>> => in[1] = inbox[1],
                 \A i \in 1..Len(in) : in[i] \in Ends => i = Len(in) /\ "restart" \in as
          PROVE  Streams(jd, in, as)
      BY <1>3, <2>2, <2>3 DEF Served, Streams, Waiting
    <2>4. CASE ServerSpeaks
      <3>1. inbox = <<>> /\ asked' = asked /\ \E x \in {"end", "ping"} \cup Unasked : inbox' = <<x>>
        BY <2>4 DEF ServerSpeaks
      <3>2. inbox' # <<>> /\ \A i \in 1..Len(inbox') : inbox'[i] \notin Ends
        BY <3>1, ConstantsAssumption DEF Ends
      <3>. QED  BY <2>1, <2>3, <3>1, <3>2
    <2>5. CASE ServerAnswers
      <3>1. PICK q \in asked : \E x \in Answers(q) :
                /\ inbox' = Append(inbox, x)
                /\ asked' = IF x \in {"success", "proceed"} THEN {"restart"} ELSE asked \ {q}
        BY <2>1, <2>5 DEF ServerAnswers
      <3>2. PICK x \in Answers(q) :
                /\ inbox' = Append(inbox, x)
                /\ asked' = IF x \in {"success", "proceed"} THEN {"restart"} ELSE asked \ {q}
        BY <3>1
      <3>3. q \in (Packets \cup {"features"}) \ {"header", "misc"}
        BY <1>1, <2>1 DEF IInv
      <3>4. x \in Stanzas
        BY <3>3, AnswersQuiet
      <3>5. /\ Len(inbox) \in Nat /\ Len(inbox') = Len(inbox) + 1
            /\ \A i \in 1..Len(inbox) : inbox'[i] = inbox[i]
            /\ inbox'[Len(inbox) + 1] = x
        BY <1>1, <3>2, <3>4, AppendProperties, LenProperties
      <3>6. inbox' # <<>> /\ (inbox # <<>> => inbox'[1] = inbox[1])
        BY <1>1, <3>5, EmptySeq
      <3>7. "header" \notin asked' /\ (x \in Ends => "restart" \in asked')
        BY <2>1, <3>2 DEF Ends
      <3>8. \A i \in 1..Len(inbox') : inbox'[i] \in Ends => i = Len(inbox') /\ "restart" \in asked'
        <4>. SUFFICES ASSUME NEW i \in 1..Len(inbox'), inbox'[i] \in Ends
                      PROVE  i = Len(inbox') /\ "restart" \in asked'
          OBVIOUS
        <4>1. i \notin 1..Len(inbox)
          BY <2>2, <3>5
        <4>2. i = Len(inbox) + 1
          BY <3>5, <4>1
        <4>. QED  BY <3>5, <3>7, <4>2
      <3>. QED  BY <2>3, <3>6, <3>7, <3>8
    <2>. QED  BY <2>4, <2>5
  <1>. QED  BY <1>5, <1>6 DEF ServerAnswers, ServerSpeaks

LEMMA InitWInv == Init => WInv
  <1>1. Init => jd.ic = "none" /\ jd.loop = {} /\ ~jd.r_inpa
    BY DEF Init, Off
  <1>. QED  BY <1>1 DEF WInv

LEMMA NextWInv ==
    ASSUME "half" \notin Quirks
    PROVE  IInv /\ WInv /\ [Next]_vars => WInv'
  BY HandleWInv, ReadEndsWInv, FlushWInv, ReadWInv, ConnectWInv, EndWInv, UserLineWInv,
     OtherWInv, ServerWInv DEF Next

\* Attended: a connection that nothing will call back for again is one that
\* nobody can end either, a socket watched for nothing runs the program at
\* full speed, and a watch that is left over calls with freed memory
\* (io.c:164-204, 523-545 and 590-628).  The hypothesis is about the network:
\* the first packet of a stream holds its whole opening tag, which is what
\* io.c:184-188 takes for granted.
THEOREM ConnectionsAreAttended ==
    ASSUME "half" \notin Quirks
    PROVE  Spec => []Attended
  <1>1. IInv /\ WInv => Attended
    BY DEF IInv, Cleared, WInv, Served, Watches, Attended
  <1>2. Init => WInv
    BY InitWInv
  <1>3. IInv /\ WInv /\ [Next]_vars => WInv'
    BY NextWInv
  <1>. QED  BY <1>1, <1>2, <1>3, InvariantIInv, PTL DEF Spec
=============================================================================
