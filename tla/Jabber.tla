------------------------------- MODULE Jabber -------------------------------
(***************************************************************************)
(* The stream of one Jabber account: the connection, STARTTLS or SSL, the  *)
(* two ways to log in (SASL and the older IQ authentication), resource     *)
(* binding and the roster that ends the login, with the output queue and   *)
(* the two watches of the socket (io.c, sasl.c and iq.c of the Jabber      *)
(* module, with ssl_gnutls.c).                                             *)
(*                                                                         *)
(* A read callback is several steps, one per stanza, because xt_handle()   *)
(* calls one handler after the other; nothing else runs until it is done.  *)
(* The server answers what it has been asked, in any order and with any    *)
(* answer the protocol has, and sends what Unasked names at any time; what *)
(* a stanza says is chosen when it is handled.  A callback that goes on    *)
(* with freed memory sets used, and nothing is said of what the program    *)
(* does then.                                                              *)
(***************************************************************************)
EXTENDS Naturals, SequencesExt

CONSTANTS
    Settings,        \* the account's tls, ssl and sasl, with what the server
                     \*     is: the stream of "old" ones has no version
    Quirks,          \* "half": the stream's first bytes can come without its
                     \*     opening tag; "noroster": no answer to the roster
    Unasked,         \* stanzas the server also sends without being asked: the
                     \*     client's handlers do not look what it has asked.
                     \*     "proceed" and "success", which begin a new stream,
                     \*     are answers only, and IQs have the id of a request
    MaxOut           \* lines queued by others than the login's requests

ASSUME ConstantsAssumption ==
    /\ Settings \subseteq [tls : {"true", "false", "try"}, ssl : BOOLEAN, sasl : BOOLEAN,
                         server : {"xmpp", "old"}]
    /\ Quirks \subseteq {"half", "noroster"}
    /\ Unasked \subseteq {"features", "challenge", "badchallenge", "rspauth", "failure"}
    /\ MaxOut \in Nat

VARIABLES
    jd,              \* the im_connection and its jabber_data, or Off
    set,             \* the settings it was opened with, and its server
    orphans,         \* callbacks of the SSL library with a freed connection
    inbox,           \* stanzas that have arrived and are not read
    asked,           \* requests the server has and did not answer
    peer,            \* the server's end of the connection is open
    exposed,         \* packets with a credential that were sent outside TLS
    used             \* freed memory was used

vars == <<jd, set, orphans, inbox, asked, peer, exposed, used>>

Packets == {"header", "starttls", "plain", "digest", "response", "again", "iqget",
            "iqset", "bind", "session", "roster", "misc"}
Stanzas == {"half", "header", "features", "proceed", "challenge", "badchallenge",
            "rspauth", "success", "failure", "fields", "incomplete", "iqresult",
            "iqerror", "bound", "contacts", "nothing", "ping", "end"}
Flags == {"STREAM_STARTED", "STREAM_RESTART", "AUTHENTICATED", "WANT_BIND", "WANT_SESSION",
          "STARTTLS_DONE"}

\* loop holds the watches of the event loop on the socket, r_inpa and w_inpa
\* say whether the connection has the handle of one; lib is what the SSL or
\* the proxy code is waiting for.
Off ==
    [ic |-> "none", fd |-> "none", ssl |-> "none", lib |-> "none", loop |-> {},
     r_inpa |-> FALSE, w_inpa |-> FALSE, txq |-> <<>>, flags |-> {}, root |-> "none",
     reading |-> FALSE, todo |-> <<>>]

Init ==
    /\ jd = Off
    /\ set \in Settings
    /\ orphans = {} /\ inbox = <<>> /\ asked = {}
    /\ peer = TRUE /\ exposed = {} /\ used = FALSE

Tls == set.tls \in {"true", "try"}
sasl_supported == jd.root = "xmpp"
Idle == jd.ic # "none" /\ ~jd.reading

-----------------------------------------------------------------------------
(* The end of a connection *)

\* jabber_logout()
jabber_logout(c) ==
    [Off EXCEPT !.loop = c.loop \ ((IF c.r_inpa THEN {"r"} ELSE {})
                                     \cup (IF c.w_inpa THEN {"w"} ELSE {}))]

\* imc_logout() of the connection c.  The SSL library forgets a handshake that
\* waits for the socket, not what it has not begun.  A caller that is not
\* careful goes on with c.
imc_logout(c, careful) ==
    /\ jd' = jabber_logout(c)
    /\ orphans' = orphans \cup IF c.ssl = "new" /\ c.lib \in {"proxy", "starttls"}
                               THEN {c.lib} ELSE {}
    /\ inbox' = <<>> /\ asked' = {}
    /\ used' = ~careful
    /\ UNCHANGED <<set, peer, exposed>>

Logout(c) == imc_logout(c, TRUE)

\* The handler only leaves the connection as c.
Keep(c) == jd' = c /\ UNCHANGED <<set, orphans, inbox, asked, peer, exposed, used>>

-----------------------------------------------------------------------------
(* Output *)

\* The password, the digest of it for a challenge, and either of the older login
Secrets == {"plain", "response", "iqset"}

\* The socket, or TLS, takes the packets; the server gets those it answers.
Taken(c, packets) ==
    /\ asked' = asked \cup (packets \ {"misc"})
    /\ exposed' = exposed \cup IF c.ssl = "none" THEN packets \cap Secrets ELSE {}
    /\ UNCHANGED <<set, orphans, inbox, peer, used>>

\* jabber_write() by a handler that leaves the connection as c: the packet is
\* queued behind others; or all of it is written; or less, and a watch armed;
\* or write() fails, which it does during a handshake.
SendBy(c, packet, careful) ==
    \/ /\ c.txq # <<>>
       /\ Keep([c EXCEPT !.txq = Append(@, packet)])
    \/ /\ c.txq = <<>> /\ c.ssl # "new" /\ c.fd = "open" /\ peer
       /\ jd' = c
       /\ Taken(c, {packet})
    \/ /\ c.txq = <<>> /\ c.ssl # "new"
       /\ Keep([c EXCEPT !.txq = <<packet>>, !.w_inpa = TRUE, !.loop = @ \cup {"w"}])
    \/ c.txq = <<>> /\ imc_logout([c EXCEPT !.fd = "none"], careful)

Send(c, packet) == SendBy(c, packet, TRUE)

\* jabber_write_callback() that gets something written
Flush ==
    /\ Idle /\ "w" \in jd.loop /\ peer
    /\ \E n \in 1..Len(jd.txq) :
          /\ jd' = [jd EXCEPT !.txq = SubSeq(@, n + 1, Len(@)),
                              !.loop = IF n = Len(jd.txq) THEN @ \ {"w"} ELSE @]
          /\ Taken(jd, Range(SubSeq(jd.txq, 1, n)))

\* and one in which write() fails
FlushFails ==
    /\ Idle /\ "w" \in jd.loop
    /\ Logout([jd EXCEPT !.fd = "none"])

-----------------------------------------------------------------------------
(* Connecting *)

\* jabber_login() and jabber_connect(), without OAuth
jabber_login ==
    /\ jd.ic = "none"
    /\ set' \in Settings
    /\ jd' = [jd EXCEPT !.ic = "login", !.fd = "connecting", !.lib = "proxy",
                        !.ssl = IF set'.ssl THEN "new" ELSE "none"]
    /\ peer' = TRUE /\ exposed' = {}
    /\ UNCHANGED <<orphans, inbox, asked, used>>

\* jabber_start_stream()
StartStreamBy(c, careful) ==
    SendBy(IF c.r_inpa THEN [c EXCEPT !.root = "none"]
           ELSE [c EXCEPT !.root = "none", !.r_inpa = TRUE, !.loop = @ \cup {"r"}],
           "header", careful)

\* jabber_connected_plain()
jabber_connected_plain ==
    /\ Idle /\ jd.lib = "proxy" /\ jd.ssl = "none"
    /\ LET c == [jd EXCEPT !.lib = "none", !.fd = "open"]
       IN  StartStreamBy(c, TRUE) \/ Logout(c)

\* ssl_connected() and ssl_starttls_real() of the SSL library, which begin the
\* handshake
ssl_connected ==
    /\ Idle /\ jd.ssl = "new" /\ jd.lib \in {"proxy", "starttls"}
    /\ Keep([jd EXCEPT !.lib = "handshake", !.fd = "open"])

\* ssl_handshake() at its end and jabber_connected_ssl(): a handshake fails
\* when something else was sent after the server's proceed.
jabber_connected_ssl ==
    /\ Idle /\ jd.ssl = "new" /\ jd.lib = "handshake" /\ peer /\ asked \subseteq {"restart"}
    /\ StartStreamBy([jd EXCEPT !.lib = "none", !.ssl = "up"], TRUE)

\* jabber_connected_ssl() without a connection
SslFails ==
    /\ Idle /\ jd.ssl = "new" /\ jd.lib # "none"
    /\ Logout([jd EXCEPT !.lib = "none", !.ssl = "none"])

\* A callback of the SSL library for a connection that has been freed
OrphanRuns ==
    /\ \E o \in orphans : orphans' = orphans \ {o}
    /\ ~jd.reading
    /\ used' = TRUE
    /\ UNCHANGED <<jd, set, inbox, asked, peer, exposed>>

-----------------------------------------------------------------------------
(* Input *)

\* jabber_read_callback() up to xt_handle(), which gives up when no element
\* has been opened yet
Read ==
    /\ Idle /\ "r" \in jd.loop
    /\ \E n \in 1..Len(inbox) :
          LET new  == SubSeq(inbox, 1, n)
              root == IF "header" \in Range(new) THEN set.server ELSE jd.root
          IN  /\ jd' = IF root = "none" THEN [jd EXCEPT !.loop = @ \ {"r"}]
                       ELSE [jd EXCEPT !.root = root, !.reading = TRUE, !.todo = new]
              /\ inbox' = SubSeq(inbox, n + 1, Len(inbox))
    /\ UNCHANGED <<set, orphans, asked, peer, exposed, used>>

\* The same when read() or the parser fails
ReadFails ==
    /\ Idle /\ "r" \in jd.loop
    /\ ~peer \/ jd.ssl = "new"
    /\ Logout([jd EXCEPT !.fd = "none"])

\* What the callback does after the stanzas: the stream starts anew after
\* SASL, or old servers' login begins after the first tag.
ReadEnds ==
    /\ jd.reading /\ jd.todo = <<>>
    /\ LET c == [jd EXCEPT !.reading = FALSE]
           d == [c EXCEPT !.flags = @ \cup {"STREAM_STARTED"}]
       IN  IF "STREAM_RESTART" \in c.flags
           THEN StartStreamBy([c EXCEPT !.flags = @ \ {"STREAM_RESTART"}], FALSE)
           ELSE IF "STREAM_STARTED" \in c.flags THEN Keep(c)
           ELSE IF set.sasl /\ sasl_supported THEN Keep(d)
           ELSE IF set.tls = "true" THEN Logout(d)
           ELSE Send(d, "iqget")

\* jabber_pkt_bind_sess()
jabber_pkt_bind_sess(c) ==
    CASE "WANT_BIND" \in c.flags -> Send([c EXCEPT !.flags = @ \ {"WANT_BIND"}], "bind")
      [] "WANT_BIND" \notin c.flags /\ "WANT_SESSION" \in c.flags ->
            Send([c EXCEPT !.flags = @ \ {"WANT_SESSION"}], "session")
      [] OTHER -> Send(c, "roster")

\* Mutant: a missing STARTTLS is only looked for when TLS may be skipped.
NoTlsTolerated(starttls) == FALSE

\* TLS is wanted and cannot be had, or has to be had and is not wanted.
TlsRefused(starttls) ==
    /\ jd.ssl = "none"
    /\ \/ starttls = "required" /\ set.tls = "false"
       \/ starttls = "no" /\ set.tls = "true"

\* sasl_pkt_mechanisms(): the first mechanism that can be used
Mechanism(mechanisms) == IF "DIGEST-MD5" \in mechanisms THEN "digest" ELSE "plain"

\* jabber_pkt_features() of a stream where offers and wants are announced
jabber_pkt_features(c, starttls, mechanisms, wants) ==
    IF TlsRefused(starttls) THEN Logout(c)
    ELSE IF starttls # "no" /\ c.ssl = "none" /\ Tls THEN Send(c, "starttls")
    ELSE LET d == [c EXCEPT !.flags = @ \cup wants]
         IN  IF mechanisms # {}
             THEN IF mechanisms \cap {"PLAIN", "DIGEST-MD5"} = {} THEN Logout(c)
                  ELSE Send([d EXCEPT !.flags = @ \cup {"STREAM_STARTED"}], Mechanism(mechanisms))
             ELSE IF "AUTHENTICATED" \in c.flags THEN jabber_pkt_bind_sess(d)
             ELSE IF set.sasl /\ sasl_supported THEN Send(d, "iqget")
             ELSE Keep(d)

\* Mutant: the handle of the read watch survives the watch.
ProceedKeepsHandle(c) ==
    Keep([c EXCEPT !.loop = {}, !.w_inpa = FALSE, !.txq = <<>>,
                   !.flags = @ \cup {"STARTTLS_DONE"}, !.ssl = "new", !.lib = "starttls"])

\* jabber_pkt_proceed_tls() and ssl_starttls()
jabber_pkt_proceed_tls(c) ==
    Keep([c EXCEPT !.loop = @ \ ({"r"} \cup IF c.txq # <<>> THEN {"w"} ELSE {}),
                   !.r_inpa = FALSE, !.w_inpa = FALSE, !.txq = <<>>,
                   !.flags = @ \cup {"STARTTLS_DONE"}, !.ssl = "new", !.lib = "starttls"])

\* Mutant: the stream is not started anew.
SuccessNoRestart(c) == Keep([c EXCEPT !.flags = @ \cup {"AUTHENTICATED"}])

\* sasl_pkt_result() of a success
SaslSuccess(c) == Keep([c EXCEPT !.flags = @ \cup {"AUTHENTICATED", "STREAM_RESTART"}])

\* jabber_parse_roster() of the answer to our request and imcb_connected(),
\* which does not ask whether the presence could be sent
jabber_parse_roster(c) ==
    IF c.ic = "online" THEN Keep(c) ELSE SendBy([c EXCEPT !.ic = "online"], "misc", FALSE)

\* The handler of the stanza x
Handler(c, x) ==
    CASE x \in {"half", "header", "nothing"} -> Keep(c)
      [] x = "features" ->
            \E starttls \in {"no", "yes", "required"},
               mechanisms \in IF "AUTHENTICATED" \in c.flags THEN {{}}
                              ELSE SUBSET {"PLAIN", "DIGEST-MD5", "OTHER"},
               wants \in SUBSET {"WANT_BIND", "WANT_SESSION"} :
                  /\ starttls # "no" => c.ssl = "none"
                  /\ jabber_pkt_features(c, starttls, mechanisms, wants)
      [] x = "proceed" -> jabber_pkt_proceed_tls(c)
      [] x = "challenge" -> Send(c, "response")
      [] x = "rspauth" -> Send(c, "again")
      [] x = "success" -> SaslSuccess(c)
      [] x \in {"badchallenge", "failure", "iqerror", "end"} -> Logout(c)
      [] x = "fields" -> Logout(c) \/ Send(c, "iqset")
      [] x = "incomplete" -> imc_logout(c, FALSE)
      [] x = "iqresult" -> Send([c EXCEPT !.flags = @ \cup {"AUTHENTICATED"}], "roster")
      [] x = "bound" -> jabber_pkt_bind_sess(c)
      [] x = "contacts" -> jabber_parse_roster(c)
      [] x = "ping" -> Send(c, "misc")

Handle ==
    /\ jd.reading /\ jd.todo # <<>>
    /\ Handler([jd EXCEPT !.todo = Tail(@)], Head(jd.todo))

-----------------------------------------------------------------------------
(* The server and the user *)

\* What a server answers to a request
Answers(q) ==
    CASE q = "features" -> {"features"}
      [] q = "starttls" -> {"proceed", "failure"}
      [] q = "plain" -> {"success", "failure"}
      [] q = "digest" -> {"challenge", "badchallenge", "failure"}
      [] q = "response" -> {"rspauth", "success", "failure"}
      [] q = "again" -> {"success", "failure"}
      [] q = "iqget" -> {"fields", "incomplete"}
      [] q = "iqset" -> {"iqresult", "iqerror"}
      [] q \in {"bind", "session"} -> {"bound"}
      [] q = "roster" -> {"contacts"} \cup IF "noroster" \in Quirks THEN {"nothing"} ELSE {}

\* After proceed and after success the server waits for a new stream, whose
\* header comes before anything else.
ServerAnswers ==
    /\ peer /\ Len(inbox) < 2 /\ "end" \notin Range(inbox)
    /\ \/ /\ "header" \in asked
          /\ \E half \in {<<>>} \cup IF "half" \in Quirks THEN {<<"half">>} ELSE {} :
                inbox' = inbox \o half \o <<"header">>
          /\ asked' = IF set.server = "xmpp" THEN {"features"} ELSE {}
       \/ /\ asked \cap {"header", "restart"} = {}
          /\ \E q \in asked : \E x \in Answers(q) :
                /\ inbox' = Append(inbox, x)
                /\ asked' = IF x \in {"success", "proceed"} THEN {"restart"} ELSE asked \ {q}
    /\ UNCHANGED <<jd, set, orphans, peer, exposed, used>>

\* The server ends the stream, or asks something of a client that is logged
\* in, or says what only an answer should.
ServerSpeaks ==
    /\ peer /\ jd.root # "none" /\ inbox = <<>> /\ asked \cap {"header", "restart"} = {}
    /\ \/ inbox' = <<"end">>
       \/ /\ Len(jd.txq) < MaxOut
          /\ \/ "AUTHENTICATED" \in jd.flags /\ inbox' = <<"ping">>
             \/ \E x \in Unasked : inbox' = <<x>>
    /\ UNCHANGED <<jd, set, orphans, asked, peer, exposed, used>>

ServerCloses ==
    /\ peer /\ jd.ic # "none"
    /\ peer' = FALSE
    /\ UNCHANGED <<jd, set, orphans, inbox, asked, exposed, used>>

\* A line of the user, a status or a keepalive
UserLine ==
    /\ Idle /\ jd.ic = "online" /\ Len(jd.txq) < MaxOut
    /\ Send(jd, "misc")

\* account off
SwitchOff == Idle /\ Logout(jd)

Next ==
    /\ ~used
    /\ \/ jabber_login \/ jabber_connected_plain \/ ssl_connected \/ jabber_connected_ssl
       \/ SslFails \/ OrphanRuns
       \/ Flush \/ FlushFails \/ Read \/ ReadFails \/ Handle \/ ReadEnds
       \/ ServerAnswers \/ ServerSpeaks \/ ServerCloses \/ UserLine \/ SwitchOff

\* The event loop runs what is ready, TCP and TLS come to an end, the network
\* takes what is written, and a server answers.
Fairness ==
    /\ WF_vars(jabber_connected_plain) /\ WF_vars(ssl_connected)
    /\ WF_vars(jabber_connected_ssl \/ SslFails)
    /\ WF_vars(Flush \/ FlushFails)
    /\ WF_vars(Read \/ ReadFails) /\ WF_vars(Handle) /\ WF_vars(ReadEnds)
    /\ WF_vars(ServerAnswers)

Spec == Init /\ [][Next]_vars /\ Fairness

-----------------------------------------------------------------------------
(* Properties *)

TypeOK ==
    /\ jd \in [ic : {"none", "login", "online"}, fd : {"none", "connecting", "open"},
               ssl : {"none", "new", "up"}, lib : {"none", "proxy", "starttls", "handshake"},
               loop : SUBSET {"r", "w"}, r_inpa : BOOLEAN, w_inpa : BOOLEAN,
               txq : Seq(Packets), flags : SUBSET Flags, root : {"none", "xmpp", "old"},
               reading : BOOLEAN, todo : Seq(Stanzas)]
    /\ set \in Settings
    /\ orphans \subseteq {"proxy", "starttls"}
    /\ inbox \in Seq(Stanzas)
    /\ asked \subseteq Packets \cup {"features", "restart"}
    /\ exposed \subseteq Secrets
    /\ {peer, used} \subseteq BOOLEAN

\* Every connection is waiting for something that can happen: outside a read
\* its socket is read unless the SSL or proxy code is going to call back, the
\* write watch is there exactly while something is queued, and a connection
\* that is gone has no watch left (io.c:184-188 stops reading where "the
\* handlers should have aborted the connection already").
Attended ==
    ~jd.reading /\ ~used =>
        /\ jd.ic # "none" /\ jd.lib = "none" => "r" \in jd.loop
        /\ ("w" \in jd.loop) <=> (jd.txq # <<>>)
        /\ jd.ic = "none" => jd.loop = {}

\* With tls set to true (commands.xml:1486: "force BitlBee to use TLS sessions only")
\* the client begins neither login outside TLS, whatever the server announces and
\* in whatever order it answers.  sasl_pkt_challenge() does not ask whether a login
\* was begun, so a digest of the password does leave outside TLS if the server sends
\* a challenge that it was not asked for, and only then.
SecretsStayInside ==
    set.tls = "true" => exposed \subseteq IF "challenge" \in Unasked THEN {"response"} ELSE {}

\* A login ends, with the account online or the connection given up, if the
\* server answers what it is asked and says nothing else.
LoginEnds == (jd.ic = "login") ~> (jd.ic # "login" \/ used)
=============================================================================
