------------------------------ MODULE MCJabber ------------------------------
(***************************************************************************)
(* Small instances of Jabber: one account, whose settings and server can   *)
(* change from one login to the next.  With sasl switched off on a server  *)
(* that has STARTTLS both logins are begun at once and may block each      *)
(* other, which the run leaves out.                                        *)
(***************************************************************************)
EXTENDS Jabber

MCSettings ==
    {s \in [tls : {"true", "false", "try"}, ssl : BOOLEAN, sasl : BOOLEAN,
            server : {"xmpp", "old"}] : s.sasl \/ s.tls # "try"}

\* Where TLS has to be used and is not there from the first packet on: what is sent
\* before it is of interest.
MCRequiredTls == {s \in MCSettings : s.tls = "true" /\ ~s.ssl}
=============================================================================
