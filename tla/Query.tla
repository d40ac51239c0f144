-------------------------------- MODULE Query --------------------------------
(***************************************************************************)
(* The questions root asks the user: query.c, the imcb_ask functions of    *)
(* protocols/nogaim.c and their callbacks, and the `yes' and `no'          *)
(* commands.                                                               *)
(*                                                                         *)
(* query_answer() calls back into the protocol module with a pointer to    *)
(* the question on its stack; the module may ask another question, or lose *)
(* its connection, in which case imc_logout() flushes the connection's     *)
(* questions, before query_answer() goes on.  So an answer is modelled as  *)
(* its begin, what its callback does, and its end; answering is the stack  *)
(* frame.  Questions are heap addresses and may be used again.             *)
(***************************************************************************)
EXTENDS Naturals, SequencesExt

CONSTANTS
    Questions,       \* addresses query_add() may return
    Conns,           \* IM connections
    Null,
    Writers,         \* those of modules that write to their socket at once and
                     \* call imc_logout() if that fails (Jabber, MSN, Skype); the
                     \* others queue what they write
    Jabber           \* those of the Jabber module

Kinds ==
    {"auth",         \* something both answers to which the server is told: may someone
                     \* add the user to a buddy list, an invitation, a call
     "add",          \* imcb_ask_add(): does the user want to add someone?
     "pair",         \* OTR: is a fingerprint or a context to be forgotten?
     "borrowed"}     \* takeover, OTR keys, libpurple's authorization requests: the
                     \* data is not the question's own

\* Those that have their data freed with them: q->free is not NULL.
Owners == {"auth", "add"}

\* Those in which the answer ans frees the data.
FreedBy(ans) == IF ans = "yes" THEN Owners \cup {"pair"} ELSE Owners

Orders == {"lifo", "fifo", "other"}     \* the setting is any string

\* What the stack frame of query_answer() says of the question it answers.
Frames == [q : Questions, ic : Conns \cup {Null}, ans : {"yes", "no"}, plain : BOOLEAN,
           writes : BOOLEAN, asks : BOOLEAN, frees : BOOLEAN]

ASSUME ConstantsAssumption ==
    /\ Null \notin Questions \cup Conns \cup Frames
    /\ Jabber \subseteq Writers /\ Writers \subseteq Conns

VARIABLES
    connections,     \* the live IM connections
    order,           \* the query_order setting
    queries,         \* irc->queries; the allocated questions are those in it
    ic,              \* q->ic
    kind,            \* the callbacks of q
    hasData,         \* q->data is not NULL
    answering,       \* the frame of query_answer(), or Null
    freed,           \* history: how often q->data was freed since query_add()
    shown,           \* history: the user was shown the question
    reply,           \* history: what the answer told the server
    orderly,         \* history: in fifo order the user answered none by number,
                     \* and with questions pending the order changed to fifo only
    stale            \* history: answered or asked by a callback that had lost the
                     \* question's connection

vars == <<connections, order, queries, ic, kind, hasData, answering,
          freed, shown, reply, orderly, stale>>

Pending == Range(queries)

\* query_default() of a list
DefaultOf(s) ==
    IF s = <<>> THEN Null ELSE IF order = "fifo" THEN Head(s) ELSE Last(s)

\* What is left of the list s when the questions in S are taken out of it.
Without(s, S) ==
    LET left[i \in 0..Len(s)] ==
            IF i = 0 THEN <<>> ELSE IF s[i] \in S THEN left[i - 1] ELSE Append(left[i - 1], s[i])
    IN  left[Len(s)]

Init ==
    /\ connections = {}
    /\ order = "lifo"
    /\ queries = <<>>
    /\ ic = [q \in Questions |-> Null]
    /\ kind = [q \in Questions |-> "borrowed"]
    /\ hasData = [q \in Questions |-> FALSE]
    /\ answering = Null
    /\ freed = [q \in Questions |-> 0]
    /\ shown = {}
    /\ reply = [q \in Questions |-> "none"]
    /\ orderly = TRUE
    /\ stale = {}

-----------------------------------------------------------------------------

\* Mutant: only the first question is displayed, whatever the order.
DisplayFirst(s) == s = <<>>

\* Does query_add() display the question it appends to s?
DisplaysNew(s) == order = "lifo" \/ s = <<>>

\* query_add() of a question of kind k for connection c.
QueryAdd(c, k) ==
    \E q \in Questions \ Pending :
        /\ queries' = Append(queries, q)
        /\ ic' = [ic EXCEPT ![q] = c]
        /\ kind' = [kind EXCEPT ![q] = k]
        /\ hasData' = [hasData EXCEPT ![q] = TRUE]
        /\ freed' = [freed EXCEPT ![q] = 0]
        /\ shown' = IF DisplaysNew(queries) THEN shown \cup {q} ELSE shown \ {q}
        /\ reply' = [reply EXCEPT ![q] = "none"]
        /\ stale' = IF c \in connections \cup {Null} THEN stale \ {q} ELSE stale \cup {q}

\* Has q data that is to be freed with it?
Owns(q) == hasData[q] /\ kind[q] \in Owners

\* query_del() of the questions in S, in a row: q->free(q->data) where there
\* are both.
QueryDel(S) ==
    /\ queries' = Without(queries, S)
    /\ freed' = [q \in Questions |-> IF q \in S \cap Pending /\ Owns(q) THEN freed[q] + 1
                                     ELSE freed[q]]

\* A protocol module asks.  imcb_ask_add() asks about people not yet on the
\* buddy list only.
Ask(c, k) ==
    /\ answering = Null
    /\ c \in connections
    /\ QueryAdd(c, k)
    /\ UNCHANGED <<connections, order, answering, orderly>>

\* OTR, or the takeover of a session, asks.
AskRoot(k) ==
    /\ answering = Null
    /\ QueryAdd(Null, k)
    /\ UNCHANGED <<connections, order, answering, orderly>>

-----------------------------------------------------------------------------
(* query_answer() *)

\* What the callback of q tells the server: jabber_buddy_ask_no() and
\* jabber_buddy_ask_yes() both send "subscribed".
ReplyTo(q, ans) ==
    CASE kind[q] # "auth" -> "none"
      [] kind[q] = "auth" /\ ic[q] \in Jabber -> "allowed"
      [] kind[q] = "auth" /\ ic[q] \notin Jabber -> IF ans = "yes" THEN "allowed" ELSE "denied"

\* cmd_yesno() and query_answer() up to the callback's first call: plain is
\* an answer without a number, to the default question.
Answer(q, ans, plain) ==
    /\ answering = Null
    /\ q \in Pending
    /\ plain => q = DefaultOf(queries)
    /\ answering' = [q |-> q, ic |-> ic[q], ans |-> ans, plain |-> plain,
                     writes |-> kind[q] = "auth" \/ (kind[q] = "add" /\ ans = "yes"),
                     asks |-> kind[q] = "auth" /\ ans = "yes",
                     frees |-> kind[q] \in FreedBy(ans)]
    /\ reply' = [reply EXCEPT ![q] = ReplyTo(q, ans)]
    /\ orderly' = (orderly /\ (plain \/ order = "lifo"))
    /\ UNCHANGED <<connections, order, queries, ic, kind, hasData, freed, shown, stale>>

\* Mutant: the search ends at the first question.
FlushFirst(c) ==
    IF \E q \in Pending : ic[q] = c THEN {SelectSeq(queries, LAMBDA q : ic[q] = c)[1]} ELSE {}

\* The questions query_del_by_conn() deletes.
OfConnection(c) == {q \in Pending : ic[q] = c}

\* Mutant: whether there is a question left is not tested.
DisplayNull(old, s) == DefaultOf(s) # DefaultOf(old)

\* query_del_by_conn() displays the default question if it is another one.
DisplaysNext(old, s) == DefaultOf(s) # Null /\ DefaultOf(s) # DefaultOf(old)

\* The part of imc_logout() that concerns questions.
LogoutFlushes(c) ==
    LET left == Without(queries, OfConnection(c))
    IN  /\ QueryDel(OfConnection(c))
        /\ shown' = IF DisplaysNext(queries, left) THEN shown \cup {DefaultOf(left)} ELSE shown
        /\ connections' = connections \ {c}

\* The protocol module finds out, while it writes the answer, that its
\* connection is gone, and calls imc_logout() (jabber_write_queue() and
\* msn_ns_write() do), which flushes the question that is being answered.  Of a
\* connection that has gone before it finds OPT_LOGGING_OUT and does nothing.
CallbackLogout ==
    /\ answering # Null
    /\ answering.writes /\ answering.ic \in connections \cap Writers
    /\ LogoutFlushes(answering.ic)
    /\ stale' = stale \cup {answering.q}
    /\ UNCHANGED <<order, ic, kind, hasData, answering, reply, orderly>>

\* jabber_buddy_ask_yes(), msn_buddy_ask_yes(), gaim_icq_authgrant(): "not in your
\* buddy list yet. Do you want to add him/her now?"  None of them looks whether what
\* it wrote before has lost the connection; if so, all that is left of the
\* connection is its freed memory, and the new question can get the address of the
\* one that is being answered.
CallbackAsks ==
    /\ answering # Null
    /\ answering.asks
    /\ QueryAdd(answering.ic, "add")
    /\ answering' = [answering EXCEPT !.asks = FALSE, !.writes = FALSE]
    /\ UNCHANGED <<connections, order, orderly>>

\* Mutant: q->data is not reset after the callback.
KeepData(q) == hasData

ClearData(q) == [hasData EXCEPT ![q] = FALSE]

\* The callback frees its data, if it does, and returns; query_answer() deletes
\* the question and, if the answer was plain, displays the next one.
AnswerEnd ==
    /\ answering # Null
    /\ LET q == answering.q
           data == ClearData(q)
           left == Without(queries, {q})
       IN  /\ hasData' = data
           /\ queries' = left
           /\ freed' = [freed EXCEPT ![q] = @ + (IF answering.frees THEN 1 ELSE 0)
                                                  + (IF q \in Pending /\ kind[q] \in Owners /\ data[q]
                                                     THEN 1 ELSE 0)]
           /\ shown' = IF answering.plain /\ left # <<>> THEN shown \cup {DefaultOf(left)} ELSE shown
    /\ answering' = Null
    /\ UNCHANGED <<connections, order, ic, kind, reply, orderly, stale>>

-----------------------------------------------------------------------------

\* A login succeeds.
Connect(c) ==
    /\ answering = Null
    /\ c \notin connections
    /\ connections' = connections \cup {c}
    /\ UNCHANGED <<order, queries, ic, kind, hasData, answering, freed, shown, reply, orderly, stale>>

\* imc_logout()
Logout(c) ==
    /\ answering = Null
    /\ c \in connections
    /\ LogoutFlushes(c)
    /\ UNCHANGED <<order, ic, kind, hasData, answering, reply, orderly, stale>>

\* `set query_order'
SetQueryOrder ==
    /\ answering = Null
    /\ order' \in Orders \ {order}
    /\ orderly' = (orderly /\ (queries = <<>> \/ (order = "lifo" /\ order' = "fifo")))
    /\ UNCHANGED <<connections, queries, ic, kind, hasData, answering, freed, shown, reply, stale>>

\* irc_free(): the questions go first, then bee_free() logs out.
IrcFree ==
    /\ answering = Null
    /\ QueryDel(Pending)
    /\ connections' = {}
    /\ UNCHANGED <<order, ic, kind, hasData, answering, shown, reply, orderly, stale>>

Next ==
    \/ \E c \in Conns : \/ Connect(c) \/ Logout(c)
                        \/ \E k \in {"auth", "add", "borrowed"} : Ask(c, k)
    \/ \E k \in {"pair", "borrowed"} : AskRoot(k)
    \/ \E q \in Questions, ans \in {"yes", "no"}, plain \in BOOLEAN : Answer(q, ans, plain)
    \/ CallbackLogout
    \/ CallbackAsks
    \/ AnswerEnd
    \/ SetQueryOrder
    \/ IrcFree

Spec == Init /\ [][Next]_vars

-----------------------------------------------------------------------------
(* Properties *)

TypeOK ==
    /\ connections \subseteq Conns
    /\ order \in Orders
    /\ queries \in Seq(Questions) /\ IsInjective(queries)
    /\ ic \in [Questions -> Conns \cup {Null}]
    /\ kind \in [Questions -> Kinds]
    /\ hasData \in [Questions -> BOOLEAN]
    /\ answering \in Frames \cup {Null}
    /\ freed \in [Questions -> Nat]
    /\ shown \subseteq Questions
    /\ reply \in [Questions -> {"none", "allowed", "denied"}]
    /\ orderly \in BOOLEAN
    /\ stale \subseteq Questions

\* A question never outlives the connection it is about, so that an answer
\* does not call a protocol module with a freed connection: but for those that a
\* callback asks after the connection was lost under it.
QuestionsOfLiveConnections == \A q \in Pending \ stale : ic[q] \in connections \cup {Null}

\* The data of a question is freed exactly once, by the callback that consumed
\* it or with the question, and never by both; what the question only borrows
\* is never freed, and what OTR allocated for it at most once (a `no' leaks it).
\* Only where a callback loses the connection it may be freed twice.
DataIsFreedOnce ==
    \A q \in Questions \ stale :
        /\ kind[q] \in Owners => freed[q] = IF q \in Pending THEN 0 ELSE 1
        /\ kind[q] = "pair" => freed[q] <= IF q \in Pending THEN 0 ELSE 1
        /\ kind[q] = "borrowed" => freed[q] = 0

\* A plain `yes' or `no' answers a question the user was shown, in the two orders
\* that are documented, as long as the user does not leave fifo order with
\* questions pending and gives plain answers in it, whatever the logouts do to the
\* list.
PlainAnswerWasShown ==
    orderly /\ order # "other" /\ answering = Null /\ queries # <<>> => DefaultOf(queries) \in shown

\* Someone whose request the user rejects is not told the opposite.
RejectedIsNotAuthorized ==
    answering # Null /\ answering.ans = "no" => reply[answering.q] # "allowed"
=============================================================================
