----------------------------- MODULE SMSession ------------------------------
(***************************************************************************)
(* A StanzaStream and an XEP-0198 server over a sequence of connections    *)
(* that may be lost at any moment.  A lost connection loses a suffix of    *)
(* what was written in either direction: each side reads a prefix of its   *)
(* channel until the client connects anew.                                 *)
(*                                                                         *)
(* The owner of the stream behaves like node.Client: it resumes when it    *)
(* can, and otherwise starts the stream, binds a resource and asks for     *)
(* Stream Management; it stops the stream when that dies with the          *)
(* connection.                                                             *)
(***************************************************************************)
EXTENDS StanzaStream, FiniteSets

CONSTANTS
    MaxConn,       \* bound: connections
    ServerResumes  \* whether the server offers resumption: subset of BOOLEAN

BindResult == 0    \* number of the stanza that answers the bind request

ASSUME SessionAssumption ==
    /\ Tokens \subseteq Nat /\ Inbound \subseteq Nat /\ BindResult \in Inbound
    /\ MaxConn \in Nat /\ ServerResumes \subseteq BOOLEAN /\ IsFiniteSet(Tokens)

VARIABLES
    c2s, s2c,      \* what is in flight to the server and to the client
    bind,          \* the client's resource binding: "no", "asked" or "yes"
    link,          \* how far the current connection is for the server:
                   \* "none", "plain", "bound" or "sm"
    sess,          \* the server's SM session: on, may it be resumed, stanzas
                   \* handled, client's last acked count, unacked stanzas,
                   \* has it asked for an acknowledgement
    sent,          \* stanzas the server has sent so far, numbered from 1
    counted,       \* those of them sent in the current SM session
    handled,       \* tokens of the stanzas the server handled, in order
    handed,        \* stanzas the client gave to the application, in order
    conns,         \* connections made
    stray          \* history: how received stanzas came to be processed in an SM
                   \* session they do not belong to. "early": received before its
                   \* <enabled/>; "leftover": received on the last connection

serverVars  == <<link, sess, sent, counted, handled>>
sessionVars == <<vars, c2s, s2c, bind, serverVars, handed, conns, stray>>

NoSession == [on |-> FALSE, resumable |-> FALSE, h |-> 0, base |-> 0, out |-> <<>>,
              asked |-> FALSE]

SessionInit ==
    /\ Init
    /\ c2s = <<>> /\ s2c = <<>>
    /\ bind = "no" /\ link = "none" /\ sess = NoSession
    /\ sent = 0 /\ counted = {} /\ handled = <<>> /\ handed = <<>> /\ conns = 0 /\ stray = {}

-----------------------------------------------------------------------------
(* The client, whose output goes to the wire and to the application; the     *)
(* result of its bind request goes to _bind.                                 *)

Outputs ==
    /\ c2s' = c2s \o io'.wire
    /\ IF BindResult \in ToSet(io'.app)
       THEN bind' = "yes" /\ UNCHANGED handed
       ELSE handed' = handed \o io'.app /\ UNCHANGED bind

\* _bind, on a stream that was started and not resumed.
AskBind ==
    /\ broker = "wait" /\ ~smEnabled /\ bind = "no" /\ conn = "open"
    /\ bind' = "asked"
    /\ c2s' = Append(c2s, [k |-> "bind"])
    /\ UNCHANGED <<vars, s2c, serverVars, handed, conns, stray>>

\* The stanzas the stream has accepted and not yet settled.
Unsettled == ToSet(active) \cup ToSet(afut) \cup Unacked

\* Bound: fewer than W stanzas are unsettled at any time.
ClientStep ==
    \/ \E t \in Tokens :
          /\ \A u \in Tokens : u < t => state[u] # "NEW"   \* enqueued in order
          /\ Cardinality(Unsettled \cup {t}) < W
          /\ Enqueue(t)
    \/ \E t \in Tokens : Abort(t)
    \/ Broker \/ GetActive \/ GetIncoming
    \/ Start /\ ~smEnabled
    \/ StartSM /\ bind = "yes"
    \/ ResumeSM
    \/ Stop /\ notified
    \/ StartSMAnswered \/ StartSMDies
    \/ Resumed \/ ResumeRaises \/ ResumeRefused
    \/ ResumeDies /\ notified
    \/ ConnFails \/ PeerEof \/ ConnGone \/ OnClosing

Client(A) == A /\ Outputs /\ UNCHANGED <<s2c, serverVars, conns, stray>>

\* The last task never ran and left the stanzas it should have drained.
Undrained == "stanza" \in classes /\ incoming # <<>>

\* The owner connects anew once the last connection is lost. What is still in
\* flight is lost; the server keeps a resumable session.
Reconnect ==
    /\ conn # "open" /\ conns < MaxConn /\ conns' = conns + 1
    /\ Connect
    /\ c2s' = <<>> /\ s2c' = <<>> /\ bind' = "no"
    /\ link' = "plain"
    /\ sess' = IF sess.resumable THEN sess ELSE NoSession
    /\ stray' = IF Undrained THEN stray \cup {"leftover"} ELSE stray
    /\ UNCHANGED <<sent, counted, handled, handed>>

\* The client reads the next element. Answers to requests it no longer waits
\* for are unknown elements.
Read(A) == A /\ s2c # <<>> /\ s2c' = Tail(s2c) /\ UNCHANGED <<c2s, bind, serverVars, handed, conns>>

Delivered ==
    LET e == Head(s2c) IN
    CASE s2c = <<>> -> FALSE
      [] s2c # <<>> /\ e.k \in {"stanza", "r", "a"} -> Read(Recv(e) \/ RecvUnknown(e))
      [] s2c # <<>> /\ e.k = "enabled" -> Read(RecvEnabled(e.resume))
      [] s2c # <<>> /\ e.k = "enablefailed" -> Read(RecvSMFailed)
      [] s2c # <<>> /\ e.k = "resumed" -> Read(RecvResumed(e.h))
      [] s2c # <<>> /\ e.k = "resumefailed" -> Read(RecvResumeFailed(e.h))

\* SM starts while stanzas wait that were received without it.
Early == s2c # <<>> /\ Head(s2c).k = "enabled" /\ \E e \in ToSet(ifut \o incoming) : e.k = "stanza"

Receive == Delivered /\ stray' = IF Early THEN stray \cup {"early"} ELSE stray

-----------------------------------------------------------------------------
(* The server. *)

ServerStep == UNCHANGED <<vars, bind, handed, conns, stray>>

\* Drop what the client has acknowledged with h.
AckedBy(s, h) == [s EXCEPT !.asked = FALSE, !.base = h, !.out = SubSeq(@, ((h - s.base) % W) + 1, Len(@))]

StanzasOf(seq) == [i \in DOMAIN seq |-> Stanza(seq[i])]

Reading(e) == c2s # <<>> /\ Head(c2s) = e /\ c2s' = Tail(c2s) /\ ServerStep

HandleBind ==
    /\ Reading([k |-> "bind"])
    /\ s2c' = Append(s2c, Stanza(BindResult))
    /\ link' = "bound"
    /\ UNCHANGED <<sess, sent, counted, handled>>

HandleStanza == \E t \in Tokens :
    /\ Reading(Stanza(t))
    /\ handled' = Append(handled, t)
    /\ sess' = IF link = "sm" THEN [sess EXCEPT !.h = (@ + 1) % W] ELSE sess
    /\ UNCHANGED <<s2c, link, sent, counted>>

HandleRequest ==
    /\ Reading(SMRequest)
    /\ s2c' = IF link = "sm" THEN Append(s2c, SMAck(sess.h)) ELSE s2c
    /\ UNCHANGED serverVars

HandleAck == \E h \in Counter :
    /\ Reading(SMAck(h))
    /\ sess' = IF link = "sm" THEN AckedBy(sess, h) ELSE sess
    /\ UNCHANGED <<s2c, link, sent, counted, handled>>

HandleEnable == \E resumable \in ServerResumes :
    /\ Reading([k |-> "enable"])
    /\ s2c' = Append(s2c, [k |-> "enabled", resume |-> resumable])
    /\ link' = "sm"
    /\ sess' = [NoSession EXCEPT !.on = TRUE, !.resumable = resumable]
    /\ counted' = {}
    /\ UNCHANGED <<sent, handled>>

RefuseEnable ==
    /\ Reading([k |-> "enable"])
    /\ s2c' = Append(s2c, [k |-> "enablefailed"])
    /\ UNCHANGED serverVars

\* Resume, and send again what the client has not acknowledged.
HandleResume == \E h \in Counter :
    /\ Reading([k |-> "resume", h |-> h]) /\ sess.on
    /\ link' = "sm"
    /\ sess' = AckedBy(sess, h)
    /\ s2c' = s2c \o <<[k |-> "resumed", h |-> sess.h]>> \o StanzasOf(sess'.out)
    /\ UNCHANGED <<sent, counted, handled>>

\* The session has timed out; the server may still know how far it had got.
RefuseResume == \E h \in Counter, n \in {sess.h, NoCounter} :
    /\ Reading([k |-> "resume", h |-> h]) /\ sess.on
    /\ s2c' = Append(s2c, [k |-> "resumefailed", h |-> n])
    /\ sess' = NoSession
    /\ UNCHANGED <<link, sent, counted, handled>>

\* A stanza for the client; an SM session keeps it until it is acknowledged.
\* Bound: it keeps fewer than W.
SendInbound ==
    /\ sent + 1 \in Inbound
    /\ link = "bound" \/ (link = "sm" /\ Len(sess.out) + 1 < W)
    /\ sent' = sent + 1
    /\ s2c' = Append(s2c, Stanza(sent + 1))
    /\ IF link = "sm"
       THEN sess' = [sess EXCEPT !.out = Append(@, sent + 1)] /\ counted' = counted \cup {sent + 1}
       ELSE UNCHANGED <<sess, counted>>
    /\ ServerStep /\ UNCHANGED <<c2s, link, handled>>

RequestAck ==
    /\ link = "sm" /\ sess.out # <<>> /\ ~sess.asked
    /\ s2c' = Append(s2c, SMRequest)
    /\ sess' = [sess EXCEPT !.asked = TRUE]
    /\ ServerStep /\ UNCHANGED <<c2s, link, sent, counted, handled>>

Server == \/ HandleBind \/ HandleStanza \/ HandleRequest \/ HandleAck
          \/ HandleEnable \/ RefuseEnable \/ HandleResume \/ RefuseResume
          \/ SendInbound \/ RequestAck

SessionNext == Client(ClientStep) \/ AskBind \/ Reconnect \/ Receive \/ Server

SessionSpec == SessionInit /\ [][SessionNext]_sessionVars

\* The client's loop and the server run, and the network delivers; the owner
\* starts or resumes the stream on a new connection.
SessionFairness ==
    /\ WF_sessionVars(Client(Broker)) /\ SF_sessionVars(Client(GetActive))
    /\ SF_sessionVars(Client(GetIncoming))
    /\ SF_sessionVars(Client(Resumed \/ ResumeRaises \/ ResumeRefused))
    /\ SF_sessionVars(Client(StartSMAnswered \/ StartSMDies))
    /\ WF_sessionVars(Client((Start /\ ~smEnabled) \/ ResumeSM))
    /\ SF_sessionVars(Client(OnClosing)) /\ SF_sessionVars(Receive)
    /\ WF_sessionVars(HandleBind \/ HandleStanza \/ HandleRequest \/ HandleAck
                         \/ HandleEnable \/ HandleResume)

FairSessionSpec == SessionSpec /\ SessionFairness

-----------------------------------------------------------------------------
(* Safety *)

\* Neither resumption nor a restart of the stream transmits a stanza the server
\* has handled already.
HandledOnce == IsInjective(handled)

\* The counters that the server sends, in an <a/> or in its answer to <resume/>,
\* never cover more than the stream remembers as unacked, however connections end.
OutboundCounters ==
    /\ broker = "incoming" /\ smEnabled /\ Head(ifut).k = "a" =>
          ToDrop(Head(ifut).h) <= Len(unacked)
    /\ rsop.h # NoCounter => ToDrop(rsop.h) <= Len(unacked)

\* What the source says of received stanzas, of every session. None of it holds:
\* SM counts what was received before it (early) and on the last connection
\* (leftover).

\* stream.py:2174, of start_sm: it "initializes a new stream management session".
\* In that session, no counter that the client sends covers more than the server
\* remembers.
CountersSent ==
    /\ link = "sm" /\ c2s # <<>> /\ Head(c2s).k = "a" =>
          (Head(c2s).h - sess.base) % W <= Len(sess.out)
    /\ sess.on /\ c2s # <<>> /\ Head(c2s).k = "resume" =>
          (Head(c2s).h - sess.base) % W <= Len(sess.out)

\* node.py:659, of on_stream_resumed: "without loss of data". While the stream
\* runs, a stanza that the session counts was handed to the application, or is
\* under way, or the server still remembers it.
NothingLost ==
    link = "sm" /\ Running => \A m \in counted :
        m \in ToSet(handed) \cup ToSet(sess.out) \/ Stanza(m) \in ToSet(ifut \o incoming \o s2c)

\* stream.py:2030-2037, of the incoming queue of a broker that ends: after a
\* resumption "we'd get them re-transmitted anyway", otherwise "it would be invalid
\* to [...] process it in any way". So no stanza is handed on twice or too late.
HandedInOrder == \A i, j \in DOMAIN handed : i < j => handed[i] < handed[j]

\* In every other session, whatever is lost, refused, resumed or sent again: the
\* client acknowledges what it has received and no more.
InboundCounters == stray = {} => CountersSent

\* What the server of such a session has forgotten, because the client
\* acknowledged it, has reached the application.
NoInboundLoss ==
    stray = {} /\ smEnabled /\ sess.on => \A m \in counted \ ToSet(sess.out) : m \in ToSet(handed)

\* Received stanzas reach the application of such a session in the order sent, at
\* most once.
InboundInOrder == stray = {} => HandedInOrder

\* On a connection that holds, every stanza sent gets its verdict: an ack is
\* requested after every batch, also after the retransmissions of a resumption.
SentIsSettled ==
    <>[](conn = "open") => \A t \in Tokens : state[t] = "SENT" ~> state[t] # "SENT"

\* What a token's state tells the application about its stanza.
PromiseOf(s) ==
    CASE s = "NEW" -> "NEW"
      [] s \in {"ACTIVE", "SENT"} -> "OPEN"
      [] s = "ACKED" -> "DELIVERED"
      [] s = "ABORTED" -> "RETRACTED"
      [] s \in {"DROPPED", "FAILED"} -> "WITHHELD"
      [] s \in {"SENT_WITHOUT_SM", "DISCONNECTED"} -> "UNKNOWN"

promise     == [t \in Tokens |-> PromiseOf(state[t])]
transferred == ToSet(handled)

Contract == INSTANCE TokenContract WITH promise <- promise, transferred <- transferred

\* The session implements the token contract: whatever happens to connections,
\* tokens tell the truth about what the server took over.
ImplementsContract == Contract!Spec
=============================================================================
