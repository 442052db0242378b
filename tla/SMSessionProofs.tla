--------------------------- MODULE SMSessionProofs ---------------------------
(***************************************************************************)
(* Proofs about SMSession: a stanza stream and an XEP-0198 server over any *)
(* number of connections, for any stanzas and any modulus of the counters  *)
(* above their number.                                                     *)
(*                                                                         *)
(* The inductive invariant SessionInv holds however connections end and    *)
(* whenever the server sends.  ClientControl, Binding, Enabling and        *)
(* Resuming say which requests and answers may be under way where the      *)
(* owner's coroutines are.  Transmission and Outbound tie the tokens to    *)
(* what the channel carries and the server has handled: its counter covers *)
(* exactly those unacked stanzas that it handled.  Acks orders the         *)
(* acknowledgements under way.                                             *)
(*                                                                         *)
(* InboundInv, about received stanzas, holds until the session strays: a   *)
(* stanza received before <enabled/> is counted after it, or the broker of *)
(* the next connection processes the incoming queue of the last one.       *)
(*                                                                         *)
(* A step of the session is reduced to its ClientEffect, a step of the     *)
(* server or a change of connection, so that each part of the invariant    *)
(* is proved once for all the broker's actions of one kind.  Sequences are *)
(* reasoned about through their elements and the order Before.             *)
(***************************************************************************)
EXTENDS SMSession, StanzaStreamProofs, FiniteSetTheorems

Before(q, x, y) == \E i, j \in 1..Len(q) : i < j /\ q[i] = x /\ q[j] = y

LEMMA BeforeMembers ==
    ASSUME NEW S, NEW q \in Seq(S), NEW x, NEW y, Before(q, x, y)
    PROVE  x \in ToSet(q) /\ y \in ToSet(q)
  BY InSequence DEF Before

LEMMA BeforeEmpty == \A x, y : ~Before(<<>>, x, y)
  BY DEF Before

LEMMA BeforeSingle == ASSUME NEW S, NEW e \in S PROVE \A x, y : ~Before(<<e>>, x, y)
  BY DEF Before

LEMMA ConcatIndex ==
    ASSUME NEW S, NEW q \in Seq(S), NEW r \in Seq(S)
    PROVE  /\ q \o r \in Seq(S) /\ Len(q \o r) = Len(q) + Len(r) /\ Len(q) \in Nat /\ Len(r) \in Nat
           /\ \A i \in 1..Len(q) : (q \o r)[i] = q[i]
           /\ \A i \in 1..Len(r) : (q \o r)[Len(q) + i] = r[i]
           /\ \A i \in 1..Len(q \o r) : i > Len(q) => i - Len(q) \in 1..Len(r) /\ (q \o r)[i] = r[i - Len(q)]
  OBVIOUS

LEMMA BeforeConcat ==
    ASSUME NEW S, NEW q \in Seq(S), NEW r \in Seq(S), NEW x, NEW y
    PROVE  Before(q \o r, x, y) <=> \/ Before(q, x, y) \/ Before(r, x, y)
                                    \/ x \in ToSet(q) /\ y \in ToSet(r)
  <1>1. /\ q \o r \in Seq(S) /\ Len(q \o r) = Len(q) + Len(r) /\ Len(q) \in Nat /\ Len(r) \in Nat
        /\ \A i \in 1..Len(q) : (q \o r)[i] = q[i]
        /\ \A i \in 1..Len(r) : (q \o r)[Len(q) + i] = r[i]
        /\ \A i \in 1..Len(q \o r) : i > Len(q) => i - Len(q) \in 1..Len(r) /\ (q \o r)[i] = r[i - Len(q)]
    BY ConcatIndex
  <1> DEFINE c == q \o r
  <1>. HIDE DEF c
  <1>2. ASSUME Before(c, x, y) PROVE Before(q, x, y) \/ Before(r, x, y) \/ (x \in ToSet(q) /\ y \in ToSet(r))
    <2>1. PICK i, j \in 1..Len(c) : i < j /\ c[i] = x /\ c[j] = y
      BY <1>2 DEF Before
    <2>2. CASE j <= Len(q)
      BY <1>1, <2>1, <2>2 DEF Before, c
    <2>3. CASE i > Len(q)
      <3>1. i - Len(q) \in 1..Len(r) /\ j - Len(q) \in 1..Len(r) /\ i - Len(q) < j - Len(q)
            /\ r[i - Len(q)] = x /\ r[j - Len(q)] = y
        BY <1>1, <2>1, <2>3 DEF c
      <3>. QED
        BY <3>1 DEF Before
    <2>4. CASE i <= Len(q) /\ j > Len(q)
      <3>1. i \in 1..Len(q) /\ q[i] = x /\ j - Len(q) \in 1..Len(r) /\ r[j - Len(q)] = y
        BY <1>1, <2>1, <2>4 DEF c
      <3>. QED
        BY <3>1, InSequence
    <2>. QED
      BY <1>1, <2>1, <2>2, <2>3, <2>4
  <1>3. ASSUME Before(q, x, y) PROVE Before(c, x, y)
    BY <1>1, <1>3 DEF Before, c
  <1>4. ASSUME Before(r, x, y) PROVE Before(c, x, y)
    <2>1. PICK i, j \in 1..Len(r) : i < j /\ r[i] = x /\ r[j] = y
      BY <1>4 DEF Before
    <2>2. Len(q) + i \in 1..Len(c) /\ Len(q) + j \in 1..Len(c) /\ Len(q) + i < Len(q) + j
          /\ c[Len(q) + i] = x /\ c[Len(q) + j] = y
      BY <1>1, <2>1 DEF c
    <2>. QED
      BY <2>2 DEF Before
  <1>5. ASSUME x \in ToSet(q), y \in ToSet(r) PROVE Before(c, x, y)
    <2>1. PICK i \in 1..Len(q) : q[i] = x
      BY <1>5 DEF ToSet
    <2>2. PICK j \in 1..Len(r) : r[j] = y
      BY <1>5 DEF ToSet
    <2>3. i \in 1..Len(c) /\ Len(q) + j \in 1..Len(c) /\ i < Len(q) + j
          /\ c[i] = x /\ c[Len(q) + j] = y
      BY <1>1, <2>1, <2>2 DEF c
    <2>. QED
      BY <2>3 DEF Before
  <1>. QED
    BY <1>2, <1>3, <1>4, <1>5 DEF c

LEMMA BeforeAppend ==
    ASSUME NEW S, NEW q \in Seq(S), NEW e \in S, NEW x, NEW y
    PROVE  Before(Append(q, e), x, y) <=> Before(q, x, y) \/ (x \in ToSet(q) /\ y = e)
  <1>1. Append(q, e) = q \o <<e>> /\ <<e>> \in Seq(S)
    OBVIOUS
  <1>2. ToSet(<<e>>) = {e} /\ ~Before(<<e>>, x, y)
    BY ElementsOfSingleton, BeforeSingle
  <1>3. Before(q \o <<e>>, x, y) <=> \/ Before(q, x, y) \/ Before(<<e>>, x, y)
                                     \/ x \in ToSet(q) /\ y \in ToSet(<<e>>)
    BY <1>1, BeforeConcat
  <1>. QED
    BY <1>1, <1>2, <1>3

LEMMA BeforeTail ==
    ASSUME NEW S, NEW q \in Seq(S), q # <<>>, NEW x, NEW y
    PROVE  Before(q, x, y) <=> Before(Tail(q), x, y) \/ (x = Head(q) /\ y \in ToSet(Tail(q)))
  <1>1. q = <<Head(q)>> \o Tail(q) /\ <<Head(q)>> \in Seq(S) /\ Tail(q) \in Seq(S) /\ Head(q) \in S
    OBVIOUS
  <1>2. ToSet(<<Head(q)>>) = {Head(q)} /\ ~Before(<<Head(q)>>, x, y)
    BY <1>1, ElementsOfSingleton, BeforeSingle
  <1>3. Before(<<Head(q)>> \o Tail(q), x, y)
           <=> \/ Before(<<Head(q)>>, x, y) \/ Before(Tail(q), x, y)
               \/ x \in ToSet(<<Head(q)>>) /\ y \in ToSet(Tail(q))
    BY <1>1, BeforeConcat
  <1>. QED
    BY <1>1, <1>2, <1>3

(* What a connection carries, and the order in it. *)

Bind      == [k |-> "bind"]
BindReply == Stanza(BindResult)
Enable    == [k |-> "enable"]
Resume(h) == [k |-> "resume", h |-> h]

ToServer == {Stanza(t) : t \in Tokens} \cup {SMAck(h) : h \in Counter}
               \cup {Resume(h) : h \in Counter} \cup {SMRequest, Enable, Bind}

ToClient == Element \cup {[k |-> "enabled", resume |-> r] : r \in BOOLEAN} \cup {[k |-> "enablefailed"]}
               \cup {[k |-> "resumed", h |-> h] : h \in Counter}
               \cup {[k |-> "resumefailed", h |-> h] : h \in Counter \cup {NoCounter}}

Has(q, k) == \E e \in ToSet(q) : e.k = k
Once(q, K) == \A x, y \in ToSet(q) : x.k \in K /\ y.k \in K => ~Before(q, x, y)
Numbered == Inbound \ {BindResult}

\* What the broker has yet to process of what the server sent, in order.
Pipe == ifut \o (incoming \o s2c)

SessionRecord == [on : BOOLEAN, resumable : BOOLEAN, h : Counter, base : Counter,
                  out : Seq(Numbered), asked : BOOLEAN]

SessionTypeOK ==
    /\ c2s \in Seq(ToServer) /\ s2c \in Seq(ToClient)
    /\ bind \in {"no", "asked", "yes"}
    /\ link \in {"none", "plain", "bound", "sm"}
    /\ sess \in SessionRecord
    /\ sent \in Nat /\ counted \subseteq Numbered
    /\ handled \in Seq(Tokens) /\ handed \in Seq(Numbered)

\* Where the broker, the owner's coroutines and the connection are with each other.
ClientControl ==
    /\ cancel => notified /\ Running
    /\ conn = "open" => ~notified
    /\ notified => smop \in {"none", "requested"} /\ rsop.at \in {"none", "requested"}
    /\ broker = "final" => notified /\ ~smEnabled /\ bind = "yes"
    /\ smop # "none" => bind = "yes" /\ (~notified => Running)
    /\ Running \/ rsop.at # "none" => "stanza" \in classes
    /\ smEnabled => ("stanza" \in classes <=> "nonza" \in classes)
    /\ rsop.at # "none" => smEnabled
    /\ bind = "asked" =>
          /\ ~smEnabled /\ smop = "none" /\ broker \notin {"fresh", "final"}
          /\ ~Running => notified /\ "stanza" \notin classes

\* The resource is bound at most once per connection, before Stream Management.
Binding ==
    /\ Bind \in ToSet(c2s) => bind = "asked" /\ link = "plain" /\ BindReply \notin ToSet(Pipe)
    /\ BindReply \in ToSet(Pipe) => bind = "asked"
    /\ ~Before(c2s, Bind, Bind) /\ ~Before(Pipe, BindReply, BindReply)
    /\ ~Running => BindReply \notin ToSet(incoming)
    /\ bind = "no" /\ conn = "open" /\ ~smEnabled => link = "plain"

\* <enable/>: at most one is under way, and nothing is sent behind it.
Replies == {"enabled", "enablefailed"}
Enabling ==
    /\ link = "sm" => sess.on
    /\ smEnabled /\ Running => link = "sm"
    /\ Has(c2s, "a") \/ Has(c2s, "r") => link = "sm"
    /\ Has(c2s, "enable") =>
          /\ bind = "yes" /\ ~smEnabled /\ link # "sm" /\ (conn = "open" => smop = "requested")
          /\ ~Has(s2c, "enabled") /\ ~Has(s2c, "enablefailed")
    /\ Once(c2s, {"enable"}) /\ Once(s2c, Replies)
    /\ \A t \in Tokens : ~Before(c2s, Enable, Stanza(t))
    /\ (Has(s2c, "enabled") \/ Has(s2c, "enablefailed")) /\ conn = "open" => smop = "requested"
    /\ link = "sm" /\ ~smEnabled /\ conn = "open" => Has(s2c, "enabled")
    /\ Has(s2c, "enabled") =>
          /\ link = "sm" /\ ~smEnabled /\ sess.h = 0 /\ sess.base = 0
          /\ ~Has(c2s, "stanza") /\ ~Has(c2s, "a") /\ ~Has(c2s, "r")

\* <resume/>: it and the answer to it travel alone.
Resuming ==
    /\ conn = "open" /\ ~Running /\ rsop.at = "none" => c2s = <<>> /\ s2c = <<>> /\ link = "plain"
    /\ Has(c2s, "resume") =>
          /\ c2s = <<Resume(inCtr)>> /\ s2c = <<>> /\ link = "plain" /\ smEnabled /\ ~Running
          /\ rsop.at \in {"none", "requested"} /\ (conn = "open" => rsop.at = "requested")
    /\ Has(s2c, "resumed") =>
          /\ Head(s2c) = [k |-> "resumed", h |-> sess.h] /\ Once(s2c, {"resumed"})
          /\ c2s = <<>> /\ link = "sm" /\ smEnabled /\ ~Running
          /\ rsop.at \in {"none", "requested"} /\ (conn = "open" => rsop.at = "requested")
    /\ Has(s2c, "resumefailed") =>
          /\ Len(s2c) = 1 /\ c2s = <<>> /\ link = "plain" /\ ~sess.on /\ smEnabled /\ ~Running
          /\ rsop.at \in {"none", "requested"} /\ (conn = "open" => rsop.at = "requested")
    /\ rsop.at = "resumed" =>
          c2s = <<>> /\ link = "sm" /\ rsop.h = sess.h 
    /\ rsop.at = "refused" => c2s = <<>> /\ s2c = <<>> /\ link = "plain" /\ ~sess.on
    /\ rsop.h # NoCounter => rsop.at \in {"resumed", "refused"}

Handled == ToSet(handled)
InFlight == {t \in Tokens : Stanza(t) \in ToSet(c2s)}

\* A stanza that was transmitted is not queued any more, unless its
\* transmission got lost.
Transmission ==
    /\ IsInjective(handled)
    /\ \A t \in Tokens : ~Before(c2s, Stanza(t), Stanza(t))
    /\ Handled \cap InFlight = {}
    /\ \A t \in Handled : state[t] \in {"SENT", "ACKED", "SENT_WITHOUT_SM", "DISCONNECTED"}
    /\ \A t \in InFlight : state[t] \in {"SENT", "SENT_WITHOUT_SM", "DISCONNECTED"}
    /\ Queued \cap (Handled \cup InFlight) = {}

\* The counter h covers exactly those unacked stanzas that the server handled.
Exact(h) ==
    /\ ToDrop(h) <= Len(unacked)
    /\ \A i \in 1..Len(unacked) : unacked[i] \in Handled <=> i <= ToDrop(h)

Outbound ==
    /\ smEnabled /\ sess.on => Exact(sess.h)
    /\ smEnabled => InFlight \subseteq Unacked
    /\ smEnabled /\ InFlight # {} => link = "sm"
    /\ smEnabled /\ (Running \/ InFlight # {}) => Unacked \subseteq Handled \cup InFlight
    /\ smEnabled => \A t, u \in Tokens :
                       Before(c2s, Stanza(t), Stanza(u)) => Before(unacked, t, u)
    /\ \A h \in Counter : s2c = <<[k |-> "resumefailed", h |-> h]>> => Exact(h)
    /\ rsop.h # NoCounter => Exact(rsop.h)

Acks ==
    /\ smEnabled => \A h \in Counter :
          SMAck(h) \in ToSet(Pipe) => link = "sm" /\ ToDrop(h) <= ToDrop(sess.h)
    /\ smEnabled => \A g, h \in Counter : Before(Pipe, SMAck(g), SMAck(h)) => ToDrop(g) <= ToDrop(h)
    /\ smEnabled /\ broker \in {"none", "fresh"} =>
          /\ ~Has(incoming, "a")
          /\ "stanza" \in classes => ~Has(s2c, "a") /\ ~Has(c2s, "r")
    /\ ~smEnabled /\ conn = "open" => ~Has(s2c, "a") /\ ~Has(c2s, "r")
    /\ ~smEnabled /\ conn = "open" => \A h \in Counter :
          SMAck(h) \in ToSet(Pipe) => bind # "yes" /\ ~Before(Pipe, BindReply, SMAck(h))

\* The bounds: fewer than W stanzas wait for an acknowledgement in either direction.
Bounded == Len(sess.out) < W /\ Cardinality(Unsettled) < W

InOff(h) == (h - sess.base) % W
Receiving == smEnabled /\ link = "sm" /\ "stanza" \in classes
Pending == {m \in Numbered : Stanza(m) \in ToSet(Pipe)}
Handed == ToSet(handed)
Out == ToSet(sess.out)

Increasing(list) == \A i, j \in DOMAIN list : i < j => list[i] < list[j]
After(list, n) == {list[i] : i \in (n + 1)..Len(list)}

\* What the server remembers and the client has not counted.
Remaining == After(sess.out, InOff(inCtr))

\* The numbers of stanzas grow on their way to the application.
InOrder ==
    /\ Increasing(sess.out)
    /\ Out \subseteq counted /\ counted \subseteq 1..sent
    /\ \A m, n \in Numbered : Before(Pipe, Stanza(m), Stanza(n)) => m < n
    /\ \A m \in Pending, n \in Handed : n < m
    /\ Pending \cup Handed \subseteq 1..sent
    /\ HandedInOrder

\* A stream that lost its connection takes nothing in until it is resumed.
InControl ==
    /\ smEnabled /\ ~Running /\ rsop.at = "none" => "stanza" \notin classes \/ conn # "open"
    /\ smEnabled /\ "stanza" \notin classes => incoming = <<>>
    /\ rsop.at \in {"requested", "refused"} => incoming = <<>>
    /\ rsop.at = "requested" => \/ s2c = <<>> /\ link = "plain"
                                \/ s2c # <<>> /\ Head(s2c).k \in {"resumed", "resumefailed"}

\* Nothing is left to process when the server is asked to resume.
Asking == Has(c2s, "resume") => incoming = <<>>

Enabled(r) == [k |-> "enabled", resume |-> r]

\* What the server counts is what follows its <enabled/>.
Establishing ==
    ~smEnabled /\ link = "sm" /\ conn = "open" =>
        /\ counted = Out
        /\ \A m \in Numbered : m \in Out <=> \E r \in BOOLEAN : Before(s2c, Enabled(r), Stanza(m))

\* The client's counter covers what it has handed on, and its acks no more.
Counting ==
    /\ smEnabled /\ sess.on =>
          /\ InOff(inCtr) <= Len(sess.out)
          /\ \A m \in Remaining, n \in Handed : n < m
          /\ counted \ Remaining \subseteq Handed
    /\ Receiving => Pending = Remaining
    /\ link = "sm" => \A h \in Counter : SMAck(h) \in ToSet(c2s) =>
          InOff(h) <= Len(sess.out) /\ (smEnabled => InOff(h) <= InOff(inCtr))
    /\ \A g, h \in Counter : Before(c2s, SMAck(g), SMAck(h)) => InOff(g) <= InOff(h)

\* What holds besides unless the session has strayed.
InboundInv == InOrder /\ InControl /\ Asking /\ Establishing /\ Counting

-----------------------------------------------------------------------------
(* Every step of the session is one of the stream. *)

Fetching == /\ s2c # <<>> /\ s2c' = Tail(s2c)
            /\ UNCHANGED <<c2s, bind, serverVars, handed, conns>>

LEMMA KindOfElement == \A e \in Element : e \in ToClient /\ e.k \in {"stanza", "r", "a"}
  BY DEF Element, ToClient, Stanza, SMRequest, SMAck

LEMMA ReceiveCases ==
    ASSUME SessionTypeOK, Receive
    PROVE  /\ Fetching /\ Head(s2c) \in ToClient
           /\ \/ Head(s2c) \in Element /\ (Recv(Head(s2c)) \/ RecvUnknown(Head(s2c)))
              \/ \E r \in BOOLEAN : Head(s2c) = [k |-> "enabled", resume |-> r] /\ RecvEnabled(r)
              \/ Head(s2c) = [k |-> "enablefailed"] /\ RecvSMFailed
              \/ \E h \in Counter : Head(s2c) = [k |-> "resumed", h |-> h] /\ RecvResumed(h)
              \/ \E h \in Counter \cup {NoCounter} :
                    Head(s2c) = [k |-> "resumefailed", h |-> h] /\ RecvResumeFailed(h)
  <1> DEFINE e == Head(s2c)
  <1>1. s2c # <<>>
    BY DEF Receive, Delivered
  <1>2. e \in ToClient
    BY <1>1 DEF SessionTypeOK
  <1>. HIDE DEF e
  <1>3. CASE e \in Element
    <2>1. e.k \in {"stanza", "r", "a"}
      BY <1>3, KindOfElement
    <2>2. Read(Recv(e) \/ RecvUnknown(e))
      BY <1>1, <2>1 DEF Receive, Delivered, e
    <2>. QED
      BY <1>2, <1>3, <2>2 DEF Read, Fetching, e
  <1>4. ASSUME NEW r \in BOOLEAN, e = [k |-> "enabled", resume |-> r]
        PROVE  Fetching /\ RecvEnabled(r)
    <2>1. e.k = "enabled" /\ e.resume = r
      BY <1>4
    <2>2. Read(RecvEnabled(e.resume))
      BY <1>1, <2>1 DEF Receive, Delivered, e
    <2>. QED
      BY <2>1, <2>2 DEF Read, Fetching
  <1>5. ASSUME e = [k |-> "enablefailed"] PROVE Fetching /\ RecvSMFailed
    <2>1. e.k = "enablefailed"
      BY <1>5
    <2>2. Read(RecvSMFailed)
      BY <1>1, <2>1 DEF Receive, Delivered, e
    <2>. QED
      BY <2>2 DEF Read, Fetching
  <1>6. ASSUME NEW h \in Counter, e = [k |-> "resumed", h |-> h] PROVE Fetching /\ RecvResumed(h)
    <2>1. e.k = "resumed" /\ e.h = h
      BY <1>6
    <2>2. Read(RecvResumed(e.h))
      BY <1>1, <2>1 DEF Receive, Delivered, e
    <2>. QED
      BY <2>1, <2>2 DEF Read, Fetching
  <1>7. ASSUME NEW h \in Counter \cup {NoCounter}, e = [k |-> "resumefailed", h |-> h]
        PROVE  Fetching /\ RecvResumeFailed(h)
    <2>1. e.k = "resumefailed" /\ e.h = h
      BY <1>7
    <2>2. Read(RecvResumeFailed(e.h))
      BY <1>1, <2>1 DEF Receive, Delivered, e
    <2>. QED
      BY <2>1, <2>2 DEF Read, Fetching
  <1>8. \/ e \in Element
        \/ \E r \in BOOLEAN : e = [k |-> "enabled", resume |-> r]
        \/ e = [k |-> "enablefailed"]
        \/ \E h \in Counter : e = [k |-> "resumed", h |-> h]
        \/ \E h \in Counter \cup {NoCounter} : e = [k |-> "resumefailed", h |-> h]
    BY <1>2 DEF ToClient
  <1>. QED
    BY <1>2, <1>3, <1>4, <1>5, <1>6, <1>7, <1>8 DEF e

LEMMA StreamStep == SessionTypeOK /\ [SessionNext]_sessionVars => [Next]_vars
  <1>. SUFFICES ASSUME SessionTypeOK, [SessionNext]_sessionVars PROVE [Next]_vars
    OBVIOUS
  <1>1. CASE Client(ClientStep)
    <2>1. ClientStep
      BY <1>1 DEF Client
    <2>. QED
      BY <2>1 DEF ClientStep, Next, Application, Broker, Owner, Continuation, Peer
  <1>2. CASE AskBind
    BY <1>2 DEF AskBind
  <1>3. CASE Reconnect
    BY <1>3 DEF Reconnect, Next, Owner
  <1>4. CASE Receive
    BY <1>4, ReceiveCases DEF Next, Peer
  <1>5. CASE Server
    BY <1>5 DEF Server, ServerStep, Reading, HandleBind, HandleStanza, HandleRequest, HandleAck,
         HandleEnable, RefuseEnable, HandleResume, RefuseResume, SendInbound, RequestAck
  <1>6. CASE UNCHANGED sessionVars
    BY <1>6 DEF sessionVars
  <1>. QED
    BY <1>1, <1>2, <1>3, <1>4, <1>5, <1>6 DEF SessionNext
-----------------------------------------------------------------------------
(* What a step of the client changes of the session. *)

SMKept  == UNCHANGED <<smEnabled, outBase, inCtr, unacked>>
Unheard == UNCHANGED <<c2s, bind, handed>>

\* Of the transmitted tokens none is queued, and none changes but by being given up.
QueueKept ==
    /\ \A t \in Tokens : \/ state'[t] = state[t] \/ state'[t] \in {"SENT_WITHOUT_SM", "DISCONNECTED"}
                         \/ t \in Queued \/ state[t] = "NEW"
    /\ \A t \in Queued' : t \in Queued \/ state[t] \in {"NEW", "ABORTED", "DROPPED", "FAILED"}

Idle ==
    /\ SMKept /\ Unheard /\ QueueKept /\ Pipe' = Pipe /\ UNCHANGED rsop
    /\ ToSet(incoming') \subseteq ToSet(incoming) /\ (incoming = <<>> => incoming' = <<>>)
    /\ ifut = <<>> /\ incoming = <<>> => ifut' = <<>>
    /\ conn' = "open" => conn = "open" /\ (smop' = smop \/ (smop # "requested" /\ smop' = "none"))
    /\ conn = "open" /\ broker = "fresh" => conn' = "open"
    /\ Running' => Running \/ (~smEnabled /\ rsop = NoResume)
    /\ ~Running' => ~Running \/ (bind # "asked" /\ conn' # "open" /\ (smEnabled => broker = "fresh"))
    /\ smEnabled => UNCHANGED classes /\ (broker' \in {"none", "fresh"} => broker \in {"none", "fresh"})
    /\ broker' = "fresh" => broker = "fresh" \/ ~smEnabled

\* The broker leaves its loop, with the session or without.
Halt ==
    /\ Running /\ rsop = NoResume /\ Unheard /\ QueueKept /\ UNCHANGED <<rsop, smop>>
    /\ Pipe' = Pipe \/ (ifut' = <<>> /\ incoming' = <<>>)
    /\ incoming' = <<>> \/ (incoming' = incoming /\ bind # "asked")
    /\ conn' # "open" /\ broker' # "fresh"
    /\ smEnabled' => /\ SMKept /\ smEnabled /\ ~Running' /\ "stanza" \notin classes'
                     /\ ifut' = <<>> /\ incoming' = <<>>

\* The broker is at work: it does not hold up another operation.
Busy == /\ Running /\ Running' /\ broker' # "fresh" /\ smop = "none" /\ rsop = NoResume
        /\ UNCHANGED <<smop, rsop, conn, classes>>

Transmit(t) ==
    /\ Busy /\ conn = "open" /\ t \in Queued /\ t \notin Queued' /\ Queued' \subseteq Queued
    /\ \E s \in {"SENT", "SENT_WITHOUT_SM"} : state' = [state EXCEPT ![t] = s]
    /\ unacked' = IF smEnabled THEN Append(unacked, t) ELSE unacked
    /\ c2s' = Append(c2s, Stanza(t))
    /\ UNCHANGED <<smEnabled, outBase, inCtr, bind, handed, ifut, incoming>>

AskAck ==
    /\ Busy /\ conn = "open" /\ smEnabled /\ SMKept /\ QueueKept
    /\ c2s' = Append(c2s, SMRequest)
    /\ UNCHANGED <<bind, handed, ifut, incoming>>

Take(e) == /\ Busy /\ e \in Element /\ Pipe # <<>> /\ e = Head(Pipe) /\ Pipe' = Tail(Pipe)
           /\ ifut # <<>> /\ ifut' = <<>> /\ UNCHANGED incoming

TakeStanza(m) ==
    /\ Take(Stanza(m)) /\ UNCHANGED <<smEnabled, outBase, unacked, c2s>> /\ QueueKept
    /\ inCtr' = IF smEnabled THEN (inCtr + 1) % W ELSE inCtr
    /\ IF m = BindResult THEN bind' = "yes" /\ UNCHANGED handed
                         ELSE handed' = Append(handed, m) /\ UNCHANGED bind

TakeAck(h) ==
    /\ Take(SMAck(h)) /\ smEnabled /\ ToDrop(h) <= Len(unacked) /\ AckUpTo(h)
    /\ unacked' = SubSeq(unacked, ToDrop(h) + 1, Len(unacked))
    /\ Queued' = Queued /\ Unheard /\ UNCHANGED <<smEnabled, inCtr>>

TakeRequest ==
    /\ Take(SMRequest) /\ smEnabled /\ SMKept /\ QueueKept
    /\ c2s' = Append(c2s, SMAck(inCtr)) /\ UNCHANGED <<bind, handed>>

TakeIgnored(e) == Take(e) /\ e.k \in {"a", "r"} /\ ~smEnabled /\ SMKept /\ Unheard /\ QueueKept

AskEnable ==
    /\ broker = "wait" /\ smop = "none" /\ rsop = NoResume /\ ~smEnabled /\ conn = "open" /\ bind = "yes"
    /\ smop' = "requested" /\ c2s' = Append(c2s, Enable)
    /\ SMKept /\ QueueKept /\ UNCHANGED <<bind, handed, rsop, conn, classes, broker, ifut, incoming>>

AskResume ==
    /\ ~Running /\ smop = "none" /\ rsop = NoResume /\ smEnabled /\ conn = "open" /\ "stanza" \notin classes
    /\ rsop' = [at |-> "requested", h |-> NoCounter] /\ c2s' = Append(c2s, Resume(inCtr))
    /\ SMKept /\ QueueKept /\ UNCHANGED <<bind, handed, smop, conn, broker, ifut, incoming>>

DoResume ==
    /\ ~Running /\ rsop.at = "resumed" /\ ToDrop(rsop.h) <= Len(unacked)
    /\ AckUpTo(rsop.h) /\ unacked' = <<>>
    /\ \A t \in Queued' : t \in Queued \/ \E i \in (ToDrop(rsop.h) + 1)..Len(unacked) : t = unacked[i]
    /\ broker' = "fresh" /\ rsop' = NoResume /\ Unheard
    /\ UNCHANGED <<smEnabled, inCtr, smop, conn, classes, ifut, incoming>>

AcceptRefusal ==
    /\ ~Running /\ rsop.at = "refused" /\ ~smEnabled' /\ unacked' = <<>> /\ active' = <<>>
    /\ \A t \in Tokens : state'[t] = state[t] \/ state'[t] \in {"ACKED", "SENT_WITHOUT_SM", "DISCONNECTED"}
    /\ rsop' = NoResume /\ Unheard /\ "stanza" \notin classes'
    /\ UNCHANGED <<smop, conn, broker, afut, ifut, incoming>>

GiveUpResume ==
    /\ ~Running /\ rsop.at = "requested" /\ conn # "open" /\ rsop' = NoResume /\ "stanza" \notin classes'
    /\ SMKept /\ QueueKept /\ Unheard /\ UNCHANGED <<smop, conn, broker, ifut, incoming>>

ClientEffect ==
    \/ Idle \/ Halt \/ AskAck \/ TakeRequest \/ AskEnable \/ AskResume \/ DoResume
    \/ AcceptRefusal \/ GiveUpResume
    \/ \E t \in Tokens : Transmit(t)
    \/ \E m \in Inbound : TakeStanza(m)
    \/ \E h \in Counter : TakeAck(h)
    \/ \E e \in Element : TakeIgnored(e)

LEMMA OutputsSilent ==
    ASSUME SessionTypeOK, Outputs, io'.wire = <<>>, io'.app = <<>>
    PROVE  Unheard
  <1>1. c2s' = c2s /\ handed \o <<>> = handed
    BY DEF Outputs, SessionTypeOK
  <1>2. BindResult \notin ToSet(io'.app)
    BY ElementsOfEmpty
  <1>. QED
    BY <1>1, <1>2 DEF Outputs, Unheard

LEMMA OutputsWire ==
    ASSUME SessionTypeOK, NEW e \in ToServer, Outputs, io'.wire = <<e>>, io'.app = <<>>
    PROVE  c2s' = Append(c2s, e) /\ UNCHANGED <<bind, handed>>
  <1>1. c2s' = Append(c2s, e) /\ handed \o <<>> = handed
    BY DEF Outputs, SessionTypeOK
  <1>2. BindResult \notin ToSet(io'.app)
    BY ElementsOfEmpty
  <1>. QED
    BY <1>1, <1>2 DEF Outputs

LEMMA OutputsApp ==
    ASSUME SessionTypeOK, NEW m \in Inbound, Outputs, io'.wire = <<>>, io'.app = <<m>>
    PROVE  /\ c2s' = c2s
           /\ IF m = BindResult THEN bind' = "yes" /\ UNCHANGED handed
                                ELSE handed' = Append(handed, m) /\ UNCHANGED bind
  <1>1. c2s' = c2s /\ handed \o <<m>> = Append(handed, m)
    BY DEF Outputs, SessionTypeOK
  <1>2. ToSet(io'.app) = {m}
    BY ElementsOfSingleton
  <1>. QED
    BY <1>1, <1>2 DEF Outputs

LEMMA QueueMoved == UNCHANGED state /\ Queued' \subseteq Queued => QueueKept
  BY DEF QueueKept

LEMMA QueueUntouched ==
    ASSUME UNCHANGED <<state, active, afut>>, (broker' = "bulk") <=> (broker = "bulk")
    PROVE  QueueKept
  BY QueueMoved DEF Queued, Fetched

\* What holds in every state of the session, however connections end.
SessionInv ==
    /\ IInv /\ SessionTypeOK /\ ClientControl /\ Binding /\ Enabling /\ Resuming
    /\ Transmission /\ Outbound /\ Acks /\ Bounded

LEMMA PipeTypes ==
    ASSUME TypeOK, SessionTypeOK
    PROVE  /\ ifut \in Seq(Element) /\ incoming \in Seq(Element)
           /\ ifut \in Seq(ToClient) /\ incoming \in Seq(ToClient) /\ s2c \in Seq(ToClient)
           /\ incoming \o s2c \in Seq(ToClient) /\ Pipe \in Seq(ToClient) /\ Len(ifut) <= 1
  <1>1. /\ ifut \in Seq(Element) /\ incoming \in Seq(Element) /\ s2c \in Seq(ToClient)
        /\ Len(ifut) <= 1
    BY DEF TypeOK, SessionTypeOK
  <1>2. Element \subseteq ToClient
    BY DEF ToClient
  <1>3. ifut \in Seq(ToClient) /\ incoming \in Seq(ToClient)
    BY <1>1, <1>2
  <1>4. incoming \o s2c \in Seq(ToClient)
    BY <1>1, <1>3
  <1>5. Pipe \in Seq(ToClient)
    BY <1>3, <1>4 DEF Pipe
  <1>. QED
    BY <1>1, <1>3, <1>4, <1>5

\* AsyncDeque.get moves an element within the pipe.
LEMMA PipeShifted ==
    ASSUME NEW S, NEW a \in Seq(S), NEW b \in Seq(S), a # <<>>
    PROVE  <<Head(a)>> \o (Tail(a) \o b) = <<>> \o (a \o b)
  OBVIOUS

LEMMA ControlSteps ==
    ASSUME SessionInv, Outputs, UNCHANGED s2c,
           \/ \E t \in Tokens : Enqueue(t) \/ Abort(t)
           \/ BrokerStart \/ BrokerNeverRuns \/ BrokerWake \/ BrokerLocks \/ FinalCancelled
           \/ GetActive \/ GetIncoming
           \/ Start /\ ~smEnabled
           \/ Stop /\ notified
           \/ StartSMAnswered \/ StartSMDies
           \/ ConnFails \/ PeerEof \/ ConnGone \/ OnClosing
    PROVE  Idle
  <1>0. io'.wire = <<>> /\ io'.app = <<>>
    BY DEF Enqueue, Abort, BrokerStart, BrokerNeverRuns, BrokerWake, BrokerLocks, FinalCancelled,
           GetActive, GetIncoming, Start, Commit, Stop, StartSMAnswered, StartSMDies, ReleaseLock,
           ConnFails, PeerEof, ConnGone, OnClosing, Silent, Emit
  <1>1. Unheard
    BY <1>0, OutputsSilent DEF SessionInv
  <1>2. TypeOK /\ ControlInv /\ PlaceInv /\ ClosedInv /\ ClientControl
    BY DEF SessionInv, IInv
  <1>. USE <1>1, QueueUntouched
           DEF Idle, SMKept, smVars, futVars, taskVars, opVars, tokenVars, connVars, Running, Pipe
  <1>3. ASSUME NEW t \in Tokens, Enqueue(t) PROVE Idle
    <2>1. QueueKept
      <3>1. state' = [state EXCEPT ![t] = "ACTIVE"] /\ state[t] = "NEW" /\ state \in [Tokens -> TokenState]
            /\ active' = Append(active, t) /\ active \in Seq(Tokens) /\ UNCHANGED <<afut, broker>>
        BY <1>2, <1>3 DEF Enqueue, TypeOK
      <3>2. ToSet(active') = ToSet(active) \cup {t}
        BY <3>1, ElementsOfAppend
      <3>. QED
        BY <3>1, <3>2 DEF QueueKept, Queued, Fetched
    <2>. QED
      BY <1>3, <2>1 DEF Enqueue
  <1>4. ASSUME NEW t \in Tokens, Abort(t) PROVE Idle
    <2>1. QueueKept
      <3>1. state' = [state EXCEPT ![t] = "ABORTED"] /\ state[t] = "ACTIVE" /\ state \in [Tokens -> TokenState]
            /\ UNCHANGED <<active, afut, broker>>
        BY <1>2, <1>4 DEF Abort, TypeOK
      <3>2. t \in Queued
        BY <1>2, <3>1 DEF PlaceInv, ActiveIsQueued
      <3>. QED
        BY <3>1, <3>2 DEF QueueKept, Queued, Fetched
    <2>. QED
      BY <1>4, <2>1 DEF Abort
  <1>5. CASE BrokerStart
    BY <1>2, <1>5 DEF BrokerStart
  <1>6. CASE BrokerNeverRuns
    <2>1. notified /\ conn # "open" /\ bind # "asked"
      BY <1>2, <1>6, Zenon DEF BrokerNeverRuns, ClientControl
    <2>. QED
      BY <1>2, <1>6, <2>1 DEF BrokerNeverRuns
  <1>7. CASE BrokerWake
    BY <1>2, <1>7 DEF BrokerWake, Serve, LockFree
  <1>8. CASE BrokerLocks
    BY <1>2, <1>8 DEF BrokerLocks, Serve, LockFree
  <1>9. CASE FinalCancelled
    <2>1. notified /\ conn # "open" /\ bind # "asked" /\ ~smEnabled
      BY <1>2, <1>9, Zenon DEF FinalCancelled, ClientControl
    <2>. QED
      BY <1>2, <1>9, <2>1 DEF FinalCancelled
  <1>10. CASE GetActive
    <2>1. QueueKept
      <3>1. active \in Seq(Tokens) /\ active # <<>>
        BY <1>2, <1>10 DEF GetActive, TypeOK
      <3>2. ToSet(active) = {Head(active)} \cup ToSet(Tail(active)) /\ Head(active) \in Tokens
        BY <3>1, ElementsOfTail
      <3>3. ToSet(<<Head(active)>>) = {Head(active)}
        BY <3>2, ElementsOfSingleton
      <3>4. Queued' \subseteq Queued
        BY <1>10, <3>2, <3>3 DEF GetActive, Queued, Fetched, taskVars
      <3>. QED
        BY <1>10, <3>4, QueueMoved DEF GetActive
    <2>. QED
      BY <1>2, <1>10, <2>1 DEF GetActive
  <1>11. CASE GetIncoming
    <2>1. incoming \in Seq(ToClient) /\ s2c \in Seq(ToClient)
      BY PipeTypes DEF SessionInv, IInv
    <2>2. /\ incoming # <<>> /\ ifut = <<>> /\ incoming' = Tail(incoming) /\ ifut' = <<Head(incoming)>>
          /\ UNCHANGED <<tokenVars, afut, smVars, taskVars, streamVars, opVars, connVars>>
      BY <1>11 DEF GetIncoming
    <2>3. Pipe' = Pipe
      BY <2>1, <2>2, PipeShifted
    <2>4. ToSet(incoming') \subseteq ToSet(incoming)
      BY <2>1, <2>2, ElementsOfTail
    <2>. HIDE DEF Pipe
    <2>. QED
      BY <1>2, <2>2, <2>3, <2>4
  <1>12. CASE Start /\ ~smEnabled
    BY <1>2, <1>12 DEF Start, Commit, OwnerIdle
  <1>13. CASE Stop /\ notified
    BY <1>2, <1>13 DEF Stop
  <1>14. CASE StartSMAnswered
    BY <1>2, <1>14 DEF StartSMAnswered, ReleaseLock
  <1>15. CASE StartSMDies
    <2>1. conn # "open"
      BY <1>2, <1>15, Zenon DEF StartSMDies, ClientControl
    <2>. QED
      BY <1>2, <1>15, <2>1 DEF StartSMDies, ReleaseLock
  <1>16. CASE ConnFails \/ PeerEof
    BY <1>2, <1>16 DEF ConnFails, PeerEof, Settling
  <1>17. CASE ConnGone
    BY <1>2, <1>17 DEF ConnGone
  <1>18. CASE OnClosing
    BY <1>2, <1>18 DEF OnClosing
  <1>. QED
    BY <1>3, <1>4, <1>5, <1>6, <1>7, <1>8, <1>9, <1>10, <1>11, <1>12, <1>13, <1>14,
       <1>15, <1>16, <1>17, <1>18

\* _send_stanza: the token leaves the queue, and its stanza is written or not.
LEMMA SendEffect ==
    ASSUME SessionInv, Outputs, UNCHANGED s2c, NEW t \in Queued, SendStanza(t),
           t \notin Queued', Queued' \subseteq Queued,
           broker \in {"first", "bulk"}, broker' = "bulk",
           UNCHANGED <<futVars, smVars, opVars, connVars>>
    PROVE  Idle \/ Transmit(t)
  <1>1. TypeOK /\ ControlInv /\ SessionTypeOK
    BY DEF SessionInv, IInv
  <1>2. t \in Tokens /\ state \in [Tokens -> TokenState]
    BY <1>1, PlaceTypes DEF Queued, Fetched
  <1>3. Running /\ Running' /\ smop = "none" /\ rsop = NoResume
    BY <1>1 DEF ControlInv, Yielded, Running
  <1>. USE DEF smVars, futVars, opVars, connVars, Running, Pipe
  <1>4. CASE Silent /\ UNCHANGED unacked
             /\ (UNCHANGED state \/ \E s \in TokenState : state' = [state EXCEPT ![t] = s])
    <2>1. Unheard
      BY <1>1, <1>4, OutputsSilent DEF Silent, Emit
    <2>2. QueueKept
      BY <1>2, <1>4 DEF QueueKept
    <2>. QED
      BY <1>3, <1>4, <2>1, <2>2 DEF Idle, SMKept
  <1>5. CASE /\ conn = "open" /\ Emit(<<Stanza(t)>>, <<>>, {})
             /\ state' = [state EXCEPT ![t] = IF smEnabled THEN "SENT" ELSE "SENT_WITHOUT_SM"]
             /\ unacked' = IF smEnabled THEN Append(unacked, t) ELSE unacked
    <2>1. Stanza(t) \in ToServer
      BY <1>2 DEF ToServer
    <2>2. c2s' = Append(c2s, Stanza(t)) /\ UNCHANGED <<bind, handed>>
      BY <1>1, <1>5, <2>1, OutputsWire DEF Emit
    <2>3. \E s \in {"SENT", "SENT_WITHOUT_SM"} : state' = [state EXCEPT ![t] = s]
      BY <1>5
    <2>. QED
      BY <1>3, <1>5, <2>2, <2>3 DEF Transmit, Busy
  <1>6. {"ABORTED", "DROPPED", "FAILED"} \subseteq TokenState
    BY DEF TokenState
  <1>. QED
    BY <1>4, <1>5, <1>6, Zenon DEF SendStanza, Aborted

LEMMA SendSteps ==
    ASSUME SessionInv, Outputs, UNCHANGED s2c, SendFirst \/ SendNext \/ BatchDone
    PROVE  Idle \/ AskAck \/ \E t \in Tokens : Transmit(t)
  <1>1. TypeOK /\ ControlInv /\ PlaceInv /\ SessionTypeOK
    BY DEF SessionInv, IInv
  <1>2. CASE SendFirst
    <2>1. /\ broker = "first" /\ broker' = "bulk" /\ SendStanza(Head(afut)) /\ UNCHANGED active
          /\ UNCHANGED <<futVars, smVars, opVars, connVars>>
      BY <1>2 DEF SendFirst
    <2>2. afut \in Seq(Tokens) /\ afut # <<>>
      BY <1>1, <2>1 DEF ControlInv, TypeOK
    <2>3. Head(afut) \in ToSet(afut) /\ Head(afut) \in Tokens
      BY <2>2, ElementsOfTail
    <2>4. Queued = ToSet(active) \cup ToSet(afut) /\ Queued' = ToSet(active)
      BY <2>1 DEF Queued, Fetched
    <2>5. Head(afut) \notin ToSet(active)
      BY <1>1, <2>1, <2>3 DEF PlaceInv, AtMostOnePlace, Fetched
    <2>6. Idle \/ Transmit(Head(afut))
      BY <2>1, <2>3, <2>4, <2>5, SendEffect
    <2>. QED
      BY <2>3, <2>6
  <1>3. CASE SendNext
    <2>1. /\ broker = "bulk" /\ broker' = "bulk" /\ SendStanza(Head(active)) /\ active' = Tail(active)
          /\ active # <<>> /\ UNCHANGED <<futVars, smVars, opVars, connVars>>
      BY <1>3 DEF SendNext, taskVars
    <2>2. active \in Seq(Tokens) /\ IsInjective(active)
      BY <1>1 DEF TypeOK, PlaceInv, AtMostOnePlace
    <2>3. /\ Head(active) \in Tokens /\ ToSet(active) = {Head(active)} \cup ToSet(Tail(active))
          /\ Head(active) \notin ToSet(Tail(active))
      BY <2>1, <2>2, ElementsOfTail
    <2>4. Queued = ToSet(active) /\ Queued' = ToSet(Tail(active))
      BY <2>1 DEF Queued, Fetched
    <2>5. Idle \/ Transmit(Head(active))
      BY <2>1, <2>3, <2>4, SendEffect
    <2>. QED
      BY <2>3, <2>5
  <1>4. CASE BatchDone
    <2>1. /\ broker = "bulk" /\ active = <<>> /\ (smEnabled => conn = "open")
          /\ Emit(AfterBatch, <<>>, {}) /\ afut' = <<>> /\ broker' \in {"incoming", "wait"}
          /\ UNCHANGED <<tokenVars, ifut, incoming, smVars, opVars, connVars>>
      BY <1>4 DEF BatchDone
    <2>2. smop = "none" /\ rsop = NoResume
      BY <1>1, <2>1 DEF ControlInv, Yielded, Running
    <2>3. QueueKept
      <3>1. Queued' \subseteq Queued
        BY <2>1, ElementsOfEmpty DEF Queued, Fetched, tokenVars
      <3>. QED
        BY <2>1, <3>1, QueueMoved DEF tokenVars
    <2>. USE DEF smVars, opVars, connVars, tokenVars, Running, Pipe
    <2>4. CASE smEnabled
      <3>1. SMRequest \in ToServer
        BY DEF ToServer
      <3>2. c2s' = Append(c2s, SMRequest) /\ UNCHANGED <<bind, handed>>
        BY <1>1, <2>1, <2>4, <3>1, OutputsWire DEF Emit, AfterBatch
      <3>3. AskAck
        BY <2>1, <2>2, <2>3, <2>4, <3>2 DEF AskAck, Busy, SMKept
      <3>. QED
        BY <3>3
    <2>5. CASE ~smEnabled
      <3>1. Unheard
        BY <1>1, <2>1, <2>5, OutputsSilent DEF Emit, AfterBatch
      <3>2. Idle
        BY <2>1, <2>2, <2>3, <2>5, <3>1 DEF Idle, SMKept
      <3>. QED
        BY <3>2
    <2>. QED
      BY <2>4, <2>5
  <1>. QED
    BY <1>2, <1>3, <1>4

\* The queue q, put together when the broker terminates, is kept or given up.
LEMMA RescuedKept ==
    ASSUME IInv, broker = "bulk" => active = <<>> /\ conn # "open"
    PROVE  LET q == afut \o active IN
           /\ q \in Seq(Tokens)
           /\ \A t \in ToSet(q) : t \in Queued \/ state[t] \in {"ABORTED", "DROPPED", "FAILED"}
  <1> DEFINE q == afut \o active
  <1>1. TypeOK /\ ControlInv /\ PlaceInv
    BY DEF IInv
  <1>2. q \in Seq(Tokens) /\ ToSet(q) = ToSet(afut) \cup ToSet(active)
    BY <1>1, PlaceTypes, ElementsOfConcat
  <1>3. CASE broker # "bulk"
    BY <1>2, <1>3 DEF Queued, Fetched
  <1>4. CASE broker = "bulk"
    <2>1. afut # <<>> /\ Tail(afut) = <<>> /\ afut \in Seq(Tokens)
      BY <1>1, <1>4, PlaceTypes DEF ControlInv
    <2>2. ToSet(afut) = {Head(afut)} \cup ToSet(Tail(afut))
      BY <2>1, ElementsOfTail
    <2>3. ToSet(Tail(afut)) = {} /\ ToSet(active) = {}
      BY <1>4, <2>1, ElementsOfEmpty
    <2>4. state[Head(afut)] \in {"ABORTED", "DROPPED", "FAILED"}
      BY <1>1, <1>4 DEF PlaceInv
    <2>. QED
      BY <1>2, <2>2, <2>3, <2>4
  <1>. QED
    BY <1>2, <1>3, <1>4

LEMMA QueueGivenUp ==
    ASSUME TypeOK, NEW q, DestroyState(q), afut' = <<>>
    PROVE  QueueKept
  <1>1. \A t \in Tokens : state'[t] = state[t] \/ state'[t] \in {"SENT_WITHOUT_SM", "DISCONNECTED"}
    BY DEF DestroyState, Abandoned, SetAll
  <1>2. Queued' = {}
    BY ElementsOfEmpty DEF DestroyState, Queued, Fetched
  <1>. QED
    BY <1>1, <1>2 DEF QueueKept

LEMMA CleanupHalts ==
    ASSUME SessionInv, Outputs, UNCHANGED s2c, NEW q, NEW why, Cleanup(q, why),
           \A t \in ToSet(q) : t \in Queued \/ state[t] \in {"ABORTED", "DROPPED", "FAILED"},
           Running, conn # "open" \/ why = "error", afut' = <<>>,
           (ifut' = <<>> /\ incoming' = <<>>) \/ (~smEnabled /\ bind # "asked" /\ UNCHANGED <<ifut, incoming>>),
           UNCHANGED <<rsop, smop>>
    PROVE  Halt
  <1>1. TypeOK /\ ControlInv /\ SessionTypeOK
    BY DEF SessionInv, IInv
  <1>2. rsop = NoResume
    BY <1>1 DEF ControlInv
  <1>3. Unheard
    BY <1>1, OutputsSilent DEF Cleanup, Emit
  <1>4. broker' = "none" /\ conn' # "open"
    BY DEF Cleanup
  <1>5. CASE smEnabled /\ smResumable
    <2>1. active' = q /\ UNCHANGED <<state, unacked, smVars>> /\ classes' = classes \ {"stanza", "nonza"}
      BY <1>5, Zenon DEF Cleanup
    <2>2. Queued' = ToSet(q)
      BY <2>1, ElementsOfEmpty DEF Queued, Fetched
    <2>3. QueueKept
      BY <2>1, <2>2 DEF QueueKept
    <2>. QED
      BY <1>2, <1>3, <1>4, <1>5, <2>1, <2>3 DEF Halt, SMKept, smVars, Running, Pipe
  <1>6. CASE ~(smEnabled /\ smResumable)
    <2>1. DestroyState(q)
      BY <1>6, Zenon DEF Cleanup
    <2>2. QueueKept /\ ~smEnabled'
      BY <1>1, <2>1, QueueGivenUp DEF DestroyState, SMOff
    <2>. QED
      BY <1>2, <1>3, <1>4, <2>2 DEF Halt, Running, Pipe
  <1>. QED
    BY <1>5, <1>6

LEMMA TerminateHalts ==
    ASSUME SessionInv, Outputs, UNCHANGED s2c, NEW why, Terminate(why), Running,
           broker = "bulk" => active = <<>> /\ conn # "open",
           conn # "open" \/ (why = "error" /\ smop = "none"), smEnabled => smop = "none"
    PROVE  Halt
  <1>1. TypeOK /\ ControlInv /\ SessionTypeOK
    BY DEF SessionInv, IInv
  <1>2. /\ \A t \in ToSet(Rescued) : t \in Queued \/ state[t] \in {"ABORTED", "DROPPED", "FAILED"}
        /\ Rescued \in Seq(Tokens)
    BY RescuedKept DEF SessionInv, Rescued
  <1>3. /\ afut' = <<>> /\ ifut' = <<>> /\ incoming' = <<>> /\ UNCHANGED <<rsop, smop>>
        /\ IF smop = "none"
           THEN Cleanup(Rescued, why)
           ELSE /\ active' = Rescued /\ broker' = "final" /\ Silent
                /\ UNCHANGED <<state, unacked, smVars, conn, classes>>
    BY DEF Terminate, LockFree, Drain, opVars
  <1>4. CASE smop = "none"
    BY <1>2, <1>3, <1>4, CleanupHalts
  <1>5. CASE smop # "none"
    <2>1. rsop = NoResume
      BY <1>1 DEF ControlInv
    <2>2. Unheard
      BY <1>1, <1>3, <1>5, OutputsSilent DEF Silent, Emit
    <2>3. Queued' = ToSet(Rescued)
      BY <1>3, <1>5, ElementsOfEmpty DEF Queued, Fetched
    <2>4. QueueKept
      BY <1>2, <1>3, <1>5, <2>3 DEF QueueKept
    <2>. QED
      BY <1>3, <1>5, <2>1, <2>2, <2>4 DEF Halt, smVars
  <1>. QED
    BY <1>4, <1>5

LEMMA HaltSteps ==
    ASSUME SessionInv, Outputs, UNCHANGED s2c,
           BatchRaises \/ ProcessRaises \/ BrokerCancelled \/ FinalLocked
    PROVE  Halt
  <1>1. TypeOK /\ ControlInv /\ PlaceInv /\ ClientControl
    BY DEF SessionInv, IInv
  <1>2. CASE BatchRaises
    BY <1>1, <1>2, TerminateHalts DEF BatchRaises, ControlInv, Yielded, Running
  <1>3. CASE ProcessRaises
    BY <1>1, <1>3, TerminateHalts DEF ProcessRaises, ControlInv, Yielded, Running
  <1>4. CASE BrokerCancelled
    <2>1. conn # "open" /\ (smEnabled => smop = "none") /\ broker \in {"wait", "lock"}
      BY <1>1, <1>4, Zenon DEF BrokerCancelled, ClientControl, ControlInv
    <2>. QED
      BY <1>4, <2>1, TerminateHalts DEF BrokerCancelled, Running
  <1>5. CASE FinalLocked
    <2>1. conn # "open" /\ ~smEnabled /\ bind = "yes" /\ broker = "final" /\ afut = <<>>
      BY <1>1, <1>5, Zenon DEF FinalLocked, ClientControl, ControlInv
    <2>2. Cleanup(active, raised) /\ UNCHANGED <<futVars, opVars>>
      BY <1>5 DEF FinalLocked
    <2>3. \A t \in ToSet(active) : t \in Queued
      BY DEF Queued
    <2>. QED
      BY <2>1, <2>2, <2>3, CleanupHalts DEF futVars, opVars, Running
  <1>. QED
    BY <1>2, <1>3, <1>4, <1>5

LEMMA OneAhead ==
    ASSUME NEW S, NEW a \in Seq(S), NEW r \in Seq(S), Len(a) = 1
    PROVE  a \o r # <<>> /\ Head(a \o r) = Head(a) /\ Tail(a \o r) = <<>> \o r
  <1>1. /\ a \o r \in Seq(S) /\ Len(a \o r) = Len(a) + Len(r) /\ Len(r) \in Nat
        /\ \A i \in 1..Len(a) : (a \o r)[i] = a[i]
        /\ \A i \in 1..Len(r) : (a \o r)[Len(a) + i] = r[i]
    BY ConcatIndex
  <1> DEFINE c == a \o r
  <1>. HIDE DEF c
  <1>2. /\ c \in Seq(S) /\ Len(c) = 1 + Len(r) /\ c # <<>> /\ Head(c) = Head(a)
        /\ \A i \in 1..Len(r) : c[i + 1] = r[i]
    BY <1>1 DEF c
  <1>3. Tail(c) \in Seq(S) /\ Len(Tail(c)) = Len(r) /\ \A i \in 1..Len(r) : Tail(c)[i] = r[i]
    BY <1>2
  <1>4. Tail(c) = r
    BY <1>3
  <1>5. <<>> \o r = r
    OBVIOUS
  <1>. QED
    BY <1>2, <1>4, <1>5 DEF c

LEMMA TakeEffect ==
    ASSUME SessionInv, UNCHANGED s2c, broker = "incoming", IncomingDone
    PROVE  Take(Head(ifut))
  <1>1. TypeOK /\ ControlInv /\ SessionTypeOK
    BY DEF SessionInv, IInv
  <1>2. ifut # <<>> /\ Head(ifut) \in Element /\ smop = "none" /\ rsop = NoResume
    BY <1>1, PipeTypes DEF ControlInv, Yielded, Running
  <1>3. Len(ifut) = 1 /\ ifut \in Seq(ToClient) /\ incoming \o s2c \in Seq(ToClient)
    <2>1. ifut \in Seq(ToClient) /\ incoming \o s2c \in Seq(ToClient) /\ Len(ifut) <= 1
      BY <1>1, PipeTypes
    <2>. QED
      BY <1>2, <2>1
  <1>4. Pipe # <<>> /\ Head(Pipe) = Head(ifut) /\ Tail(Pipe) = <<>> \o (incoming \o s2c)
    BY <1>3, OneAhead DEF Pipe
  <1>5. /\ ifut' = <<>> /\ UNCHANGED <<incoming, smop, rsop, conn, classes>> /\ broker' = "wait"
    BY DEF IncomingDone, opVars, connVars
  <1>6. Pipe' = Tail(Pipe)
    BY <1>4, <1>5 DEF Pipe
  <1>. QED
    BY <1>2, <1>4, <1>5, <1>6 DEF Take, Busy, Running

LEMMA ElementCases ==
    \A e \in Element :
       /\ e.k = "stanza" => e.m \in Inbound /\ e = Stanza(e.m)
       /\ e.k = "a" => e.h \in Counter /\ e = SMAck(e.h)
       /\ e.k = "r" => e = SMRequest
  BY DEF Element, Stanza, SMAck, SMRequest

LEMMA TakeSteps ==
    ASSUME SessionInv, Outputs, UNCHANGED s2c, ProcessStanza \/ ProcessAck \/ ProcessRequest
    PROVE  \/ TakeRequest
           \/ \E m \in Inbound : TakeStanza(m)
           \/ \E h \in Counter : TakeAck(h)
           \/ \E e \in Element : TakeIgnored(e)
  <1> DEFINE e == Head(ifut)
  <1>1. TypeOK /\ ControlInv /\ SessionTypeOK
    BY DEF SessionInv, IInv
  <1>2. Take(e) /\ e \in Element /\ broker = "incoming" /\ broker' = "wait" /\ UNCHANGED afut
    BY TakeEffect DEF ProcessStanza, ProcessAck, ProcessRequest, IncomingDone, Take
  <1>. HIDE DEF e
  <1>3. UNCHANGED <<state, active>> => QueueKept
    BY <1>2, QueueUntouched
  <1>4. CASE ProcessStanza
    <2>1. /\ e.k = "stanza" /\ inCtr' = IF smEnabled THEN (inCtr + 1) % W ELSE inCtr
          /\ io'.wire = <<>> /\ io'.app = <<e.m>>
          /\ UNCHANGED <<tokenVars, smEnabled, smResumable, outBase>>
      BY <1>4 DEF ProcessStanza, Emit, e
    <2>2. e.m \in Inbound /\ e = Stanza(e.m)
      BY <1>2, <2>1, ElementCases
    <2>3. /\ c2s' = c2s
          /\ IF e.m = BindResult THEN bind' = "yes" /\ UNCHANGED handed
                                 ELSE handed' = Append(handed, e.m) /\ UNCHANGED bind
      BY <1>1, <2>1, <2>2, OutputsApp
    <2>4. TakeStanza(e.m)
      BY <1>2, <1>3, <2>1, <2>2, <2>3 DEF TakeStanza, tokenVars
    <2>. QED
      BY <2>2, <2>4
  <1>5. CASE ProcessAck /\ smEnabled
    <2>1. /\ e.k = "a" /\ ToDrop(e.h) <= Len(unacked) /\ AckUpTo(e.h)
          /\ unacked' = SubSeq(unacked, ToDrop(e.h) + 1, Len(unacked))
          /\ io'.wire = <<>> /\ io'.app = <<>> /\ UNCHANGED <<active, smEnabled, inCtr>>
      BY <1>5 DEF ProcessAck, Silent, Emit, e
    <2>2. e.h \in Counter /\ e = SMAck(e.h)
      BY <1>2, <2>1, ElementCases
    <2>3. Unheard
      BY <1>1, <2>1, OutputsSilent
    <2>4. Queued' = Queued
      BY <1>2, <2>1 DEF Queued, Fetched
    <2>5. TakeAck(e.h)
      BY <1>2, <1>5, <2>1, <2>2, <2>3, <2>4 DEF TakeAck
    <2>. QED
      BY <2>2, <2>5
  <1>6. CASE ProcessAck /\ ~smEnabled
    <2>1. /\ e.k = "a" /\ io'.wire = <<>> /\ io'.app = <<>>
          /\ UNCHANGED <<state, unacked, outBase, active, smEnabled, inCtr>>
      BY <1>6 DEF ProcessAck, Silent, Emit, e
    <2>2. Unheard
      BY <1>1, <2>1, OutputsSilent
    <2>3. TakeIgnored(e)
      BY <1>2, <1>3, <1>6, <2>1, <2>2 DEF TakeIgnored, SMKept
    <2>. QED
      BY <1>2, <2>3
  <1>7. CASE ProcessRequest /\ smEnabled
    <2>1. /\ e.k = "r" /\ io'.wire = <<SMAck(inCtr)>> /\ io'.app = <<>>
          /\ UNCHANGED <<tokenVars, smVars>>
      BY <1>7 DEF ProcessRequest, Emit, e
    <2>2. e = SMRequest /\ SMAck(inCtr) \in ToServer
      BY <1>1, <1>2, <2>1, ElementCases DEF ToServer, TypeOK
    <2>3. c2s' = Append(c2s, SMAck(inCtr)) /\ UNCHANGED <<bind, handed>>
      BY <1>1, <2>1, <2>2, OutputsWire
    <2>4. TakeRequest
      BY <1>2, <1>3, <1>7, <2>1, <2>2, <2>3 DEF TakeRequest, SMKept, tokenVars, smVars
    <2>. QED
      BY <2>4
  <1>8. CASE ProcessRequest /\ ~smEnabled
    <2>1. /\ e.k = "r" /\ io'.wire = <<>> /\ io'.app = <<>> /\ UNCHANGED <<tokenVars, smVars>>
      BY <1>8 DEF ProcessRequest, Emit, e
    <2>2. Unheard
      BY <1>1, <2>1, OutputsSilent
    <2>3. TakeIgnored(e)
      BY <1>2, <1>3, <1>8, <2>1, <2>2 DEF TakeIgnored, SMKept, tokenVars, smVars
    <2>. QED
      BY <1>2, <2>3
  <1>. QED
    BY <1>4, <1>5, <1>6, <1>7, <1>8

LEMMA OwnerSteps ==
    ASSUME SessionInv, Outputs, UNCHANGED s2c,
           \/ StartSM /\ bind = "yes"
           \/ ResumeSM \/ Resumed \/ ResumeRaises \/ ResumeRefused
           \/ ResumeDies /\ notified
    PROVE  AskEnable \/ AskResume \/ DoResume \/ AcceptRefusal \/ GiveUpResume
  <1>1. TypeOK /\ ControlInv /\ PlaceInv /\ SessionTypeOK /\ ClientControl
    BY DEF SessionInv, IInv
  <1>. USE DEF smVars, futVars, opVars, connVars, taskVars, tokenVars, Running
  <1>2. CASE StartSM /\ bind = "yes"
    <2>1. Enable \in ToServer
      BY DEF ToServer
    <2>2. io'.wire = <<Enable>> /\ io'.app = <<>>
      BY <1>2 DEF StartSM, Emit, Enable
    <2>3. c2s' = Append(c2s, Enable) /\ UNCHANGED <<bind, handed>>
      BY <1>1, <2>1, <2>2, OutputsWire
    <2>4. QueueKept
      BY <1>2, QueueUntouched DEF StartSM
    <2>. QED
      BY <1>2, <2>3, <2>4 DEF StartSM, OwnerIdle, AskEnable, SMKept
  <1>3. CASE ResumeSM
    <2>1. Resume(inCtr) \in ToServer
      BY <1>1 DEF ToServer, TypeOK
    <2>2. io'.wire = <<Resume(inCtr)>> /\ io'.app = <<>>
      BY <1>3 DEF ResumeSM, Emit, Resume
    <2>3. c2s' = Append(c2s, Resume(inCtr)) /\ UNCHANGED <<bind, handed>>
      BY <1>1, <2>1, <2>2, OutputsWire
    <2>4. QueueKept
      BY <1>3, QueueUntouched DEF ResumeSM
    <2>. QED
      BY <1>3, <2>3, <2>4 DEF ResumeSM, OwnerIdle, AskResume, SMKept
  <1>4. CASE Resumed
    <2>1. /\ rsop.at = "resumed" /\ ToDrop(rsop.h) <= Len(unacked) /\ AckUpTo(rsop.h)
          /\ unacked' = <<>> /\ broker' = "fresh" /\ rsop' = NoResume
          /\ active' = Reverse(SubSeq(unacked, ToDrop(rsop.h) + 1, Len(unacked))) \o active
          /\ io'.wire = <<>> /\ io'.app = <<>>
          /\ UNCHANGED <<smEnabled, inCtr, smop, conn, classes, ifut, incoming, afut>>
      BY <1>4 DEF Resumed, Commit, ResumeOver, Retransmit, Emit
    <2>2. ~Running /\ afut = <<>> /\ rsop.h \in Counter /\ active \in Seq(Tokens) /\ unacked \in Seq(Tokens)
      BY <1>1, <2>1 DEF ControlInv, NoResume, TypeOK
    <2>3. Unheard
      BY <1>1, <2>1, OutputsSilent
    <2> DEFINE n == ToDrop(rsop.h)
               rest == SubSeq(unacked, n + 1, Len(unacked))
    <2>4. n \in 0..Len(unacked)
      BY <1>1, <2>1, <2>2, AckRange
    <2>. HIDE DEF n
    <2>5. rest \in Seq(Tokens) /\ \A i \in 1..Len(rest) : rest[i] \in {unacked[j] : j \in (n + 1)..Len(unacked)}
      <3>1. /\ rest \in Seq(Tokens) /\ Len(rest) = Len(unacked) - n
            /\ \A i \in 1..Len(rest) : rest[i] = unacked[n + i] /\ n + i \in (n + 1)..Len(unacked)
        BY <2>2, <2>4
      <3>. QED
        BY <3>1
    <2>. HIDE DEF rest
    <2>6. ToSet(rest) \subseteq {unacked[j] : j \in (n + 1)..Len(unacked)}
      BY <2>5, SequenceWithin
    <2>7. Reverse(rest) \in Seq(Tokens) /\ ToSet(Reverse(rest)) = ToSet(rest)
      BY <2>5, ElementsOfReverse
    <2>8. ToSet(active') = ToSet(rest) \cup ToSet(active)
      BY <2>1, <2>2, <2>7, ElementsOfConcat DEF rest, n
    <2>9. \A t \in Queued' : t \in Queued \/ \E i \in (n + 1)..Len(unacked) : t = unacked[i]
      <3>1. ToSet(afut') = {}
        BY <2>1, <2>2, ElementsOfEmpty
      <3>2. Queued' \subseteq ToSet(rest) \cup ToSet(active)
        BY <2>8, <3>1 DEF Queued, Fetched
      <3>. QED
        BY <2>6, <3>2 DEF Queued
    <2>. QED
      BY <2>1, <2>2, <2>3, <2>9 DEF DoResume, n
  <1>5. CASE ResumeRaises
    <2>1. rsop.h # NoCounter /\ ToDrop(rsop.h) > Len(unacked)
      BY <1>5 DEF ResumeRaises
    <2>2. ToDrop(rsop.h) <= Len(unacked)
      BY <2>1 DEF SessionInv, Outbound, Exact
    <2>3. rsop.h \in Counter
      BY <1>1, <2>1 DEF TypeOK
    <2>4. ToDrop(rsop.h) \in Counter
      BY <1>1, <2>3, CounterType DEF TypeOK
    <2>. QED
      BY <1>1, <2>1, <2>2, <2>4 DEF Counter, TypeOK
  <1>6. CASE ResumeRefused
    <2>1. /\ rsop.at = "refused" /\ ~smEnabled' /\ unacked' = <<>> /\ active' = <<>>
          /\ \A t \in Tokens : state'[t] = state[t] \/ state'[t] \in {"ACKED", "SENT_WITHOUT_SM", "DISCONNECTED"}
          /\ rsop' = NoResume /\ io'.wire = <<>> /\ io'.app = <<>>
          /\ "stanza" \notin classes'
          /\ UNCHANGED <<smop, conn, broker, afut, ifut, incoming>>
      BY <1>6 DEF ResumeRefused, ResumeOver, SMOff, Emit, SetAll
    <2>2. ~Running
      BY <1>1, <2>1 DEF ControlInv, NoResume
    <2>3. Unheard
      BY <1>1, <2>1, OutputsSilent
    <2>. QED
      BY <2>1, <2>2, <2>3 DEF AcceptRefusal
  <1>7. CASE ResumeDies /\ notified
    <2>1. conn # "open"
      BY <1>1, <1>7, Zenon DEF ClientControl
    <2>2. ~Running
      BY <1>1, <1>7 DEF ControlInv, NoResume, ResumeDies
    <2>3. Unheard
      BY <1>1, <1>7, OutputsSilent DEF ResumeDies, Silent, Emit
    <2>4. QueueKept
      BY <1>7, QueueUntouched DEF ResumeDies, ResumeOver
    <2>. QED
      BY <1>7, <2>1, <2>2, <2>3, <2>4 DEF ResumeDies, ResumeOver, GiveUpResume, SMKept
  <1>. QED
    BY <1>2, <1>3, <1>4, <1>5, <1>6, <1>7

LEMMA ClientEffects ==
    ASSUME SessionInv, Client(ClientStep)
    PROVE  ClientEffect /\ UNCHANGED <<s2c, serverVars, conns>>
  <1>1. Outputs /\ UNCHANGED <<s2c, serverVars, conns>> /\ ClientStep
    BY DEF Client
  <1>2. CASE \/ \E t \in Tokens : Enqueue(t) \/ Abort(t)
             \/ BrokerStart \/ BrokerNeverRuns \/ BrokerWake \/ BrokerLocks \/ FinalCancelled
             \/ GetActive \/ GetIncoming
             \/ Start /\ ~smEnabled
             \/ Stop /\ notified
             \/ StartSMAnswered \/ StartSMDies
             \/ ConnFails \/ PeerEof \/ ConnGone \/ OnClosing
    BY <1>1, <1>2, ControlSteps DEF ClientEffect
  <1>3. CASE SendFirst \/ SendNext \/ BatchDone
    BY <1>1, <1>3, SendSteps DEF ClientEffect
  <1>4. CASE BatchRaises \/ ProcessRaises \/ BrokerCancelled \/ FinalLocked
    BY <1>1, <1>4, HaltSteps DEF ClientEffect
  <1>5. CASE ProcessStanza \/ ProcessAck \/ ProcessRequest
    BY <1>1, <1>5, TakeSteps DEF ClientEffect
  <1>6. CASE \/ StartSM /\ bind = "yes"
             \/ ResumeSM \/ Resumed \/ ResumeRaises \/ ResumeRefused
             \/ ResumeDies /\ notified
    BY <1>1, <1>6, OwnerSteps DEF ClientEffect
  <1>. QED
    BY <1>1, <1>2, <1>3, <1>4, <1>5, <1>6 DEF ClientStep, Broker

-----------------------------------------------------------------------------
(* Types of what the channels carry, and of what the server remembers *)

LEMMA InStep == IInv /\ SessionTypeOK /\ [SessionNext]_sessionVars => IInv'
  BY StreamStep, StepIInv

LEMMA ElementTypes ==
    /\ \A m \in Inbound : Stanza(m) \in ToClient
    /\ \A h \in Counter : SMAck(h) \in ToClient /\ [k |-> "resumed", h |-> h] \in ToClient
    /\ SMRequest \in ToClient
    /\ \A r \in BOOLEAN : [k |-> "enabled", resume |-> r] \in ToClient
    /\ [k |-> "enablefailed"] \in ToClient
    /\ \A h \in Counter \cup {NoCounter} : [k |-> "resumefailed", h |-> h] \in ToClient
    /\ \A t \in Tokens : Stanza(t) \in ToServer
    /\ \A h \in Counter : SMAck(h) \in ToServer /\ Resume(h) \in ToServer
    /\ SMRequest \in ToServer /\ Enable \in ToServer /\ Bind \in ToServer
  BY DEF ToClient, Element, ToServer

\* What the server drops, and what it keeps, for an acknowledgement.
LEMMA AckedByType ==
    ASSUME SessionTypeOK, NEW h \in Counter
    PROVE  /\ AckedBy(sess, h) \in SessionRecord
           /\ AckedBy(sess, h).on = sess.on /\ AckedBy(sess, h).resumable = sess.resumable
           /\ AckedBy(sess, h).h = sess.h /\ AckedBy(sess, h).base = h
           /\ AckedBy(sess, h).out = SubSeq(sess.out, InOff(h) + 1, Len(sess.out))
           /\ InOff(h) \in Counter /\ InOff(h) \in Nat
  <1>1. sess \in SessionRecord /\ sess.out \in Seq(Numbered)
    BY DEF SessionTypeOK, SessionRecord
  <1>2. InOff(h) \in Counter /\ InOff(h) \in Nat
    BY <1>1, ModulusAssumption DEF InOff, Counter, SessionRecord
  <1> DEFINE rest == SubSeq(sess.out, InOff(h) + 1, Len(sess.out))
  <1>3. rest \in Seq(Numbered)
    BY <1>1, <1>2
  <1>4. AckedBy(sess, h) = [sess EXCEPT !.asked = FALSE, !.base = h, !.out = rest]
    BY DEF AckedBy, InOff
  <1>. HIDE DEF rest
  <1>5. /\ AckedBy(sess, h) \in SessionRecord
        /\ AckedBy(sess, h).on = sess.on /\ AckedBy(sess, h).resumable = sess.resumable
        /\ AckedBy(sess, h).h = sess.h /\ AckedBy(sess, h).base = h /\ AckedBy(sess, h).out = rest
    BY <1>1, <1>3, <1>4 DEF SessionRecord
  <1>. QED
    BY <1>2, <1>5 DEF rest

LEMMA StanzasOfType ==
    ASSUME NEW s \in Seq(Numbered)
    PROVE  /\ StanzasOf(s) \in Seq(ToClient) /\ Len(StanzasOf(s)) = Len(s)
           /\ \A i \in 1..Len(s) : StanzasOf(s)[i] = Stanza(s[i])
  BY ElementTypes DEF StanzasOf, Numbered

-----------------------------------------------------------------------------
(* What a step does to the channels and to the pipe: elements are removed,  *)
(* or added at the end.                                                      *)

Within(p, q) == ToSet(p) \subseteq ToSet(q) /\ \A x, y : Before(p, x, y) => Before(q, x, y)

LEMMA Kinds ==
    /\ Bind.k = "bind" /\ Enable.k = "enable" /\ SMRequest.k = "r"
    /\ \A h : Resume(h).k = "resume" /\ Resume(h).h = h /\ SMAck(h).k = "a" /\ SMAck(h).h = h
    /\ \A m : Stanza(m).k = "stanza" /\ Stanza(m).m = m
    /\ BindReply.k = "stanza" /\ BindReply.m = BindResult
  BY DEF Bind, Enable, SMRequest, Resume, SMAck, Stanza, BindReply

LEMMA WithinTail ==
    ASSUME NEW S, NEW q \in Seq(S), q # <<>>
    PROVE  Within(Tail(q), q)
  BY ElementsOfTail, BeforeTail DEF Within

LEMMA ViewOfThree ==
    ASSUME NEW S, NEW a \in Seq(S), NEW b \in Seq(S), NEW c \in Seq(S)
    PROVE  /\ ToSet(a \o (b \o c)) = ToSet(a) \cup ToSet(b) \cup ToSet(c)
           /\ \A x, y : Before(a \o (b \o c), x, y)
                 <=> \/ Before(a, x, y) \/ Before(b, x, y) \/ Before(c, x, y)
                     \/ x \in ToSet(a) /\ y \in ToSet(b) \cup ToSet(c)
                     \/ x \in ToSet(b) /\ y \in ToSet(c)
  <1>1. b \o c \in Seq(S) /\ ToSet(b \o c) = ToSet(b) \cup ToSet(c)
    BY ElementsOfConcat
  <1>2. ToSet(a \o (b \o c)) = ToSet(a) \cup ToSet(b \o c)
    <2>1. \A t \in Seq(S) : ToSet(a \o t) = ToSet(a) \cup ToSet(t)
      BY ElementsOfConcat
    <2>. QED
      BY <1>1, <2>1
  <1>3. ASSUME NEW x, NEW y
        PROVE  Before(b \o c, x, y) <=> Before(b, x, y) \/ Before(c, x, y) \/ (x \in ToSet(b) /\ y \in ToSet(c))
    BY BeforeConcat
  <1>4. ASSUME NEW x, NEW y
        PROVE  Before(a \o (b \o c), x, y)
                 <=> Before(a, x, y) \/ Before(b \o c, x, y) \/ (x \in ToSet(a) /\ y \in ToSet(b \o c))
    BY <1>1, BeforeConcat
  <1>. QED
    BY <1>1, <1>2, <1>3, <1>4

LEMMA PipeView ==
    ASSUME TypeOK, SessionTypeOK
    PROVE  /\ ToSet(Pipe) = ToSet(ifut) \cup ToSet(incoming) \cup ToSet(s2c)
           /\ \A x, y : Before(Pipe, x, y)
                 <=> \/ Before(ifut, x, y) \/ Before(incoming, x, y) \/ Before(s2c, x, y)
                     \/ x \in ToSet(ifut) /\ y \in ToSet(incoming) \cup ToSet(s2c)
                     \/ x \in ToSet(incoming) /\ y \in ToSet(s2c)
  <1>1. ifut \in Seq(ToClient) /\ incoming \in Seq(ToClient) /\ s2c \in Seq(ToClient)
    BY PipeTypes
  <1>. QED
    BY <1>1, ViewOfThree DEF Pipe

\* recv_stanza puts the element it was given into the incoming queue.
LEMMA PipeReceived ==
    ASSUME TypeOK, SessionTypeOK, Fetching, incoming' = Append(incoming, Head(s2c)), ifut' = ifut
    PROVE  Pipe' = Pipe /\ ToSet(incoming') = ToSet(incoming) \cup {Head(s2c)}
           /\ ToSet(s2c') \subseteq ToSet(s2c)
  <1>1. incoming \in Seq(ToClient) /\ s2c \in Seq(ToClient) /\ s2c # <<>>
    BY PipeTypes DEF Fetching
  <1>2. Append(incoming, Head(s2c)) \o Tail(s2c) = incoming \o s2c
    BY <1>1
  <1>3. Pipe' = Pipe
    BY <1>2 DEF Pipe, Fetching
  <1>. QED
    BY <1>1, <1>3, ElementsOfAppend, ElementsOfTail DEF Fetching

\* Other elements are consumed at once.
LEMMA PipeConsumed ==
    ASSUME TypeOK, SessionTypeOK, Fetching, UNCHANGED <<ifut, incoming>>
    PROVE  Within(Pipe', Pipe) /\ Within(s2c', s2c)
  <1>1. ifut \in Seq(ToClient) /\ incoming \in Seq(ToClient) /\ s2c \in Seq(ToClient) /\ s2c # <<>>
    BY PipeTypes DEF Fetching
  <1>2. Tail(s2c) \in Seq(ToClient)
    BY <1>1
  <1>3. Within(Tail(s2c), s2c)
    BY <1>1, WithinTail
  <1>4. Pipe' = ifut \o (incoming \o Tail(s2c))
    BY DEF Pipe, Fetching
  <1>5. Within(Pipe', Pipe)
    <2>1. ToSet(Pipe') \subseteq ToSet(Pipe)
      <3>1. ToSet(Pipe') = ToSet(ifut) \cup ToSet(incoming) \cup ToSet(Tail(s2c))
        <4>1. \A c \in Seq(ToClient) :
                 ToSet(ifut \o (incoming \o c)) = ToSet(ifut) \cup ToSet(incoming) \cup ToSet(c)
          BY <1>1, ViewOfThree
        <4>. QED
          BY <1>2, <1>4, <4>1
      <3>2. ToSet(Pipe) = ToSet(ifut) \cup ToSet(incoming) \cup ToSet(s2c)
        BY PipeView
      <3>. QED
        BY <1>3, <3>1, <3>2 DEF Within
    <2>2. ASSUME NEW x, NEW y, Before(Pipe', x, y) PROVE Before(Pipe, x, y)
      <3>1. \A c \in Seq(ToClient) : \A v, w : Before(ifut \o (incoming \o c), v, w)
              <=> \/ Before(ifut, v, w) \/ Before(incoming, v, w) \/ Before(c, v, w)
                  \/ v \in ToSet(ifut) /\ w \in ToSet(incoming) \cup ToSet(c)
                  \/ v \in ToSet(incoming) /\ w \in ToSet(c)
        BY <1>1, ViewOfThree
      <3>2. \/ Before(ifut, x, y) \/ Before(incoming, x, y) \/ Before(Tail(s2c), x, y)
            \/ x \in ToSet(ifut) /\ y \in ToSet(incoming) \cup ToSet(Tail(s2c))
            \/ x \in ToSet(incoming) /\ y \in ToSet(Tail(s2c))
        BY <1>2, <1>4, <2>2, <3>1
      <3>3. \/ Before(ifut, x, y) \/ Before(incoming, x, y) \/ Before(s2c, x, y)
            \/ x \in ToSet(ifut) /\ y \in ToSet(incoming) \cup ToSet(s2c)
            \/ x \in ToSet(incoming) /\ y \in ToSet(s2c)
        BY <1>3, <3>2 DEF Within
      <3>. QED
        BY <1>1, <3>1, <3>3 DEF Pipe
    <2>. QED
      BY <2>1, <2>2 DEF Within
  <1>. QED
    BY <1>3, <1>5 DEF Fetching

\* The queues of the client are drained.
LEMMA PipeDrained ==
    ASSUME TypeOK, SessionTypeOK, UNCHANGED s2c, ifut' = <<>>, incoming' = <<>>
    PROVE  Pipe' = s2c /\ Within(Pipe', Pipe)
  <1>1. s2c \in Seq(ToClient)
    BY DEF SessionTypeOK
  <1>2. Pipe' = s2c
    BY <1>1 DEF Pipe
  <1>. QED
    BY <1>2, PipeView DEF Within

LEMMA PipeHalted == ASSUME TypeOK, SessionTypeOK, UNCHANGED s2c, Halt PROVE Within(Pipe', Pipe)
  BY PipeDrained DEF Halt, Within

LEMMA PipeTaken ==
    ASSUME TypeOK, SessionTypeOK, NEW e, Take(e)
    PROVE  /\ e \in ToClient /\ Pipe' \in Seq(ToClient) /\ Within(Pipe', Pipe)
           /\ ToSet(Pipe) = {e} \cup ToSet(Pipe')
           /\ \A x, y : Before(Pipe, x, y) <=> Before(Pipe', x, y) \/ (x = e /\ y \in ToSet(Pipe'))
  <1>1. Pipe \in Seq(ToClient) /\ Pipe # <<>> /\ Pipe' = Tail(Pipe) /\ e = Head(Pipe)
    BY PipeTypes DEF Take
  <1>. QED
    BY <1>1, ElementsOfTail, BeforeTail, WithinTail

\* The server sends an element.
LEMMA PipeSent ==
    ASSUME TypeOK, SessionTypeOK, UNCHANGED <<ifut, incoming>>, NEW e \in ToClient, s2c' = Append(s2c, e)
    PROVE  /\ Pipe' = Append(Pipe, e)
           /\ ToSet(Pipe') = ToSet(Pipe) \cup {e}
           /\ ToSet(s2c') = ToSet(s2c) \cup {e}
           /\ \A x, y : Before(Pipe', x, y) <=> Before(Pipe, x, y) \/ (x \in ToSet(Pipe) /\ y = e)
           /\ \A x, y : Before(s2c', x, y) <=> Before(s2c, x, y) \/ (x \in ToSet(s2c) /\ y = e)
  <1>1. /\ ifut \in Seq(ToClient) /\ incoming \in Seq(ToClient) /\ s2c \in Seq(ToClient)
        /\ Pipe \in Seq(ToClient)
    BY PipeTypes
  <1>2. \A a, b \in Seq(ToClient) : a \o Append(b, e) = Append(a \o b, e) /\ a \o b \in Seq(ToClient)
    OBVIOUS
  <1>3. Pipe' = Append(Pipe, e)
    <2>1. incoming \o Append(s2c, e) = Append(incoming \o s2c, e) /\ incoming \o s2c \in Seq(ToClient)
      BY <1>1, <1>2
    <2>2. ifut \o Append(incoming \o s2c, e) = Append(ifut \o (incoming \o s2c), e)
      BY <1>1, <1>2, <2>1
    <2>. QED
      BY <2>1, <2>2 DEF Pipe
  <1>. QED
    BY <1>1, <1>3, ElementsOfAppend, BeforeAppend

\* The server reads an element.
LEMMA ReadingView ==
    ASSUME SessionTypeOK, NEW e, Reading(e)
    PROVE  /\ c2s # <<>> /\ e \in ToServer /\ Within(c2s', c2s)
           /\ ToSet(c2s) = {e} \cup ToSet(c2s')
           /\ \A x, y : Before(c2s, x, y) <=> Before(c2s', x, y) \/ (x = e /\ y \in ToSet(c2s'))
           /\ UNCHANGED <<vars, bind, handed, conns>>
  <1>1. c2s \in Seq(ToServer) /\ c2s # <<>> /\ c2s' = Tail(c2s) /\ e = Head(c2s)
    BY DEF SessionTypeOK, Reading
  <1>2. UNCHANGED <<vars, bind, handed, conns>>
    BY DEF Reading, ServerStep
  <1>. QED
    BY <1>1, <1>2, ElementsOfTail, BeforeTail, WithinTail

\* The client writes an element.
LEMMA WritingView ==
    ASSUME SessionTypeOK, NEW e \in ToServer, c2s' = Append(c2s, e)
    PROVE  /\ ToSet(c2s') = ToSet(c2s) \cup {e}
           /\ \A x, y : Before(c2s', x, y) <=> Before(c2s, x, y) \/ (x \in ToSet(c2s) /\ y = e)
  BY ElementsOfAppend, BeforeAppend DEF SessionTypeOK

(* What a step that reads an element from the connection changes. *)

Still == UNCHANGED <<state, active, afut, ifut, broker>>

ReceiveQueued ==
    /\ Fetching /\ Still /\ SMKept /\ UNCHANGED <<smop, rsop, conn, classes>>
    /\ Head(s2c) \in Element /\ ClassOf(Head(s2c)) \in classes
    /\ incoming' = Append(incoming, Head(s2c))

ReceiveUnknown ==
    /\ Fetching /\ Still /\ SMKept /\ UNCHANGED <<incoming, smop, rsop, classes>>
    /\ Head(s2c) \in Element /\ ClassOf(Head(s2c)) \notin classes
    /\ conn' = "closing" /\ broker # "fresh"

ReceiveEnabled(r) ==
    /\ Fetching /\ Still /\ UNCHANGED <<incoming, rsop, conn>>
    /\ Head(s2c) = [k |-> "enabled", resume |-> r]
    /\ smop = "requested" /\ smop' = "replied" /\ conn = "open"
    /\ outBase' = 0 /\ inCtr' = 0 /\ unacked' = <<>> /\ smEnabled' = TRUE
    /\ classes' = classes \cup {"nonza"}

ReceiveRefused ==
    /\ Fetching /\ Still /\ SMKept /\ UNCHANGED <<incoming, rsop, conn, classes>>
    /\ Head(s2c) = [k |-> "enablefailed"]
    /\ smop = "requested" /\ smop' = "refused" /\ conn = "open"

ReceiveResumed(h) ==
    /\ Fetching /\ Still /\ SMKept /\ UNCHANGED <<incoming, smop, conn, classes>>
    /\ Head(s2c) = [k |-> "resumed", h |-> h]
    /\ rsop.at = "requested" /\ conn = "open" /\ rsop' = [at |-> "resumed", h |-> h]

ReceiveResumeFailed(h) ==
    /\ Fetching /\ Still /\ SMKept /\ UNCHANGED <<incoming, smop, conn, classes>>
    /\ Head(s2c) = [k |-> "resumefailed", h |-> h]
    /\ rsop.at = "requested" /\ conn = "open" /\ rsop' = [at |-> "refused", h |-> h]

LEMMA ReceiveEffects ==
    ASSUME SessionInv, Receive
    PROVE  \/ ReceiveQueued \/ ReceiveUnknown \/ ReceiveRefused
           \/ \E r \in BOOLEAN : ReceiveEnabled(r)
           \/ \E h \in Counter : ReceiveResumed(h)
           \/ \E h \in Counter \cup {NoCounter} : ReceiveResumeFailed(h)
  <1>. USE DEF Still, SMKept, tokenVars, futVars, smVars, taskVars, opVars, connVars
  <1>1. Fetching
    BY ReceiveCases DEF SessionInv
  <1>2. CASE Head(s2c) \in Element /\ Recv(Head(s2c))
    BY <1>1, <1>2 DEF Recv, ReceiveQueued
  <1>3. CASE Head(s2c) \in Element /\ RecvUnknown(Head(s2c))
    BY <1>1, <1>3 DEF RecvUnknown, Settling, ReceiveUnknown
  <1>4. ASSUME NEW r \in BOOLEAN, Head(s2c) = [k |-> "enabled", resume |-> r], RecvEnabled(r)
        PROVE  ReceiveEnabled(r)
    BY <1>1, <1>4 DEF RecvEnabled, ReceiveEnabled
  <1>5. CASE Head(s2c) = [k |-> "enablefailed"] /\ RecvSMFailed
    BY <1>1, <1>5 DEF RecvSMFailed, ReceiveRefused
  <1>6. ASSUME NEW h \in Counter, Head(s2c) = [k |-> "resumed", h |-> h], RecvResumed(h)
        PROVE  ReceiveResumed(h)
    BY <1>1, <1>6 DEF RecvResumed, ReceiveResumed
  <1>7. ASSUME NEW h \in Counter \cup {NoCounter}, Head(s2c) = [k |-> "resumefailed", h |-> h],
               RecvResumeFailed(h)
        PROVE  ReceiveResumeFailed(h)
    BY <1>1, <1>7 DEF RecvResumeFailed, ReceiveResumeFailed
  <1>. QED
    BY <1>2, <1>3, <1>4, <1>5, <1>6, <1>7, ReceiveCases DEF SessionInv

LEMMA ReceivePipe ==
    ASSUME SessionInv, Receive
    PROVE  Within(Pipe', Pipe) /\ Within(s2c', s2c)
  <1>1. TypeOK /\ SessionTypeOK /\ s2c \in Seq(ToClient)
    BY DEF SessionInv, IInv, SessionTypeOK
  <1>2. CASE ReceiveQueued
    <2>1. Pipe' = Pipe
      BY <1>1, <1>2, PipeReceived DEF ReceiveQueued, Still
    <2>2. Within(s2c', s2c)
      BY <1>1, <1>2, WithinTail DEF ReceiveQueued, Fetching
    <2>. QED
      BY <2>1, <2>2 DEF Within
  <1>3. CASE Fetching /\ UNCHANGED <<ifut, incoming>>
    BY <1>1, <1>3, PipeConsumed
  <1>. QED
    BY <1>2, <1>3, ReceiveEffects
    DEF Still, ReceiveUnknown, ReceiveRefused, ReceiveEnabled, ReceiveResumed, ReceiveResumeFailed

-----------------------------------------------------------------------------
(* The server's answers *)

Resumption(h) == [k |-> "resumed", h |-> h]

LEMMA StanzasOfView ==
    ASSUME NEW s \in Seq(Numbered)
    PROVE  /\ StanzasOf(s) \in Seq(ToClient)
           /\ ToSet(StanzasOf(s)) = {Stanza(m) : m \in ToSet(s)}
           /\ \A m, n : Before(StanzasOf(s), Stanza(m), Stanza(n)) <=> Before(s, m, n)
  <1> DEFINE b == StanzasOf(s)
  <1>1. /\ b \in Seq(ToClient) /\ Len(b) = Len(s) /\ \A i \in 1..Len(s) : b[i] = Stanza(s[i])
    BY StanzasOfType
  <1>. HIDE DEF b
  <1>2. \A i \in 1..Len(b) : b[i] \in {Stanza(m) : m \in ToSet(s)}
    BY <1>1, InSequence
  <1>3. \A i \in 1..Len(s) : Stanza(s[i]) \in ToSet(b)
    <2>. SUFFICES ASSUME NEW i \in 1..Len(s) PROVE Stanza(s[i]) \in ToSet(b)
      OBVIOUS
    <2>1. i \in 1..Len(b) /\ b[i] = Stanza(s[i])
      BY <1>1
    <2>. QED
      BY <1>1, <2>1, InSequence
  <1>4. ToSet(b) = {Stanza(m) : m \in ToSet(s)}
    BY <1>1, <1>2, <1>3 DEF ToSet
  <1>5. ASSUME NEW m, NEW n PROVE Before(b, Stanza(m), Stanza(n)) <=> Before(s, m, n)
    <2>1. \A x, y : Stanza(x) = Stanza(y) <=> x = y
      BY Kinds
    <2>. QED
      BY <1>1, <2>1 DEF Before
  <1>. QED
    BY <1>1, <1>4, <1>5 DEF b

\* The server resumes the session.
ResumeGranted ==
    /\ c2s = <<Resume(inCtr)>> /\ c2s' = <<>> /\ s2c = <<>> /\ s2c' \in Seq(ToClient)
    /\ link = "plain" /\ link' = "sm" /\ smEnabled /\ ~Running /\ sess.on
    /\ rsop.at \in {"none", "requested"} /\ (conn = "open" => rsop.at = "requested")
    /\ sess' = AckedBy(sess, inCtr) /\ sess'.out \in Seq(Numbered)
    /\ Head(s2c') = Resumption(sess.h) /\ s2c' # <<>>
    /\ Tail(s2c') = StanzasOf(sess'.out)
    /\ ToSet(s2c') = {Resumption(sess.h)} \cup {Stanza(m) : m \in ToSet(sess'.out)}
    /\ \A x, y : Before(s2c', x, y) <=> \/ x = Resumption(sess.h) /\ y \in {Stanza(m) : m \in ToSet(sess'.out)}
                                        \/ Before(StanzasOf(sess'.out), x, y)
    /\ ifut = <<>> /\ Pipe' = incoming \o s2c' /\ Pipe' \in Seq(ToClient)
    /\ ToSet(Pipe') = ToSet(incoming) \cup ToSet(s2c')
    /\ UNCHANGED <<vars, bind, sent, counted, handled, handed, conns>>

LEMMA ResumeView ==
    ASSUME SessionInv, HandleResume
    PROVE  ResumeGranted
  <1>0. TypeOK /\ ControlInv /\ SessionTypeOK /\ Resuming /\ inCtr \in Counter
    BY DEF SessionInv, IInv, TypeOK
  <1>1. PICK h \in Counter : /\ Reading(Resume(h)) /\ link' = "sm" /\ sess' = AckedBy(sess, h) /\ sess.on
                             /\ s2c' = s2c \o <<Resumption(sess.h)>> \o StanzasOf(sess'.out)
                             /\ UNCHANGED <<sent, counted, handled>>
    BY DEF HandleResume, Resume, Resumption
  <1>2. Resume(h) \in ToSet(c2s) /\ UNCHANGED <<vars, bind, handed, conns>>
    BY <1>0, <1>1, ReadingView
  <1>3. /\ smEnabled /\ c2s = <<Resume(inCtr)>> /\ s2c = <<>> /\ ~Running /\ link = "plain"
        /\ rsop.at \in {"none", "requested"} /\ (conn = "open" => rsop.at = "requested")
    BY <1>0, <1>2, Kinds DEF Resuming, Has
  <1>4. c2s' = <<>> /\ Resume(h) = Resume(inCtr)
    BY <1>1, <1>3 DEF Reading
  <1>5. h = inCtr
    BY <1>4, Kinds
  <1> DEFINE a == <<Resumption(sess.h)>>
             b == StanzasOf(sess'.out)
  <1>6. sess'.out \in Seq(Numbered)
    BY <1>0, <1>1, AckedByType DEF SessionRecord
  <1>7. b \in Seq(ToClient) /\ ToSet(b) = {Stanza(m) : m \in ToSet(sess'.out)}
    BY <1>6, StanzasOfView
  <1>8. Resumption(sess.h) \in ToClient
    BY <1>0, ElementTypes DEF SessionTypeOK, SessionRecord, Resumption
  <1>9. s2c' = a \o b
    BY <1>1, <1>3, <1>7, <1>8
  <1>. HIDE DEF b
  <1>10. s2c' \in Seq(ToClient) /\ s2c' # <<>> /\ Head(s2c') = Resumption(sess.h) /\ Tail(s2c') = b
    BY <1>7, <1>8, <1>9
  <1>11. ToSet(s2c') = {Resumption(sess.h)} \cup ToSet(b)
    BY <1>10, ElementsOfTail
  <1>12. ASSUME NEW x, NEW y
         PROVE  Before(s2c', x, y) <=> (x = Resumption(sess.h) /\ y \in ToSet(b)) \/ Before(b, x, y)
    BY <1>10, BeforeTail
  <1>13. ifut = <<>> /\ incoming \in Seq(ToClient) /\ UNCHANGED <<ifut, incoming>>
    BY <1>0, <1>2, <1>3, PipeTypes DEF ControlInv, Running, vars, futVars
  <1>14. Pipe' = incoming \o s2c'
    BY <1>10, <1>13 DEF Pipe
  <1>15. Pipe' \in Seq(ToClient) /\ ToSet(Pipe') = ToSet(incoming) \cup ToSet(s2c')
    BY <1>10, <1>13, <1>14, ElementsOfConcat
  <1>. QED
    BY <1>1, <1>2, <1>3, <1>4, <1>5, <1>6, <1>7, <1>10, <1>11, <1>12, <1>13, <1>14, <1>15
    DEF ResumeGranted, b

\* Any other step of the server sends one element at most.
Answers(e) == e \in ToClient /\ s2c' = Append(s2c, e)

LEMMA ServerFrame ==
    ASSUME Server
    PROVE  UNCHANGED <<vars, bind, handed, conns>>
  BY DEF Server, ServerStep, Reading, HandleBind, HandleStanza, HandleRequest, HandleAck,
     HandleEnable, RefuseEnable, HandleResume, RefuseResume, SendInbound, RequestAck

LEMMA ServerReads ==
    ASSUME SessionTypeOK, Server
    PROVE  Within(c2s', c2s)
  BY ReadingView DEF Server, HandleBind, HandleStanza, HandleRequest, HandleAck,
     HandleEnable, RefuseEnable, HandleResume, RefuseResume, SendInbound, RequestAck, Within

LEMMA ServerAnswers ==
    ASSUME SessionTypeOK
    PROVE  /\ HandleBind => Answers(BindReply)
           /\ HandleStanza \/ HandleAck => UNCHANGED s2c
           /\ HandleRequest => UNCHANGED s2c \/ (link = "sm" /\ Answers(SMAck(sess.h)))
           /\ HandleEnable => \E r \in BOOLEAN : Answers([k |-> "enabled", resume |-> r])
           /\ RefuseEnable => Answers([k |-> "enablefailed"])
           /\ RefuseResume => \E n \in {sess.h, NoCounter} : Answers([k |-> "resumefailed", h |-> n])
           /\ SendInbound => sent + 1 \in Numbered /\ Answers(Stanza(sent + 1))
           /\ RequestAck => Answers(SMRequest)
  <1>1. sess.h \in Counter /\ sent \in Nat
    BY DEF SessionTypeOK, SessionRecord
  <1>. USE ElementTypes DEF Answers
  <1>2. HandleBind => Answers(BindReply)
    BY SessionAssumption DEF HandleBind, BindReply
  <1>3. HandleStanza \/ HandleAck => UNCHANGED s2c
    BY DEF HandleStanza, HandleAck
  <1>4. HandleRequest => UNCHANGED s2c \/ (link = "sm" /\ Answers(SMAck(sess.h)))
    BY <1>1 DEF HandleRequest
  <1>5. HandleEnable => \E r \in BOOLEAN : Answers([k |-> "enabled", resume |-> r])
    <2>1. \A r \in ServerResumes : r \in BOOLEAN
      BY SessionAssumption
    <2>. QED
      BY <2>1 DEF HandleEnable
  <1>6. RefuseEnable => Answers([k |-> "enablefailed"])
    BY DEF RefuseEnable
  <1>7. RefuseResume => \E n \in {sess.h, NoCounter} : Answers([k |-> "resumefailed", h |-> n])
    BY <1>1 DEF RefuseResume
  <1>8. SendInbound => sent + 1 \in Numbered /\ Answers(Stanza(sent + 1))
    BY <1>1 DEF SendInbound, Numbered, BindResult
  <1>9. RequestAck => Answers(SMRequest)
    BY DEF RequestAck
  <1>. QED
    BY <1>2, <1>3, <1>4, <1>5, <1>6, <1>7, <1>8, <1>9

\* Kinds of the answers that carry no stanza.
LEMMA AnswerKinds ==
    /\ \A r : [k |-> "enabled", resume |-> r].k = "enabled"
    /\ [k |-> "enablefailed"].k = "enablefailed"
    /\ \A n : [k |-> "resumefailed", h |-> n].k = "resumefailed" /\ [k |-> "resumefailed", h |-> n].h = n
    /\ \A n : Resumption(n).k = "resumed" /\ Resumption(n).h = n
  BY DEF Resumption

-----------------------------------------------------------------------------
(* Types *)

LEMMA TypesUntouched ==
    ASSUME SessionTypeOK, UNCHANGED <<c2s, s2c, bind, serverVars, handed>>
    PROVE  SessionTypeOK'
  BY DEF SessionTypeOK, serverVars

LEMMA TypeStep == SessionInv /\ [SessionNext]_sessionVars => SessionTypeOK'
  <1>. SUFFICES ASSUME SessionInv, [SessionNext]_sessionVars PROVE SessionTypeOK'
    OBVIOUS
  <1>0. SessionTypeOK /\ TypeOK
    BY DEF SessionInv, IInv
  <1>. USE ElementTypes, <1>0
  <1>1. CASE Client(ClientStep)
    <2>1. UNCHANGED <<s2c, serverVars>>
      BY <1>1, ClientEffects
    <2>. USE <2>1 DEF serverVars
    <2>2. CASE Unheard
      BY <2>2, TypesUntouched DEF Unheard
    <2>3. ASSUME NEW e \in ToServer, c2s' = Append(c2s, e), UNCHANGED <<bind, handed>> PROVE SessionTypeOK'
      BY <2>3 DEF SessionTypeOK
    <2>4. ASSUME NEW m \in Inbound, TakeStanza(m) PROVE SessionTypeOK'
      <3>1. c2s' = c2s /\ bind' \in {"no", "asked", "yes"}
        BY <2>4 DEF TakeStanza, SessionTypeOK
      <3>2. handed \in Seq(Numbered)
        BY DEF SessionTypeOK
      <3>3. handed' = handed \/ (m \in Numbered /\ handed' = Append(handed, m))
        BY <2>4 DEF TakeStanza, Numbered
      <3>4. handed' \in Seq(Numbered)
        BY <3>2, <3>3
      <3>. QED
        BY <3>1, <3>4 DEF SessionTypeOK
    <2>5. inCtr \in Counter
      BY DEF TypeOK
    <2>. QED
      BY <1>1, <2>2, <2>3, <2>4, <2>5, ClientEffects
      DEF ClientEffect, Idle, Halt, AskAck, TakeRequest, AskEnable, AskResume, DoResume,
          AcceptRefusal, GiveUpResume, Transmit, TakeAck, TakeIgnored
  <1>2. CASE AskBind
    BY <1>2 DEF AskBind, Bind, SessionTypeOK, serverVars
  <1>a. NoSession \in SessionRecord
    <2>1. <<>> \in Seq(Numbered)
      OBVIOUS
    <2>. QED
      BY <2>1, CounterType DEF NoSession, SessionRecord
  <1>3. CASE Reconnect
    <2>1. <<>> \in Seq(ToServer) /\ <<>> \in Seq(ToClient)
      OBVIOUS
    <2>. QED
      BY <1>3, <1>a, <2>1 DEF Reconnect, SessionTypeOK
  <1>4. CASE Receive
    <2>1. s2c' = Tail(s2c) /\ s2c # <<>> /\ UNCHANGED <<c2s, bind, serverVars, handed>>
      BY <1>4, ReceiveCases DEF Fetching
    <2>2. s2c' \in Seq(ToClient)
      BY <2>1 DEF SessionTypeOK
    <2>. QED
      BY <2>1, <2>2 DEF SessionTypeOK, serverVars
  <1>5. ASSUME Server, s2c' \in Seq(ToClient), link' \in {"none", "plain", "bound", "sm"},
               sess' \in SessionRecord, sent' \in Nat, counted' \subseteq Numbered, handled' \in Seq(Tokens)
        PROVE  SessionTypeOK'
    <2>1. c2s' = c2s \/ (c2s # <<>> /\ c2s' = Tail(c2s))
      BY <1>5 DEF Server, HandleBind, HandleStanza, HandleRequest, HandleAck, HandleEnable,
         RefuseEnable, HandleResume, RefuseResume, SendInbound, RequestAck, Reading
    <2>2. c2s \in Seq(ToServer)
      BY DEF SessionTypeOK
    <2>3. c2s' \in Seq(ToServer)
      BY <2>1, <2>2
    <2>. QED
      BY <1>5, <2>3, ServerFrame DEF SessionTypeOK
  <1>6. /\ s2c \in Seq(ToClient) /\ link \in {"none", "plain", "bound", "sm"}
        /\ sess \in SessionRecord /\ sent \in Nat /\ counted \subseteq Numbered /\ handled \in Seq(Tokens)
    BY DEF SessionTypeOK
  <1>7. ASSUME NEW e, Answers(e) PROVE s2c' \in Seq(ToClient)
    BY <1>6, <1>7 DEF Answers
  <1>. USE DEF Server
  <1>8. CASE HandleBind \/ RefuseEnable \/ HandleRequest
    <2>1. s2c' \in Seq(ToClient)
      BY <1>6, <1>7, <1>8, ServerAnswers
    <2>. QED
      BY <1>5, <1>6, <1>8, <2>1 DEF HandleBind, RefuseEnable, HandleRequest, serverVars
  <1>9. CASE HandleStanza
    <2>1. PICK t \in Tokens : /\ handled' = Append(handled, t)
                              /\ sess' = IF link = "sm" THEN [sess EXCEPT !.h = (@ + 1) % W] ELSE sess
                              /\ UNCHANGED <<s2c, link, sent, counted>>
      BY <1>9 DEF HandleStanza
    <2>2. (sess.h + 1) % W \in Counter
      BY <1>6, CounterType DEF SessionRecord
    <2>3. sess' \in SessionRecord
      BY <1>6, <2>1, <2>2 DEF SessionRecord
    <2>4. handled' \in Seq(Tokens)
      BY <1>6, <2>1
    <2>. QED
      BY <1>5, <1>6, <1>9, <2>1, <2>3, <2>4
  <1>10. CASE HandleAck
    <2>1. sess' \in SessionRecord
      BY <1>6, <1>10, AckedByType DEF HandleAck
    <2>. QED
      BY <1>5, <1>6, <1>10, <2>1 DEF HandleAck
  <1>11. CASE HandleEnable
    <2>1. s2c' \in Seq(ToClient)
      BY <1>7, <1>11, ServerAnswers
    <2>2. PICK r \in ServerResumes : /\ sess' = [NoSession EXCEPT !.on = TRUE, !.resumable = r] /\ link' = "sm"
                                     /\ counted' = {} /\ UNCHANGED <<sent, handled>>
      BY <1>11 DEF HandleEnable
    <2>3. r \in BOOLEAN
      BY SessionAssumption
    <2>4. sess' \in SessionRecord
      BY <1>a, <2>2, <2>3 DEF SessionRecord
    <2>. QED
      BY <1>5, <1>6, <1>11, <2>1, <2>2, <2>4
  <1>12. CASE HandleResume
    <2>1. sess' \in SessionRecord
      BY <1>12, AckedByType DEF HandleResume
    <2>2. ResumeGranted
      BY <1>12, ResumeView
    <2>. QED
      BY <1>5, <1>6, <1>12, <2>1, <2>2 DEF ResumeGranted
  <1>13. CASE RefuseResume
    <2>1. s2c' \in Seq(ToClient)
      BY <1>7, <1>13, ServerAnswers
    <2>. QED
      BY <1>5, <1>6, <1>13, <1>a, <2>1 DEF RefuseResume
  <1>14. CASE SendInbound \/ RequestAck
    <2>1. s2c' \in Seq(ToClient)
      BY <1>7, <1>14, ServerAnswers
    <2>2. CASE SendInbound
      <3>1. sent + 1 \in Numbered
        BY <2>2, ServerAnswers
      <3>2. sess' \in SessionRecord
        <4>1. sess.out \in Seq(Numbered)
          BY <1>6 DEF SessionRecord
        <4>2. Append(sess.out, sent + 1) \in Seq(Numbered)
          BY <3>1, <4>1
        <4>. QED
          BY <1>6, <2>2, <4>2 DEF SendInbound, SessionRecord
      <3>. QED
        BY <1>5, <1>6, <2>1, <2>2, <3>1, <3>2 DEF SendInbound
    <2>3. CASE RequestAck
      <3>1. sess' \in SessionRecord
        BY <1>6, <2>3 DEF RequestAck, SessionRecord
      <3>. QED
        BY <1>5, <1>6, <2>1, <2>3, <3>1 DEF RequestAck
    <2>. QED
      BY <1>14, <2>2, <2>3
  <1>15. CASE UNCHANGED sessionVars
    BY <1>15, TypesUntouched DEF sessionVars
  <1>. QED
    BY <1>1, <1>2, <1>3, <1>4, <1>8, <1>9, <1>10, <1>11, <1>12, <1>13, <1>14, <1>15 DEF SessionNext

-----------------------------------------------------------------------------
(* The broker, the owner's coroutines and the connection *)

LEMMA BindKept ==
    ASSUME SessionInv, Client(ClientStep)
    PROVE  bind' = bind \/ bind' = "yes"
  BY ClientEffects DEF ClientEffect, Idle, Halt, AskAck, TakeRequest, AskEnable, AskResume, DoResume,
     AcceptRefusal, GiveUpResume, Transmit, TakeAck, TakeIgnored, TakeStanza, Unheard

LEMMA ControlKept ==
    ASSUME SessionInv, [SessionNext]_sessionVars
    PROVE  ClientControl'
  <1>0. TypeOK /\ ControlInv /\ ClientControl
    BY DEF SessionInv, IInv
  <1>. USE <1>0 DEF ClientControl, Running, NoResume, OwnerIdle, smVars, futVars, taskVars, opVars, connVars
  <1>1. ASSUME ClientStep, bind' = bind \/ bind' = "yes" PROVE ClientControl'
    <2>1. ASSUME NEW t \in Tokens, Enqueue(t) PROVE ClientControl'
      BY <1>1, <2>1 DEF Enqueue
    <2>2. ASSUME NEW t \in Tokens, Abort(t) PROVE ClientControl'
      BY <1>1, <2>2 DEF Abort
    <2>3. CASE BrokerStart
      BY <1>1, <2>3 DEF BrokerStart
    <2>4. CASE BrokerNeverRuns
      BY <1>1, <2>4 DEF BrokerNeverRuns
    <2>5. CASE BrokerWake
      BY <1>1, <2>5 DEF BrokerWake, Serve, LockFree
    <2>6. CASE BrokerLocks
      BY <1>1, <2>6 DEF BrokerLocks, Serve, LockFree
    <2>7. CASE SendFirst
      BY <1>1, <2>7 DEF SendFirst, ControlInv, Yielded
    <2>8. CASE SendNext
      BY <1>1, <2>8 DEF SendNext, ControlInv, Yielded
    <2>9. CASE BatchDone
      BY <1>1, <2>9 DEF BatchDone, ControlInv, Yielded
    <2>10. CASE BatchRaises
      <3>1. Terminate("error") /\ smop = "none" /\ smEnabled /\ bind # "asked"
        BY <2>10 DEF BatchRaises, ControlInv, Yielded
      <3>2. /\ broker' = "none" /\ ~cancel' /\ "stanza" \notin classes' /\ UNCHANGED <<smop, rsop, notified>>
            /\ conn' = "open" => conn = "open"
            /\ smEnabled' => smEnabled /\ "nonza" \notin classes'
        BY <3>1 DEF Terminate, Cleanup, DestroyState, LockFree, SMOff
      <3>. QED
        BY <1>1, <2>10, <3>1, <3>2 DEF BatchRaises, ControlInv
    <2>11. CASE ProcessStanza
      BY <1>1, <2>11 DEF ProcessStanza, IncomingDone, ControlInv, Yielded
    <2>12. CASE ProcessAck
      BY <1>1, <2>12 DEF ProcessAck, IncomingDone, ControlInv, Yielded
    <2>13. CASE ProcessRequest
      BY <1>1, <2>13 DEF ProcessRequest, IncomingDone, ControlInv, Yielded
    <2>14. CASE ProcessRaises
      <3>1. Terminate("error") /\ smop = "none" /\ smEnabled /\ bind # "asked"
        BY <2>14 DEF ProcessRaises, ControlInv, Yielded
      <3>2. /\ broker' = "none" /\ ~cancel' /\ "stanza" \notin classes' /\ UNCHANGED <<smop, rsop, notified>>
            /\ conn' = "open" => conn = "open"
            /\ smEnabled' => smEnabled /\ "nonza" \notin classes'
        BY <3>1 DEF Terminate, Cleanup, DestroyState, LockFree, SMOff
      <3>. QED
        BY <1>1, <2>14, <3>1, <3>2 DEF ProcessRaises, ControlInv
    <2>15. CASE BrokerCancelled
      BY <1>1, <2>15 DEF BrokerCancelled, Terminate, Cleanup, DestroyState, LockFree, SMOff, ControlInv
    <2>16. CASE FinalLocked
      BY <1>1, <2>16 DEF FinalLocked, Cleanup, DestroyState, LockFree, SMOff
    <2>17. CASE FinalCancelled
      BY <1>1, <2>17 DEF FinalCancelled
    <2>18. CASE GetActive
      BY <1>1, <2>18 DEF GetActive
    <2>19. CASE GetIncoming
      BY <1>1, <2>19 DEF GetIncoming
    <2>20. CASE Start /\ ~smEnabled
      BY <1>1, <2>20 DEF Start, Commit
    <2>21. CASE StartSM /\ bind = "yes"
      BY <1>1, <2>21 DEF StartSM
    <2>22. CASE ResumeSM
      BY <1>1, <2>22 DEF ResumeSM
    <2>23. CASE Stop /\ notified
      BY <1>1, <2>23 DEF Stop
    <2>24. CASE StartSMAnswered \/ StartSMDies
      BY <1>1, <2>24 DEF StartSMAnswered, StartSMDies, ReleaseLock
    <2>25. CASE Resumed
      BY <1>1, <2>25 DEF Resumed, Commit, ResumeOver, ControlInv
    <2>26. CASE ResumeRaises
      BY <1>1, <2>26 DEF ResumeRaises, ResumeOver, ControlInv
    <2>27. CASE ResumeRefused
      BY <1>1, <2>27 DEF ResumeRefused, ResumeOver, SMOff, ControlInv
    <2>28. CASE ResumeDies /\ notified
      BY <1>1, <2>28 DEF ResumeDies, ResumeOver, ControlInv
    <2>29. CASE ConnFails
      BY <1>1, <2>29 DEF ConnFails
    <2>30. CASE PeerEof
      BY <1>1, <2>30 DEF PeerEof
    <2>31. CASE ConnGone
      BY <1>1, <2>31 DEF ConnGone
    <2>32. CASE OnClosing
      BY <1>1, <2>32 DEF OnClosing
    <2>. QED
      BY <1>1, <2>1, <2>2, <2>3, <2>4, <2>5, <2>6, <2>7, <2>8, <2>9, <2>10, <2>11, <2>12, <2>13,
         <2>14, <2>15, <2>16, <2>17, <2>18, <2>19, <2>20, <2>21, <2>22, <2>23, <2>24, <2>25, <2>26,
         <2>27, <2>28, <2>29, <2>30, <2>31, <2>32 DEF ClientStep, Broker
  <1>2. CASE Client(ClientStep)
    BY <1>1, <1>2, BindKept DEF Client
  <1>3. CASE AskBind
    BY <1>3 DEF AskBind, vars
  <1>4. CASE Reconnect
    BY <1>4 DEF Reconnect, Connect
  <1>5. CASE Receive
    <2>1. bind' = bind
      BY <1>5, ReceiveCases DEF SessionInv, Fetching
    <2>2. CASE \E e \in Element : Recv(e)
      BY <2>1, <2>2 DEF Recv
    <2>3. CASE \E e \in Element : RecvUnknown(e)
      BY <2>1, <2>3 DEF RecvUnknown
    <2>4. CASE \E r \in BOOLEAN : RecvEnabled(r)
      BY <2>1, <2>4 DEF RecvEnabled, ControlInv
    <2>5. CASE RecvSMFailed
      BY <2>1, <2>5 DEF RecvSMFailed
    <2>6. CASE \E h \in Counter : RecvResumed(h)
      BY <2>1, <2>6 DEF RecvResumed
    <2>7. CASE \E h \in Counter \cup {NoCounter} : RecvResumeFailed(h)
      BY <2>1, <2>7 DEF RecvResumeFailed
    <2>. QED
      BY <1>5, <2>2, <2>3, <2>4, <2>5, <2>6, <2>7, ReceiveCases DEF SessionInv
  <1>6. CASE Server
    <2>1. UNCHANGED <<vars, bind>>
      BY <1>6 DEF Server, ServerStep, Reading, HandleBind, HandleStanza, HandleRequest, HandleAck,
         HandleEnable, RefuseEnable, HandleResume, RefuseResume, SendInbound, RequestAck
    <2>. QED
      BY <2>1 DEF vars
  <1>7. CASE UNCHANGED sessionVars
    BY <1>7 DEF sessionVars, vars
  <1>. QED
    BY <1>2, <1>3, <1>4, <1>5, <1>6, <1>7 DEF SessionNext

-----------------------------------------------------------------------------
(* The binding of the resource *)

LEMMA BindingStep ==
    ASSUME SessionInv, [SessionNext]_sessionVars
    PROVE  Binding'
  <1>0. TypeOK /\ ControlInv /\ SessionTypeOK /\ ClientControl /\ Binding /\ Enabling /\ Resuming
    BY DEF SessionInv, IInv
  <1>0a. BindReply \in ToClient
    BY ElementTypes, SessionAssumption DEF BindReply
  <1>a. ToSet(incoming) \subseteq ToSet(Pipe) /\ ToSet(s2c) \subseteq ToSet(Pipe)
    BY <1>0, PipeView
  <1>1. CASE Client(ClientStep)
    <2>1. UNCHANGED <<s2c, link>> /\ ClientEffect
      BY <1>1, ClientEffects DEF serverVars
    <2>. USE DEF Binding
    <2>2. CASE Idle
      BY <1>0, <1>a, <2>1, <2>2 DEF Idle, Unheard, SMKept
    <2>3. CASE Halt
      <3>1. Within(Pipe', Pipe)
        BY <1>0, <2>1, <2>3, PipeHalted
      <3>2. incoming' = <<>> => BindReply \notin ToSet(incoming')
        BY ElementsOfEmpty
      <3>. QED
        BY <1>0, <1>a, <2>1, <2>3, <3>1, <3>2 DEF Halt, Unheard, Within
    <2>4. ASSUME NEW e \in ToServer, e # Bind, c2s' = Append(c2s, e),
                 UNCHANGED <<bind, smEnabled, conn>>, Within(Pipe', Pipe), UNCHANGED incoming,
                 Running' = Running
          PROVE  Binding'
      <3>1. ToSet(c2s') = ToSet(c2s) \cup {e}
        BY <1>0, <2>4, WritingView
      <3>2. Before(c2s', Bind, Bind) => Before(c2s, Bind, Bind)
        BY <1>0, <2>4, WritingView
      <3>. QED
        BY <1>0, <2>1, <2>4, <3>1, <3>2 DEF Within
    <2>5. ASSUME NEW t \in Tokens, Transmit(t) PROVE Binding'
      BY <2>1, <2>4, <2>5, Kinds, ElementTypes DEF Transmit, Busy, Within, Pipe
    <2>6. CASE AskAck
      BY <2>1, <2>4, <2>6, Kinds, ElementTypes DEF AskAck, Busy, SMKept, Within, Pipe
    <2>7. CASE AskEnable
      BY <2>1, <2>4, <2>7, Kinds, ElementTypes DEF AskEnable, SMKept, Within, Pipe, Running
    <2>8. CASE AskResume
      <3>1. inCtr \in Counter
        BY <1>0 DEF TypeOK
      <3>. QED
        BY <2>1, <2>4, <2>8, <3>1, Kinds, ElementTypes DEF AskResume, SMKept, Within, Pipe, Running
    <2>9. CASE TakeRequest
      <3>1. inCtr \in Counter
        BY <1>0 DEF TypeOK
      <3>2. Within(Pipe', Pipe)
        BY <1>0, <2>9, PipeTaken DEF TakeRequest
      <3>. QED
        BY <2>1, <2>4, <2>9, <3>1, <3>2, Kinds, ElementTypes DEF TakeRequest, Take, Busy, SMKept
    <2>10. ASSUME NEW e, Take(e), Unheard, UNCHANGED smEnabled PROVE Binding'
      <3>1. Within(Pipe', Pipe)
        BY <1>0, <2>10, PipeTaken
      <3>. QED
        BY <1>0, <2>1, <2>10, <3>1 DEF Take, Busy, Unheard, Within
    <2>11. ASSUME NEW h \in Counter, TakeAck(h) PROVE Binding'
      BY <2>10, <2>11 DEF TakeAck
    <2>12. ASSUME NEW e \in Element, TakeIgnored(e) PROVE Binding'
      BY <2>10, <2>12 DEF TakeIgnored, SMKept
    <2>13. ASSUME NEW m \in Inbound, TakeStanza(m) PROVE Binding'
      <3>1. Take(Stanza(m)) /\ c2s' = c2s /\ UNCHANGED smEnabled
        BY <2>13 DEF TakeStanza
      <3>2. Within(Pipe', Pipe) /\ ToSet(Pipe) = {Stanza(m)} \cup ToSet(Pipe')
        BY <1>0, <3>1, PipeTaken
      <3>3. CASE m # BindResult
        BY <1>0, <2>1, <2>13, <3>1, <3>2, <3>3 DEF TakeStanza, Take, Busy, Within
      <3>4. CASE m = BindResult
        <4>1. Stanza(m) = BindReply /\ bind' = "yes" /\ Running' /\ UNCHANGED incoming
          BY <2>13, <3>1, <3>4 DEF TakeStanza, BindReply, Take, Busy
        <4>2. Before(Pipe, BindReply, BindReply)
                 <=> Before(Pipe', BindReply, BindReply) \/ BindReply \in ToSet(Pipe')
          BY <1>0, <3>1, <4>1, PipeTaken
        <4>. QED
          BY <1>0, <3>1, <3>2, <4>1, <4>2
      <3>. QED
        BY <3>3, <3>4
    <2>14. CASE DoResume
      BY <1>0, <2>1, <2>14 DEF DoResume, Unheard, Pipe, Running
    <2>15. CASE AcceptRefusal
      BY <1>0, <2>1, <2>15 DEF AcceptRefusal, Unheard, Pipe, Running, Resuming
    <2>16. CASE GiveUpResume
      BY <1>0, <2>1, <2>16 DEF GiveUpResume, Unheard, SMKept, Pipe, Running
    <2>. QED
      BY <2>1, <2>2, <2>3, <2>5, <2>6, <2>7, <2>8, <2>9, <2>11, <2>12, <2>13, <2>14, <2>15, <2>16
      DEF ClientEffect
  <1>2. CASE AskBind
    <2>1. /\ broker = "wait" /\ ~smEnabled /\ bind = "no" /\ conn = "open" /\ bind' = "asked"
          /\ c2s' = Append(c2s, Bind) /\ UNCHANGED <<vars, s2c, serverVars>>
      BY <1>2 DEF AskBind, Bind
    <2>2. /\ ToSet(c2s') = ToSet(c2s) \cup {Bind}
          /\ \A x, y : Before(c2s', x, y) <=> Before(c2s, x, y) \/ (x \in ToSet(c2s) /\ y = Bind)
      BY <1>0, <2>1, WritingView, ElementTypes
    <2>3. Pipe' = Pipe /\ UNCHANGED <<conn, smEnabled, broker, incoming, link>>
      BY <2>1 DEF vars, futVars, connVars, smVars, taskVars, serverVars, Pipe
    <2>. QED
      BY <1>0, <2>1, <2>2, <2>3 DEF Binding, Running
  <1>3. CASE Reconnect
    <2>1. /\ c2s' = <<>> /\ s2c' = <<>> /\ bind' = "no" /\ link' = "plain"
          /\ ~Running /\ UNCHANGED <<ifut, incoming, broker>>
      BY <1>3 DEF Reconnect, Connect, futVars, taskVars
    <2>2. ifut = <<>> /\ BindReply \notin ToSet(incoming)
      BY <1>0, <2>1 DEF ControlInv, Running, Binding
    <2>3. incoming \in Seq(ToClient)
      BY <1>0, PipeTypes
    <2>4. Pipe' = incoming
      BY <2>1, <2>2, <2>3 DEF Pipe
    <2>5. ~Before(incoming, BindReply, BindReply)
      BY <2>2, <2>3, BeforeMembers
    <2>. QED
      BY <2>1, <2>2, <2>4, <2>5, ElementsOfEmpty, BeforeEmpty DEF Binding
  <1>4. CASE Receive
    <2>1. UNCHANGED <<c2s, bind, link>> /\ Within(Pipe', Pipe)
      BY <1>4, ReceiveCases, ReceivePipe DEF SessionInv, Fetching, serverVars
    <2>2. CASE ReceiveQueued
      <3>1. ToSet(incoming') = ToSet(incoming) \cup {Head(s2c)} /\ Head(s2c) \in ToSet(s2c)
        BY <1>0, <2>2, PipeReceived, ElementsInSet DEF ReceiveQueued, Still, Fetching, SessionTypeOK
      <3>2. ~Running => BindReply \notin ToSet(incoming')
        <4>. SUFFICES ASSUME ~Running, BindReply \in ToSet(incoming') PROVE FALSE
          OBVIOUS
        <4>1. BindReply = Head(s2c) /\ bind = "asked"
          BY <1>0, <1>a, <3>1 DEF Binding
        <4>2. "stanza" \in classes
          BY <2>2, <4>1, Kinds DEF ReceiveQueued, ClassOf
        <4>. QED
          BY <1>0, <4>1, <4>2 DEF ClientControl
      <3>. QED
        BY <1>0, <2>1, <2>2, <3>2 DEF Binding, Within, ReceiveQueued, Still, SMKept, Running
    <2>3. CASE ReceiveUnknown
      BY <1>0, <2>1, <2>3 DEF Binding, Within, ReceiveUnknown, Still, SMKept, Running
    <2>4. CASE ReceiveRefused
      BY <1>0, <2>1, <2>4 DEF Binding, Within, ReceiveRefused, Still, SMKept, Running
    <2>5. ASSUME NEW r, ReceiveEnabled(r) PROVE Binding'
      BY <1>0, <2>1, <2>5 DEF Binding, Within, ReceiveEnabled, Still, Running
    <2>6. ASSUME NEW h, ReceiveResumed(h) \/ ReceiveResumeFailed(h) PROVE Binding'
      BY <1>0, <2>1, <2>6 DEF Binding, Within, ReceiveResumed, ReceiveResumeFailed, Still, SMKept, Running
    <2>. QED
      BY <1>4, <2>2, <2>3, <2>4, <2>5, <2>6, ReceiveEffects
  <1>5. CASE Server
    <2>. USE DEF Binding
    <2>1. UNCHANGED <<broker, conn, smEnabled, ifut, incoming, bind>>
      BY <1>5, ServerFrame DEF vars, futVars, connVars, smVars, taskVars
    <2>2. Within(c2s', c2s)
      BY <1>0, <1>5, ServerReads
    <2>3. ASSUME link' = link, UNCHANGED s2c PROVE Binding'
      BY <1>0, <2>1, <2>2, <2>3 DEF Within, Running, Pipe
    <2>4. ASSUME NEW e, Answers(e), e.k # "stanza" \/ e.m # BindResult, link' = link \/ bind = "yes"
          PROVE  Binding'
      <3>1. e # BindReply
        BY <2>4, Kinds
      <3>2. BindReply \in ToSet(Pipe') => BindReply \in ToSet(Pipe)
        BY <1>0, <2>1, <2>4, <3>1, PipeSent DEF Answers
      <3>3. ~Before(Pipe', BindReply, BindReply)
        BY <1>0, <2>1, <2>4, <3>1, PipeSent DEF Answers
      <3>. QED
        BY <1>0, <2>1, <2>2, <2>4, <3>2, <3>3 DEF Within, Running
    <2>5. CASE HandleBind
      <3>1. Reading(Bind) /\ link' = "bound" /\ Answers(BindReply)
        BY <1>0, <2>5, ServerAnswers DEF HandleBind, Bind
      <3>2. Bind \in ToSet(c2s) /\ Bind \notin ToSet(c2s')
        BY <1>0, <3>1, ReadingView
      <3>3. BindReply \notin ToSet(Pipe) /\ bind = "asked"
        BY <1>0, <3>2
      <3>4. ~Before(Pipe', BindReply, BindReply)
        BY <1>0, <2>1, <3>1, <3>3, PipeSent DEF Answers
      <3>. QED
        BY <1>0, <2>1, <2>2, <3>1, <3>2, <3>3, <3>4 DEF Within, Running
    <2>6. CASE HandleStanza
      BY <1>0, <2>3, <2>6, ServerAnswers DEF HandleStanza
    <2>7. CASE HandleRequest
      BY <1>0, <2>3, <2>4, <2>7, ServerAnswers, Kinds DEF HandleRequest, serverVars
    <2>8. CASE HandleAck
      BY <1>0, <2>3, <2>8, ServerAnswers DEF HandleAck
    <2>9. CASE HandleEnable
      <3>1. Enable \in ToSet(c2s)
        BY <1>0, <2>9, ReadingView DEF HandleEnable, Enable
      <3>2. bind = "yes"
        BY <1>0, <3>1, Kinds DEF Enabling, Has
      <3>. QED
        BY <1>0, <2>4, <2>9, <3>2, ServerAnswers, AnswerKinds
    <2>10. CASE RefuseEnable
      BY <1>0, <2>4, <2>10, ServerAnswers, AnswerKinds DEF RefuseEnable, serverVars
    <2>11. CASE HandleResume
      <3>1. ResumeGranted
        BY <2>11, ResumeView
      <3>2. BindReply \notin ToSet(incoming)
        BY <1>0, <3>1 DEF ResumeGranted
      <3>3. BindReply \notin ToSet(s2c')
        <4>1. BindReply # Resumption(sess.h)
          BY Kinds, AnswerKinds
        <4>2. sess'.out \in Seq(Numbered) /\ BindResult \notin ToSet(sess'.out)
          BY <3>1, ElementsInSet DEF ResumeGranted, Numbered
        <4>3. \A m \in ToSet(sess'.out) : Stanza(m) # BindReply
          BY <4>2, Kinds
        <4>. QED
          BY <3>1, <4>1, <4>3 DEF ResumeGranted
      <3>4. BindReply \notin ToSet(Pipe')
        BY <3>1, <3>2, <3>3 DEF ResumeGranted
      <3>5. ~Before(Pipe', BindReply, BindReply)
        BY <3>1, <3>4, BeforeMembers DEF ResumeGranted
      <3>. QED
        BY <2>1, <3>1, <3>2, <3>4, <3>5, ElementsOfEmpty, BeforeEmpty DEF ResumeGranted, Running
    <2>12. CASE RefuseResume
      BY <1>0, <2>4, <2>12, ServerAnswers, AnswerKinds DEF RefuseResume
    <2>13. CASE SendInbound
      BY <1>0, <2>4, <2>13, ServerAnswers, Kinds DEF SendInbound, Numbered
    <2>14. CASE RequestAck
      BY <1>0, <2>4, <2>14, ServerAnswers, Kinds DEF RequestAck
    <2>. QED
      BY <1>5, <2>5, <2>6, <2>7, <2>8, <2>9, <2>10, <2>11, <2>12, <2>13, <2>14 DEF Server
  <1>6. CASE UNCHANGED sessionVars
    BY <1>0, <1>6 DEF Binding, sessionVars, vars, serverVars, futVars, connVars, smVars, taskVars, Pipe, Running
  <1>. QED
    BY <1>1, <1>2, <1>3, <1>4, <1>5, <1>6 DEF SessionNext

-----------------------------------------------------------------------------
(* Enabling Stream Management *)

LEMMA HasWithin ==
    ASSUME NEW p, NEW q, Within(p, q)
    PROVE  /\ \A k : Has(p, k) => Has(q, k)
           /\ \A K : Once(q, K) => Once(p, K)
  BY DEF Has, Once, Within

LEMMA HasAppend ==
    ASSUME NEW S, NEW q \in Seq(S), NEW e \in S
    PROVE  /\ \A k : Has(Append(q, e), k) <=> Has(q, k) \/ e.k = k
           /\ \A K : Once(q, K) /\ (e.k \notin K \/ \A k \in K : ~Has(q, k)) => Once(Append(q, e), K)
  <1>1. ToSet(Append(q, e)) = ToSet(q) \cup {e}
    BY ElementsOfAppend
  <1>2. \A x, y : Before(Append(q, e), x, y) <=> Before(q, x, y) \/ (x \in ToSet(q) /\ y = e)
    BY BeforeAppend
  <1>3. \A x, y : Before(q, x, y) => x \in ToSet(q) /\ y \in ToSet(q)
    BY BeforeMembers
  <1>. QED
    BY <1>1, <1>2, <1>3 DEF Has, Once

LEMMA HasTail ==
    ASSUME NEW S, NEW q \in Seq(S), q # <<>>
    PROVE  /\ \A k : Has(q, k) <=> Has(Tail(q), k) \/ Head(q).k = k
           /\ \A K : Once(q, K) /\ Head(q).k \in K => \A k \in K : ~Has(Tail(q), k)
           /\ Within(Tail(q), q)
  <1>1. ToSet(q) = ToSet(Tail(q)) \cup {Head(q)}
    BY ElementsOfTail
  <1>2. \A x, y : Before(q, x, y) <=> Before(Tail(q), x, y) \/ (x = Head(q) /\ y \in ToSet(Tail(q)))
    BY BeforeTail
  <1>. QED
    BY <1>1, <1>2, WithinTail DEF Has, Once

LEMMA HasNothing == \A k : ~Has(<<>>, k)
  BY ElementsOfEmpty DEF Has

LEMMA OnceNothing == \A K : Once(<<>>, K)
  BY ElementsOfEmpty DEF Once

\* The same for the two channels.
LEMMA WriteKinds ==
    ASSUME SessionTypeOK, NEW e \in ToServer, c2s' = Append(c2s, e)
    PROVE  /\ \A k : Has(c2s', k) <=> Has(c2s, k) \/ e.k = k
           /\ \A K : Once(c2s, K) /\ (e.k \notin K \/ \A k \in K : ~Has(c2s, k)) => Once(c2s', K)
  BY HasAppend DEF SessionTypeOK

LEMMA ReadKinds ==
    ASSUME SessionTypeOK, NEW e, Reading(e)
    PROVE  /\ \A k : Has(c2s, k) <=> Has(c2s', k) \/ e.k = k
           /\ \A K : Once(c2s, K) => Once(c2s', K)
           /\ \A K : Once(c2s, K) /\ e.k \in K => \A k \in K : ~Has(c2s', k)
  <1>1. c2s \in Seq(ToServer) /\ c2s # <<>> /\ c2s' = Tail(c2s) /\ e = Head(c2s)
    BY DEF SessionTypeOK, Reading
  <1>. QED
    BY <1>1, HasTail, HasWithin

LEMMA AnswerKindsSent ==
    ASSUME SessionTypeOK, NEW e, Answers(e)
    PROVE  /\ \A k : Has(s2c', k) <=> Has(s2c, k) \/ e.k = k
           /\ \A K : Once(s2c, K) /\ (e.k \notin K \/ \A k \in K : ~Has(s2c, k)) => Once(s2c', K)
  BY HasAppend DEF SessionTypeOK, Answers

LEMMA FetchKinds ==
    ASSUME SessionTypeOK, Fetching
    PROVE  /\ \A k : Has(s2c, k) <=> Has(s2c', k) \/ Head(s2c).k = k
           /\ \A K : Once(s2c, K) => Once(s2c', K)
           /\ \A K : Once(s2c, K) /\ Head(s2c).k \in K => \A k \in K : ~Has(s2c', k)
  <1>1. s2c \in Seq(ToClient) /\ s2c # <<>> /\ s2c' = Tail(s2c)
    BY DEF SessionTypeOK, Fetching
  <1>. QED
    BY <1>1, HasTail, HasWithin

LEMMA ResumeKinds ==
    ASSUME ResumeGranted
    PROVE  \A k : Has(s2c', k) => k \in {"resumed", "stanza"}
  <1>1. \A m : Stanza(m).k = "stanza"
    BY Kinds
  <1>2. Resumption(sess.h).k = "resumed"
    BY AnswerKinds
  <1>. QED
    BY <1>1, <1>2 DEF ResumeGranted, Has

LEMMA EnablingStep ==
    ASSUME SessionInv, [SessionNext]_sessionVars
    PROVE  Enabling'
  <1>0. TypeOK /\ ControlInv /\ SessionTypeOK /\ ClientControl /\ Binding /\ Enabling /\ Resuming
    BY DEF SessionInv, IInv
  <1>0a. inCtr \in Counter
    BY <1>0 DEF TypeOK
  <1>. USE <1>0 DEF Enabling, Running
  <1>1. CASE Client(ClientStep)
    <2>1. UNCHANGED <<s2c, link, sess>> /\ ClientEffect
      BY <1>1, ClientEffects DEF serverVars
    <2>. USE <2>1
    <2>2. CASE Idle
      BY <2>2 DEF Idle, Unheard, SMKept
    <2>3. CASE Halt
      BY <2>3 DEF Halt, Unheard
    <2>4. ASSUME NEW t \in Tokens, Transmit(t) PROVE Enabling'
      <3>1. /\ \A k : Has(c2s', k) <=> Has(c2s, k) \/ k = "stanza"
            /\ Once(c2s', {"enable"})
        BY <2>4, WriteKinds, ElementTypes, Kinds DEF Transmit
      <3>2. ~Has(c2s, "enable") /\ ~Has(s2c, "enabled") /\ ~Has(s2c, "enablefailed")
        BY <2>4 DEF Transmit, Busy
      <3>3. Enable \notin ToSet(c2s')
        BY <3>1, <3>2, Kinds DEF Has
      <3>4. c2s' \in Seq(ToServer)
        BY <2>4, ElementTypes DEF Transmit, SessionTypeOK
      <3>5. \A u : ~Before(c2s', Enable, Stanza(u))
        BY <3>3, <3>4, BeforeMembers
      <3>. QED
        BY <2>4, <3>1, <3>2, <3>5 DEF Transmit, Busy
    <2>5. ASSUME NEW e \in ToServer, c2s' = Append(c2s, e), e.k \in {"a", "r"}, smEnabled, Running, Running',
                 UNCHANGED <<smEnabled, bind, conn, smop>>
          PROVE  Enabling'
      <3>1. /\ \A k : Has(c2s', k) <=> Has(c2s, k) \/ k = e.k
            /\ Once(c2s', {"enable"})
        BY <2>5, WriteKinds
      <3>2. \A t : Before(c2s', Enable, Stanza(t)) => Before(c2s, Enable, Stanza(t))
        BY <2>5, WritingView, Kinds
      <3>. QED
        BY <2>5, <3>1, <3>2
    <2>6. CASE AskAck
      BY <2>5, <2>6, ElementTypes, Kinds DEF AskAck, Busy, SMKept
    <2>7. CASE TakeRequest
      BY <1>0a, <2>5, <2>7, ElementTypes, Kinds DEF TakeRequest, Take, Busy, SMKept
    <2>8. CASE AskEnable
      <3>1. ~Has(c2s, "enable") /\ ~Has(s2c, "enabled") /\ ~Has(s2c, "enablefailed")
        BY <2>8 DEF AskEnable
      <3>2. /\ \A k : Has(c2s', k) <=> Has(c2s, k) \/ k = "enable"
            /\ Once(c2s', {"enable"})
        BY <2>8, <3>1, WriteKinds, ElementTypes, Kinds DEF AskEnable
      <3>3. \A t : Before(c2s', Enable, Stanza(t)) => Before(c2s, Enable, Stanza(t))
        BY <2>8, WritingView, ElementTypes, Kinds DEF AskEnable
      <3>4. smop' = "requested" /\ ~smEnabled /\ ~smEnabled' /\ bind = "yes" /\ bind' = "yes"
            /\ conn = "open" /\ conn' = "open"
        BY <2>8 DEF AskEnable, SMKept
      <3>5. link # "sm"
        BY <3>1, <3>4
      <3>. QED
        BY <3>1, <3>2, <3>3, <3>4, <3>5
    <2>9. CASE AskResume
      <3>1. smEnabled /\ UNCHANGED <<smEnabled, bind, conn, broker, smop>>
        BY <2>9 DEF AskResume, SMKept
      <3>2. /\ \A k : Has(c2s', k) <=> Has(c2s, k) \/ k = "resume"
            /\ Once(c2s', {"enable"})
        BY <1>0a, <2>9, WriteKinds, ElementTypes, Kinds DEF AskResume
      <3>3. \A t : Before(c2s', Enable, Stanza(t)) => Before(c2s, Enable, Stanza(t))
        BY <1>0a, <2>9, WritingView, ElementTypes, Kinds DEF AskResume
      <3>. QED
        BY <3>1, <3>2, <3>3
    <2>10. ASSUME NEW e, Take(e), UNCHANGED <<c2s, smEnabled>>, bind' = bind \/ bind' = "yes"
           PROVE  Enabling'
      BY <2>10 DEF Take, Busy
    <2>11. ASSUME NEW m \in Inbound, TakeStanza(m) PROVE Enabling'
      BY <2>10, <2>11 DEF TakeStanza
    <2>12. ASSUME NEW h \in Counter, TakeAck(h) PROVE Enabling'
      BY <2>10, <2>12 DEF TakeAck, Unheard
    <2>13. ASSUME NEW e \in Element, TakeIgnored(e) PROVE Enabling'
      BY <2>10, <2>13 DEF TakeIgnored, Unheard, SMKept
    <2>14. CASE DoResume
      BY <2>14 DEF DoResume, Unheard, Resuming
    <2>15. CASE AcceptRefusal
      <3>1. c2s = <<>> /\ s2c = <<>> /\ link = "plain"
        BY <2>15 DEF AcceptRefusal, Resuming
      <3>. QED
        BY <2>15, <3>1, HasNothing DEF AcceptRefusal, Unheard
    <2>16. CASE GiveUpResume
      BY <2>16 DEF GiveUpResume, Unheard, SMKept
    <2>. QED
      BY <2>1, <2>2, <2>3, <2>4, <2>6, <2>7, <2>8, <2>9, <2>11, <2>12, <2>13, <2>14, <2>15, <2>16
      DEF ClientEffect
  <1>2. CASE AskBind
    <2>1. bind = "no" /\ c2s' = Append(c2s, Bind) /\ UNCHANGED <<vars, s2c, serverVars>>
      BY <1>2 DEF AskBind, Bind
    <2>2. UNCHANGED <<smEnabled, conn, broker, smop, s2c, link, sess>>
      BY <2>1 DEF vars, connVars, smVars, taskVars, opVars, serverVars
    <2>3. /\ \A k : Has(c2s', k) <=> Has(c2s, k) \/ k = "bind"
          /\ Once(c2s', {"enable"})
      BY <2>1, WriteKinds, ElementTypes, Kinds
    <2>4. \A t : Before(c2s', Enable, Stanza(t)) => Before(c2s, Enable, Stanza(t))
      BY <2>1, WritingView, ElementTypes, Kinds
    <2>. QED
      BY <2>1, <2>2, <2>3, <2>4
  <1>3. CASE Reconnect
    <2>1. c2s' = <<>> /\ s2c' = <<>> /\ link' = "plain" /\ ~Running /\ UNCHANGED <<broker, smEnabled>>
      BY <1>3 DEF Reconnect, Connect, taskVars, smVars
    <2>. QED
      BY <2>1, HasNothing, OnceNothing, BeforeEmpty
  <1>4. CASE Receive
    <2>1. UNCHANGED <<c2s, bind, link, sess>> /\ Fetching
      BY <1>4, ReceiveCases DEF Fetching, serverVars
    <2>2. /\ \A k : Has(s2c, k) <=> Has(s2c', k) \/ Head(s2c).k = k
          /\ Once(s2c', Replies)
          /\ Head(s2c).k \in Replies => ~Has(s2c', "enabled") /\ ~Has(s2c', "enablefailed")
      BY <2>1, FetchKinds DEF Replies
    <2>. USE <2>1, <2>2
    <2>3. CASE ReceiveQueued
      BY <2>3, KindOfElement DEF ReceiveQueued, Still, SMKept
    <2>4. CASE ReceiveUnknown
      BY <2>4, KindOfElement DEF ReceiveUnknown, Still, SMKept
    <2>5. CASE ReceiveRefused
      <3>1. Head(s2c).k = "enablefailed"
        BY <2>5, AnswerKinds DEF ReceiveRefused
      <3>2. ~Has(c2s, "enable") /\ ~Has(s2c', "enabled") /\ ~Has(s2c', "enablefailed") /\ ~Has(s2c, "enabled")
        BY <3>1 DEF Replies
      <3>. QED
        BY <2>5, <3>2 DEF ReceiveRefused, Still, SMKept
    <2>6. ASSUME NEW r \in BOOLEAN, ReceiveEnabled(r) PROVE Enabling'
      <3>1. Head(s2c).k = "enabled"
        BY <2>6, AnswerKinds DEF ReceiveEnabled
      <3>2. /\ ~Has(c2s, "enable") /\ ~Has(s2c', "enabled") /\ ~Has(s2c', "enablefailed")
            /\ link = "sm"
        BY <3>1 DEF Replies
      <3>. QED
        BY <2>6, <3>2 DEF ReceiveEnabled, Still
    <2>7. ASSUME NEW h, ReceiveResumed(h) PROVE Enabling'
      <3>1. Head(s2c).k = "resumed"
        BY <2>7, AnswerKinds DEF ReceiveResumed, Resumption
      <3>. QED
        BY <2>7, <3>1 DEF ReceiveResumed, Still, SMKept
    <2>8. ASSUME NEW h, ReceiveResumeFailed(h) PROVE Enabling'
      <3>1. Head(s2c).k = "resumefailed"
        BY <2>8, AnswerKinds DEF ReceiveResumeFailed
      <3>. QED
        BY <2>8, <3>1 DEF ReceiveResumeFailed, Still, SMKept
    <2>. QED
      BY <1>4, <2>3, <2>4, <2>5, <2>6, <2>7, <2>8, ReceiveEffects
  <1>5. CASE Server
    <2>1. UNCHANGED <<broker, conn, smEnabled, smop, bind>>
      BY <1>5, ServerFrame DEF vars, connVars, smVars, taskVars, opVars
    <2>2. /\ \A k : Has(c2s', k) => Has(c2s, k)
          /\ Once(c2s', {"enable"})
          /\ \A t \in Tokens : ~Before(c2s', Enable, Stanza(t))
      BY <1>5, ServerReads, HasWithin DEF Within
    <2>. USE <2>1, <2>2
    <2>3. ASSUME NEW e, Answers(e), e.k \notin Replies
          PROVE  /\ \A k \in Replies : Has(s2c', k) <=> Has(s2c, k)
                 /\ Once(s2c', Replies)
      BY <2>3, AnswerKindsSent
    <2>4. CASE HandleBind
      <3>1. /\ bind = "asked" /\ link = "plain" /\ link' = "bound" /\ UNCHANGED sess
        <4>1. Reading(Bind) /\ link' = "bound" /\ UNCHANGED sess
          BY <2>4 DEF HandleBind, Bind
        <4>2. Bind \in ToSet(c2s)
          BY <4>1, ReadingView
        <4>. QED
          BY <4>1, <4>2 DEF Binding
      <3>2. (\A k \in Replies : Has(s2c', k) <=> Has(s2c, k)) /\ Once(s2c', Replies)
        BY <2>3, <2>4, ServerAnswers, Kinds DEF Replies
      <3>. QED
        BY <3>1, <3>2 DEF ClientControl, Replies
    <2>5. CASE HandleStanza
      <3>1. PICK t \in Tokens : /\ Reading(Stanza(t)) /\ UNCHANGED <<s2c, link>>
                                /\ sess' = IF link = "sm" THEN [sess EXCEPT !.h = (@ + 1) % W] ELSE sess
        BY <2>5 DEF HandleStanza
      <3>2. sess'.on = sess.on
        BY <3>1 DEF SessionTypeOK, SessionRecord
      <3>3. Has(c2s, "stanza")
        BY <3>1, ReadKinds, Kinds
      <3>. QED
        BY <3>1, <3>2, <3>3
    <2>6. CASE HandleRequest
      <3>1. CASE UNCHANGED s2c
        BY <2>6, <3>1 DEF HandleRequest, serverVars
      <3>2. CASE Answers(SMAck(sess.h))
        <4>1. (\A k \in Replies : Has(s2c', k) <=> Has(s2c, k)) /\ Once(s2c', Replies)
          BY <2>3, <3>2, Kinds DEF Replies
        <4>. QED
          BY <2>6, <4>1 DEF HandleRequest, serverVars, Replies
      <3>. QED
        BY <2>6, <3>1, <3>2, ServerAnswers
    <2>7. CASE HandleAck
      <3>1. PICK h \in Counter : Reading(SMAck(h)) /\ sess' = IF link = "sm" THEN AckedBy(sess, h) ELSE sess
        BY <2>7 DEF HandleAck
      <3>2. sess'.on = sess.on
        BY <3>1, AckedByType
      <3>3. Has(c2s, "a")
        BY <3>1, ReadKinds, Kinds
      <3>. QED
        BY <2>7, <3>2, <3>3 DEF HandleAck
    <2>8. ASSUME Reading(Enable)
          PROVE  /\ bind = "yes" /\ ~smEnabled /\ link # "sm" /\ (conn = "open" => smop = "requested")
                 /\ ~Has(s2c, "enabled") /\ ~Has(s2c, "enablefailed")
                 /\ ~Has(c2s', "enable") /\ ~Has(c2s', "stanza") /\ ~Has(c2s', "a") /\ ~Has(c2s', "r")
      <3>1. Has(c2s, "enable") /\ ~Has(c2s', "enable")
        BY <2>8, ReadKinds, Kinds
      <3>2. ~Has(c2s', "stanza")
        <4>. SUFFICES ASSUME Has(c2s', "stanza") PROVE FALSE
          OBVIOUS
        <4>1. PICK x \in ToSet(c2s') : x.k = "stanza"
          BY DEF Has
        <4>2. x \in ToServer
          BY <2>8, <4>1, ReadingView, ElementsInSet DEF SessionTypeOK, Within
        <4>3. \E t \in Tokens : x = Stanza(t)
          BY <4>1, <4>2, Kinds DEF ToServer
        <4>4. Before(c2s, Enable, x)
          BY <2>8, <4>1, ReadingView
        <4>. QED
          BY <4>3, <4>4
      <3>. QED
        BY <3>1, <3>2
    <2>9. CASE HandleEnable
      <3>1. PICK r \in ServerResumes : sess' = [NoSession EXCEPT !.on = TRUE, !.resumable = r]
        BY <2>9 DEF HandleEnable
      <3>2. sess'.on /\ sess'.h = 0 /\ sess'.base = 0
        BY <3>1 DEF NoSession
      <3>3. PICK q \in BOOLEAN : Answers([k |-> "enabled", resume |-> q])
        BY <2>9, ServerAnswers
      <3>4. Reading(Enable) /\ link' = "sm"
        BY <2>9 DEF HandleEnable, Enable
      <3>5. /\ \A k : Has(s2c', k) <=> Has(s2c, k) \/ k = "enabled"
            /\ Once(s2c', Replies)
        BY <2>8, <3>3, <3>4, AnswerKindsSent, AnswerKinds DEF Replies
      <3>. QED
        BY <2>8, <3>2, <3>4, <3>5
    <2>10. CASE RefuseEnable
      <3>1. Answers([k |-> "enablefailed"]) /\ Reading(Enable) /\ UNCHANGED <<link, sess>>
        BY <2>10, ServerAnswers DEF RefuseEnable, Enable, serverVars
      <3>2. /\ \A k : Has(s2c', k) <=> Has(s2c, k) \/ k = "enablefailed"
            /\ Once(s2c', Replies)
        BY <2>8, <3>1, AnswerKindsSent, AnswerKinds DEF Replies
      <3>. QED
        BY <2>8, <3>1, <3>2
    <2>11. CASE HandleResume
      <3>1. ResumeGranted
        BY <2>11, ResumeView
      <3>2. \A k \in Replies : ~Has(s2c', k)
        BY <3>1, ResumeKinds DEF Replies
      <3>3. sess'.on
        BY <1>0a, <3>1, AckedByType DEF ResumeGranted
      <3>4. Once(s2c', Replies)
        BY <3>2 DEF Once, Has
      <3>. QED
        BY <3>1, <3>2, <3>3, <3>4, HasNothing DEF ResumeGranted, Replies
    <2>12. CASE RefuseResume
      <3>1. link = "plain" /\ link' = link
        <4>1. PICK h \in Counter : Reading(Resume(h)) /\ link' = link
          BY <2>12 DEF RefuseResume, Resume
        <4>2. Has(c2s, "resume")
          BY <4>1, ReadKinds, Kinds
        <4>. QED
          BY <4>1, <4>2 DEF Resuming
      <3>2. (\A k \in Replies : Has(s2c', k) <=> Has(s2c, k)) /\ Once(s2c', Replies)
        BY <2>3, <2>12, ServerAnswers, AnswerKinds DEF Replies
      <3>. QED
        BY <3>1, <3>2 DEF Replies
    <2>13. CASE SendInbound \/ RequestAck
      <3>1. (\A k \in Replies : Has(s2c', k) <=> Has(s2c, k)) /\ Once(s2c', Replies)
        BY <2>3, <2>13, ServerAnswers, Kinds DEF Replies
      <3>2. sess'.on = sess.on /\ sess'.h = sess.h /\ sess'.base = sess.base
        BY <2>13 DEF SendInbound, RequestAck, SessionTypeOK, SessionRecord
      <3>. QED
        BY <2>13, <3>1, <3>2 DEF SendInbound, RequestAck, Replies
    <2>. QED
      BY <1>5, <2>4, <2>5, <2>6, <2>7, <2>9, <2>10, <2>11, <2>12, <2>13 DEF Server
  <1>6. CASE UNCHANGED sessionVars
    BY <1>6 DEF sessionVars, vars, serverVars, connVars, smVars, taskVars, opVars
  <1>. QED
    BY <1>1, <1>2, <1>3, <1>4, <1>5, <1>6 DEF SessionNext

-----------------------------------------------------------------------------
(* Resuming the session *)

LEMMA ResumingStep ==
    ASSUME SessionInv, [SessionNext]_sessionVars
    PROVE  Resuming'
  <1>0. TypeOK /\ ControlInv /\ SessionTypeOK /\ ClientControl /\ Binding /\ Enabling /\ Resuming
    BY DEF SessionInv, IInv
  <1>0a. inCtr \in Counter
    BY <1>0 DEF TypeOK
  <1>0b. c2s \in Seq(ToServer) /\ s2c \in Seq(ToClient) /\ sess \in SessionRecord
    BY <1>0 DEF SessionTypeOK
  <1>0c. NoResume.at = "none" /\ NoResume.h = NoCounter
    BY DEF NoResume
  <1>. USE <1>0, <1>0c DEF Resuming, Running
  <1>1. CASE Client(ClientStep)
    <2>1. UNCHANGED <<s2c, link, sess>> /\ ClientEffect
      BY <1>1, ClientEffects DEF serverVars
    <2>. USE <2>1
    <2>2. CASE Idle
      BY <2>2 DEF Idle, Unheard, SMKept
    <2>3. CASE Halt
      BY <2>3 DEF Halt, Unheard
    <2>4. ASSUME NEW e \in ToServer, c2s' = Append(c2s, e), e.k # "resume", Running, Running', rsop = NoResume, rsop' = rsop
          PROVE  Resuming'
      <3>1. \A k : Has(c2s', k) <=> Has(c2s, k) \/ k = e.k
        BY <2>4, WriteKinds
      <3>. QED
        BY <2>4, <3>1
    <2>5. ASSUME NEW t \in Tokens, Transmit(t) PROVE Resuming'
      BY <2>4, <2>5, ElementTypes, Kinds DEF Transmit, Busy
    <2>6. CASE AskAck
      BY <2>4, <2>6, ElementTypes, Kinds DEF AskAck, Busy
    <2>7. CASE TakeRequest
      BY <1>0a, <2>4, <2>7, ElementTypes, Kinds DEF TakeRequest, Take, Busy
    <2>8. CASE AskEnable
      BY <2>4, <2>8, ElementTypes, Kinds DEF AskEnable
    <2>9. CASE AskResume
      <3>1. c2s = <<>> /\ s2c = <<>> /\ link = "plain"
        BY <2>9 DEF AskResume
      <3>2. c2s' = <<Resume(inCtr)>>
        BY <2>9, <3>1 DEF AskResume
      <3>. QED
        BY <2>9, <3>1, <3>2, HasNothing DEF AskResume, SMKept
    <2>10. ASSUME NEW e, Take(e), UNCHANGED c2s PROVE Resuming'
      BY <2>10 DEF Take, Busy
    <2>11. ASSUME NEW m \in Inbound, TakeStanza(m) PROVE Resuming'
      BY <2>10, <2>11 DEF TakeStanza
    <2>12. ASSUME NEW h \in Counter, TakeAck(h) PROVE Resuming'
      BY <2>10, <2>12 DEF TakeAck, Unheard
    <2>13. ASSUME NEW e \in Element, TakeIgnored(e) PROVE Resuming'
      BY <2>10, <2>13 DEF TakeIgnored, Unheard
    <2>14. CASE DoResume
      <3>1. ~Has(c2s, "resume")
        BY <2>14, HasNothing DEF DoResume
      <3>. QED
        BY <2>14, <3>1 DEF DoResume, Unheard
    <2>15. CASE AcceptRefusal
      BY <2>15, HasNothing DEF AcceptRefusal, Unheard
    <2>16. CASE GiveUpResume
      BY <2>16 DEF GiveUpResume, Unheard, SMKept
    <2>. QED
      BY <2>1, <2>2, <2>3, <2>5, <2>6, <2>7, <2>8, <2>9, <2>11, <2>12, <2>13, <2>14, <2>15, <2>16
      DEF ClientEffect
  <1>2. CASE AskBind
    <2>1. broker = "wait" /\ c2s' = Append(c2s, Bind) /\ UNCHANGED <<vars, s2c, serverVars>>
      BY <1>2 DEF AskBind, Bind
    <2>2. UNCHANGED <<smEnabled, inCtr, conn, broker, rsop, s2c, link, sess>>
      BY <2>1 DEF vars, connVars, smVars, taskVars, opVars, serverVars
    <2>3. \A k : Has(c2s', k) <=> Has(c2s, k) \/ k = "bind"
      BY <2>1, WriteKinds, ElementTypes, Kinds
    <2>. QED
      BY <2>1, <2>2, <2>3 DEF ControlInv
  <1>3. CASE Reconnect
    <2>1. c2s' = <<>> /\ s2c' = <<>> /\ link' = "plain" /\ rsop = NoResume /\ rsop' = rsop
      BY <1>3 DEF Reconnect, Connect, opVars, OwnerIdle
    <2>. QED
      BY <2>1, HasNothing
  <1>4. CASE Receive
    <2>1. UNCHANGED <<c2s, link, sess>> /\ Fetching
      BY <1>4, ReceiveCases DEF Fetching, serverVars
    <2>2. /\ \A k : Has(s2c, k) <=> Has(s2c', k) \/ Head(s2c).k = k
          /\ \A K : Once(s2c, K) /\ Head(s2c).k \in K => \A k \in K : ~Has(s2c', k)
          /\ s2c # <<>>
      BY <2>1, FetchKinds DEF Fetching
    <2>3. ~Has(s2c', "resumed")
      <3>. SUFFICES ASSUME Has(s2c', "resumed") PROVE FALSE
        OBVIOUS
      <3>1. Head(s2c).k = "resumed" /\ Once(s2c, {"resumed"})
        BY <2>2, AnswerKinds DEF Resumption
      <3>. QED
        BY <2>2, <3>1
    <2>4. ~Has(s2c', "resumefailed")
      <3>. SUFFICES ASSUME Has(s2c', "resumefailed") PROVE FALSE
        OBVIOUS
      <3>1. Len(s2c) = 1
        BY <2>2
      <3>2. s2c' = <<>>
        BY <1>0b, <2>1, <3>1 DEF Fetching
      <3>. QED
        BY <3>2, HasNothing
    <2>. USE <2>1, <2>2, <2>3, <2>4
    <2>5. CASE ReceiveQueued
      BY <2>5 DEF ReceiveQueued, Still, SMKept
    <2>6. CASE ReceiveUnknown
      BY <2>6 DEF ReceiveUnknown, Still, SMKept
    <2>7. CASE ReceiveRefused
      BY <2>7 DEF ReceiveRefused, Still, SMKept, ClientControl
    <2>8. ASSUME NEW r \in BOOLEAN, ReceiveEnabled(r) PROVE Resuming'
      BY <2>8 DEF ReceiveEnabled, Still, ClientControl
    <2>9. ASSUME NEW h \in Counter, ReceiveResumed(h) PROVE Resuming'
      <3>1. Head(s2c).k = "resumed" /\ Head(s2c).h = h
        BY <2>9, AnswerKinds DEF ReceiveResumed, Resumption
      <3>2. Head(s2c) = Resumption(sess.h) /\ c2s = <<>> /\ link = "sm"
        BY <3>1 DEF Resumption
      <3>3. h = sess.h
        BY <3>1, <3>2, AnswerKinds
      <3>4. rsop' = [at |-> "resumed", h |-> h]
        BY <2>9 DEF ReceiveResumed
      <3>. QED
        BY <3>2, <3>3, <3>4, HasNothing
    <2>10. ASSUME NEW h \in Counter \cup {NoCounter}, ReceiveResumeFailed(h) PROVE Resuming'
      <3>1. Head(s2c).k = "resumefailed"
        BY <2>10, AnswerKinds DEF ReceiveResumeFailed
      <3>2. Len(s2c) = 1 /\ c2s = <<>> /\ link = "plain" /\ ~sess.on
        BY <3>1
      <3>3. s2c' = <<>>
        BY <1>0b, <3>2 DEF Fetching
      <3>4. rsop' = [at |-> "refused", h |-> h]
        BY <2>10 DEF ReceiveResumeFailed
      <3>. QED
        BY <3>2, <3>3, <3>4, HasNothing
    <2>. QED
      BY <1>4, <2>5, <2>6, <2>7, <2>8, <2>9, <2>10, ReceiveEffects
  <1>5. CASE Server
    <2>1. UNCHANGED <<broker, conn, smEnabled, inCtr, rsop, bind>>
      BY <1>5, ServerFrame DEF vars, connVars, smVars, taskVars, opVars
    <2>. USE <2>1
    <2>2. ASSUME NEW e, Reading(e), e.k # "resume" PROVE c2s # <<>> /\ ~Has(c2s, "resume") /\ ~Has(c2s', "resume")
      <3>1. c2s # <<>> /\ Head(c2s) = e
        BY <2>2 DEF Reading
      <3>2. ~Has(c2s, "resume")
        BY <2>2, <3>1, Kinds
      <3>3. Within(c2s', c2s)
        BY <2>2, ReadingView
      <3>. QED
        BY <3>1, <3>2, <3>3, HasWithin
    <2>3. ASSUME NEW e, Reading(e), e.k # "resume",
                 \/ UNCHANGED s2c
                 \/ \E a : Answers(a) /\ a.k \notin {"resumed", "resumefailed"}
          PROVE  Resuming'
      <3>1. \A k \in {"resumed", "resumefailed"} : Has(s2c', k) <=> Has(s2c, k)
        BY <2>3, AnswerKindsSent
      <3>. QED
        BY <2>2, <2>3, <3>1
    <2>4. CASE HandleBind
      BY <2>3, <2>4, ServerAnswers, Kinds DEF HandleBind, Bind
    <2>5. CASE HandleStanza
      BY <2>3, <2>5, ServerAnswers, Kinds DEF HandleStanza
    <2>6. CASE HandleRequest
      BY <2>3, <2>6, ServerAnswers, Kinds DEF HandleRequest
    <2>7. CASE HandleAck
      BY <2>3, <2>7, ServerAnswers, Kinds DEF HandleAck
    <2>8. CASE HandleEnable
      BY <2>3, <2>8, ServerAnswers, Kinds, AnswerKinds DEF HandleEnable, Enable
    <2>9. CASE RefuseEnable
      BY <2>3, <2>9, ServerAnswers, Kinds, AnswerKinds DEF RefuseEnable, Enable
    <2>10. CASE HandleResume
      <3>1. ResumeGranted
        BY <2>10, ResumeView
      <3>2. ~Has(s2c', "resumefailed")
        BY <3>1, ResumeKinds
      <3>3. Once(s2c', {"resumed"})
        <4>1. \A m : Stanza(m).k # "resumed"
          BY Kinds
        <4>2. \A x, y : Before(StanzasOf(sess'.out), x, y) => y \in {Stanza(m) : m \in ToSet(sess'.out)}
          <5>1. /\ StanzasOf(sess'.out) \in Seq(ToClient)
                /\ ToSet(StanzasOf(sess'.out)) = {Stanza(m) : m \in ToSet(sess'.out)}
            BY <3>1, StanzasOfView DEF ResumeGranted
          <5>. QED
            BY <5>1, BeforeMembers
        <4>. QED
          BY <3>1, <4>1, <4>2 DEF Once, ResumeGranted
      <3>4. sess'.h = sess.h
        BY <1>0a, <3>1, AckedByType DEF ResumeGranted
      <3>5. c2s' = <<>> /\ ~Has(c2s', "resume")
        BY <3>1, HasNothing DEF ResumeGranted
      <3>. QED
        BY <3>1, <3>2, <3>3, <3>4, <3>5 DEF ResumeGranted, Resumption
    <2>11. CASE RefuseResume
      <3>1. PICK h \in Counter : Reading(Resume(h)) /\ link' = link /\ sess' = NoSession
        BY <2>11 DEF RefuseResume, Resume
      <3>2. Has(c2s, "resume")
        BY <3>1, ReadKinds, Kinds
      <3>3. c2s = <<Resume(inCtr)>> /\ s2c = <<>> /\ link = "plain" /\ smEnabled /\ ~Running
        BY <3>2
      <3>4. c2s' = <<>> /\ ~Has(c2s', "resume")
        BY <3>1, <3>3, HasNothing DEF Reading
      <3>5. PICK n : Answers([k |-> "resumefailed", h |-> n])
        BY <2>11, ServerAnswers
      <3>6. Len(s2c') = 1
        BY <3>3, <3>5 DEF Answers
      <3>7. ~Has(s2c', "resumed")
        BY <3>3, <3>5, AnswerKindsSent, AnswerKinds, HasNothing
      <3>8. ~sess'.on
        BY <3>1 DEF NoSession
      <3>. QED
        BY <3>1, <3>2, <3>3, <3>4, <3>6, <3>7, <3>8
    <2>12. CASE SendInbound \/ RequestAck
      <3>1. PICK e : Answers(e) /\ e.k \in {"stanza", "r"}
        BY <2>12, ServerAnswers, Kinds
      <3>2. link # "plain" /\ link' = link /\ c2s' = c2s /\ sess'.h = sess.h
        BY <1>0b, <2>12 DEF SendInbound, RequestAck, SessionRecord
      <3>3. /\ \A k \in {"resumed", "resumefailed"} : Has(s2c', k) <=> Has(s2c, k)
            /\ Once(s2c, {"resumed"}) => Once(s2c', {"resumed"})
        BY <3>1, AnswerKindsSent
      <3>4. Has(s2c, "resumed") => Head(s2c') = Head(s2c)
        <4>1. Has(s2c, "resumed") => s2c # <<>>
          BY HasNothing
        <4>. QED
          BY <1>0b, <3>1, <4>1 DEF Answers
      <3>. QED
        BY <3>1, <3>2, <3>3, <3>4
    <2>. QED
      BY <1>5, <2>4, <2>5, <2>6, <2>7, <2>8, <2>9, <2>10, <2>11, <2>12 DEF Server
  <1>6. CASE UNCHANGED sessionVars
    BY <1>6 DEF sessionVars, vars, serverVars, connVars, smVars, taskVars, opVars
  <1>. QED
    BY <1>1, <1>2, <1>3, <1>4, <1>5, <1>6 DEF SessionNext

-----------------------------------------------------------------------------
(* Transmission *)

\* What is under way to the server, when the client writes and the server reads.
LEMMA FlightWithin ==
    ASSUME Within(c2s', c2s)
    PROVE  /\ InFlight' \subseteq InFlight
           /\ \A t, u : Before(c2s', Stanza(t), Stanza(u)) => Before(c2s, Stanza(t), Stanza(u))
  BY DEF Within, InFlight

LEMMA FlightWritten ==
    ASSUME SessionTypeOK, NEW e \in ToServer, e.k # "stanza", c2s' = Append(c2s, e)
    PROVE  /\ InFlight' = InFlight
           /\ \A t, u : Before(c2s', Stanza(t), Stanza(u)) <=> Before(c2s, Stanza(t), Stanza(u))
  <1>1. \A t : Stanza(t) # e
    BY Kinds
  <1>. QED
    BY <1>1, WritingView DEF InFlight

LEMMA FlightSent ==
    ASSUME SessionTypeOK, NEW t \in Tokens, c2s' = Append(c2s, Stanza(t))
    PROVE  /\ InFlight' = InFlight \cup {t}
           /\ \A u, v \in Tokens : Before(c2s', Stanza(u), Stanza(v))
                 <=> Before(c2s, Stanza(u), Stanza(v)) \/ (u \in InFlight /\ v = t)
  <1>1. \A u, v : Stanza(u) = Stanza(v) <=> u = v
    BY Kinds
  <1>2. Stanza(t) \in ToServer
    BY ElementTypes
  <1>3. /\ ToSet(c2s') = ToSet(c2s) \cup {Stanza(t)}
        /\ \A x, y : Before(c2s', x, y) <=> Before(c2s, x, y) \/ (x \in ToSet(c2s) /\ y = Stanza(t))
    BY <1>2, WritingView
  <1>. QED
    BY <1>1, <1>3 DEF InFlight

LEMMA FlightEmpty ==
    /\ c2s = <<>> => InFlight = {} /\ \A x, y : ~Before(c2s, x, y)
    /\ c2s' = <<>> => InFlight' = {} /\ \A x, y : ~Before(c2s', x, y)
  BY ElementsOfEmpty, BeforeEmpty DEF InFlight

LEMMA FlightHandled ==
    ASSUME SessionTypeOK, NEW t \in Tokens, Reading(Stanza(t))
    PROVE  /\ InFlight = InFlight' \cup {t}
           /\ \A u, v \in Tokens : Before(c2s, Stanza(u), Stanza(v))
                 <=> Before(c2s', Stanza(u), Stanza(v)) \/ (u = t /\ v \in InFlight')
  <1>1. \A u, v : Stanza(u) = Stanza(v) <=> u = v
    BY Kinds
  <1>. QED
    BY <1>1, ReadingView DEF InFlight

\* Steps that transmit nothing and have nothing handled.
LEMMA DropType ==
    ASSUME TypeOK, NEW h \in Counter
    PROVE  ToDrop(h) \in Counter /\ ToDrop(h) \in Nat /\ Len(unacked) \in Nat
  <1>1. unacked \in Seq(Tokens) /\ outBase \in Counter
    BY DEF TypeOK
  <1>2. h \in Int /\ outBase \in Int
    BY <1>1, ModulusAssumption DEF Counter
  <1>3. (h - outBase) % W \in 0..(W - 1)
    BY <1>2, ModulusAssumption
  <1>. QED
    BY <1>1, <1>3, ModulusAssumption DEF ToDrop, Counter

LEMMA TransmissionKept ==
    ASSUME SessionTypeOK, Transmission, QueueKept, UNCHANGED handled, InFlight' \subseteq InFlight,
           \A t \in Tokens : ~Before(c2s', Stanza(t), Stanza(t))
    PROVE  Transmission'
  <1>1. Handled' = Handled
    BY DEF Handled
  <1>2. \A t \in Handled \cup InFlight : state[t] \notin {"NEW", "ABORTED", "DROPPED", "FAILED"}
    BY DEF Transmission
  <1>3. Handled \subseteq Tokens /\ InFlight \subseteq Tokens
    BY ElementsInSet DEF SessionTypeOK, Handled, InFlight
  <1>4. \A t \in Handled \cup InFlight : t \notin Queued
    BY DEF Transmission
  <1>5. \A t \in Handled \cup InFlight :
           state'[t] = state[t] \/ state'[t] \in {"SENT_WITHOUT_SM", "DISCONNECTED"}
    BY <1>2, <1>3, <1>4 DEF QueueKept
  <1>6. Queued' \cap (Handled \cup InFlight) = {}
    BY <1>2, <1>4 DEF QueueKept
  <1>7. \A t \in Handled : state'[t] \in {"SENT", "ACKED", "SENT_WITHOUT_SM", "DISCONNECTED"}
    BY <1>5 DEF Transmission
  <1>8. \A t \in InFlight' : state'[t] \in {"SENT", "SENT_WITHOUT_SM", "DISCONNECTED"}
    BY <1>5 DEF Transmission
  <1>9. Handled \cap InFlight' = {} /\ Queued' \cap (Handled \cup InFlight') = {} /\ IsInjective(handled')
    BY <1>6 DEF Transmission
  <1>. QED
    BY <1>1, <1>7, <1>8, <1>9 DEF Transmission

LEMMA TransmissionStep ==
    ASSUME SessionInv, [SessionNext]_sessionVars
    PROVE  Transmission'
  <1>0. /\ TypeOK /\ ControlInv /\ SessionTypeOK /\ ClientControl /\ Binding /\ Enabling /\ Resuming
        /\ Transmission /\ Outbound /\ Acks
    BY DEF SessionInv, IInv
  <1>0a. inCtr \in Counter /\ Handled \subseteq Tokens /\ InFlight \subseteq Tokens
         /\ state \in [Tokens -> TokenState]
    BY <1>0, ElementsInSet DEF TypeOK, SessionTypeOK, Handled, InFlight
  <1>. USE <1>0, <1>0a
  <1>1. CASE Client(ClientStep)
    <2>1. UNCHANGED <<s2c, link, sess, handled>> /\ ClientEffect
      BY <1>1, ClientEffects DEF serverVars
    <2>2. Handled' = Handled
      BY <2>1 DEF Handled
    <2>. USE <2>1, <2>2
    <2>3. ASSUME QueueKept, c2s' = c2s PROVE Transmission'
      <3>1. InFlight' = InFlight /\ \A t \in Tokens : ~Before(c2s', Stanza(t), Stanza(t))
        BY <2>3 DEF InFlight, Transmission
      <3>. QED
        BY <2>3, <3>1, TransmissionKept
    <2>4. ASSUME QueueKept, NEW e \in ToServer, e.k # "stanza", c2s' = Append(c2s, e) PROVE Transmission'
      <3>1. InFlight' = InFlight /\ \A t \in Tokens : ~Before(c2s', Stanza(t), Stanza(t))
        BY <2>4, FlightWritten DEF Transmission
      <3>. QED
        BY <2>4, <3>1, TransmissionKept
    <2>5. CASE Idle
      BY <2>3, <2>5 DEF Idle, Unheard
    <2>6. CASE Halt
      BY <2>3, <2>6 DEF Halt, Unheard
    <2>7. CASE AskAck
      BY <2>4, <2>7, ElementTypes, Kinds DEF AskAck
    <2>8. CASE TakeRequest
      BY <2>4, <2>8, ElementTypes, Kinds DEF TakeRequest
    <2>9. CASE AskEnable
      BY <2>4, <2>9, ElementTypes, Kinds DEF AskEnable
    <2>10. CASE AskResume
      BY <2>4, <2>10, ElementTypes, Kinds DEF AskResume
    <2>11. ASSUME NEW m \in Inbound, TakeStanza(m) PROVE Transmission'
      BY <2>3, <2>11 DEF TakeStanza
    <2>12. ASSUME NEW e \in Element, TakeIgnored(e) PROVE Transmission'
      BY <2>3, <2>12 DEF TakeIgnored, Unheard
    <2>13. CASE GiveUpResume
      BY <2>3, <2>13 DEF GiveUpResume, Unheard
    <2>14. ASSUME NEW t \in Tokens, Transmit(t) PROVE Transmission'
      <3>1. /\ t \in Queued /\ t \notin Queued' /\ Queued' \subseteq Queued
            /\ c2s' = Append(c2s, Stanza(t))
        BY <2>14 DEF Transmit
      <3>2. t \notin Handled /\ t \notin InFlight
        BY <3>1 DEF Transmission
      <3>3. PICK s \in {"SENT", "SENT_WITHOUT_SM"} : state' = [state EXCEPT ![t] = s]
        BY <2>14 DEF Transmit
      <3>4. InFlight' = InFlight \cup {t} /\ \A u \in Tokens : ~Before(c2s', Stanza(u), Stanza(u))
        BY <3>1, <3>2, FlightSent DEF Transmission
      <3>. QED
        BY <3>1, <3>2, <3>3, <3>4 DEF Transmission
    <2>15. ASSUME NEW h \in Counter, TakeAck(h) PROVE Transmission'
      <3>1. /\ smEnabled /\ Running /\ Take(SMAck(h)) /\ ToDrop(h) <= Len(unacked) /\ AckUpTo(h)
            /\ Queued' = Queued /\ c2s' = c2s
        BY <2>15 DEF TakeAck, Take, Busy, Unheard
      <3>2. SMAck(h) \in ToSet(Pipe) /\ link = "sm" /\ sess.on
        BY <3>1, PipeTaken DEF Enabling
      <3>3. ToDrop(h) <= ToDrop(sess.h) /\ Exact(sess.h)
        BY <3>1, <3>2 DEF Acks, Outbound, SessionTypeOK, SessionRecord
      <3>4. sess.h \in Counter
        BY DEF SessionTypeOK, SessionRecord
      <3>5. ToDrop(h) \in Nat /\ ToDrop(sess.h) \in Nat /\ Len(unacked) \in Nat
        BY <3>4, DropType
      <3>6. \A i \in 1..ToDrop(h) : unacked[i] \in Handled
        BY <3>1, <3>3, <3>5 DEF Exact
      <3>7. \A t \in Tokens : state'[t] = state[t] \/ (t \in Handled /\ state'[t] = "ACKED")
        BY <3>1, <3>6 DEF AckUpTo, SetAll
      <3>8. InFlight' = InFlight /\ \A t \in Tokens : ~Before(c2s', Stanza(t), Stanza(t))
        BY <3>1 DEF InFlight, Transmission
      <3>. QED
        BY <3>1, <3>7, <3>8 DEF Transmission
    <2>16. CASE DoResume
      <3>1. /\ rsop.at = "resumed" /\ ToDrop(rsop.h) <= Len(unacked) /\ AckUpTo(rsop.h) /\ c2s' = c2s
            /\ \A t \in Queued' : t \in Queued \/ \E i \in (ToDrop(rsop.h) + 1)..Len(unacked) : t = unacked[i]
        BY <2>16 DEF DoResume, Unheard
      <3>2. c2s = <<>> /\ rsop.h = sess.h /\ rsop.h \in Counter
        BY <3>1 DEF Resuming, ControlInv
      <3>3. InFlight' = {} /\ \A x, y : ~Before(c2s', x, y)
        BY <3>1, <3>2, FlightEmpty
      <3>4. Exact(rsop.h)
        BY <3>2 DEF Outbound, NoCounter, Counter
      <3>5. ToDrop(rsop.h) \in Nat /\ Len(unacked) \in Nat
        BY <3>2, DropType
      <3>6. \A i \in (ToDrop(rsop.h) + 1)..Len(unacked) : unacked[i] \notin Handled
        BY <3>4, <3>5 DEF Exact
      <3>7. \A t \in Tokens : state'[t] = state[t] \/ state'[t] = "ACKED"
        BY <3>1 DEF AckUpTo, SetAll
      <3>. QED
        BY <3>1, <3>3, <3>6, <3>7 DEF Transmission
    <2>17. CASE AcceptRefusal
      <3>1. c2s' = <<>> /\ InFlight' = {} /\ \A x, y : ~Before(c2s', x, y)
        BY <2>17, FlightEmpty DEF AcceptRefusal, Resuming, Unheard
      <3>2. Queued' = {}
        BY <2>17, ElementsOfEmpty DEF AcceptRefusal, Queued, Fetched, ControlInv, Running
      <3>3. \A t \in Tokens : state'[t] = state[t] \/ state'[t] \in {"ACKED", "SENT_WITHOUT_SM", "DISCONNECTED"}
        BY <2>17 DEF AcceptRefusal
      <3>. QED
        BY <3>1, <3>2, <3>3 DEF Transmission
    <2>. QED
      BY <2>1, <2>5, <2>6, <2>7, <2>8, <2>9, <2>10, <2>11, <2>12, <2>13, <2>14, <2>15, <2>16, <2>17
      DEF ClientEffect
  <1>2. ASSUME UNCHANGED <<state, active, afut, broker, handled>>, InFlight' \subseteq InFlight,
               \A t \in Tokens : Before(c2s', Stanza(t), Stanza(t)) => Before(c2s, Stanza(t), Stanza(t))
        PROVE  Transmission'
    BY <1>2, QueueUntouched, TransmissionKept DEF Transmission
  <1>3. CASE AskBind
    <2>1. c2s' = Append(c2s, Bind) /\ UNCHANGED <<state, active, afut, broker, handled>>
      BY <1>3 DEF AskBind, Bind, vars, tokenVars, futVars, taskVars, serverVars
    <2>. QED
      BY <1>2, <2>1, FlightWritten, ElementTypes, Kinds
  <1>4. CASE Reconnect
    <2>1. c2s' = <<>> /\ UNCHANGED <<state, active, afut, broker, handled>>
      BY <1>4 DEF Reconnect, Connect, tokenVars, futVars, taskVars
    <2>. QED
      BY <1>2, <2>1, FlightEmpty
  <1>5. CASE Receive
    <2>1. UNCHANGED <<c2s, handled>>
      BY <1>5, ReceiveCases DEF Fetching, serverVars
    <2>2. Still
      BY <1>5, ReceiveEffects DEF ReceiveQueued, ReceiveUnknown, ReceiveRefused, ReceiveEnabled,
         ReceiveResumed, ReceiveResumeFailed
    <2>3. InFlight' = InFlight
      BY <2>1 DEF InFlight
    <2>. QED
      BY <1>2, <2>1, <2>2, <2>3 DEF Still
  <1>6. CASE Server
    <2>1. UNCHANGED <<state, active, afut, broker>>
      BY <1>6, ServerFrame DEF vars, tokenVars, futVars, taskVars
    <2>2. CASE HandleStanza
      <3>1. PICK t \in Tokens : Reading(Stanza(t)) /\ handled' = Append(handled, t)
        BY <2>2 DEF HandleStanza
      <3>2. /\ InFlight = InFlight' \cup {t}
            /\ \A u, v \in Tokens : Before(c2s, Stanza(u), Stanza(v))
                  <=> Before(c2s', Stanza(u), Stanza(v)) \/ (u = t /\ v \in InFlight')
        BY <3>1, FlightHandled
      <3>3. t \notin Handled /\ t \notin InFlight'
        BY <3>2 DEF Transmission
      <3>4. handled \in Seq(Tokens)
        BY DEF SessionTypeOK
      <3>5. IsInjective(handled') /\ Handled' = Handled \cup {t}
        BY <3>1, <3>3, <3>4, ElementsOfAppend DEF Transmission, Handled
      <3>6. Queued' = Queued
        BY <2>1 DEF Queued, Fetched
      <3>. QED
        BY <2>1, <3>2, <3>3, <3>5, <3>6 DEF Transmission
    <2>3. CASE handled' = handled
      BY <1>2, <1>6, <2>1, <2>3, ServerReads, FlightWithin
    <2>. QED
      BY <1>6, <2>2, <2>3 DEF Server, HandleBind, HandleRequest, HandleAck, HandleEnable, RefuseEnable,
         HandleResume, RefuseResume, SendInbound, RequestAck, serverVars
  <1>7. CASE UNCHANGED sessionVars
    <2>1. UNCHANGED <<c2s, state, active, afut, broker, handled>>
      BY <1>7 DEF sessionVars, vars, serverVars, tokenVars, futVars, taskVars
    <2>2. InFlight' = InFlight
      BY <2>1 DEF InFlight
    <2>. QED
      BY <1>2, <2>1, <2>2
  <1>. QED
    BY <1>1, <1>3, <1>4, <1>5, <1>6, <1>7 DEF SessionNext

-----------------------------------------------------------------------------
(* Counters modulo W *)

LEMMA ModRange ==
    ASSUME NEW a \in Int, -W < a, a < W
    PROVE  a % W = IF a < 0 THEN a + W ELSE a
  <1>1. CASE a < 0
    <2>1. a = W * (-1) + (a + W)
      BY ModulusAssumption
    <2>. QED
      BY <1>1, ModulusAssumption, Z3
  <1>2. CASE a >= 0
    BY <1>2, ModulusAssumption
  <1>. QED
    BY <1>1, <1>2

\* Numbers g that precede h, counted from o.
LEMMA ModDifference ==
    ASSUME NEW o \in Counter, NEW g \in Counter, NEW h \in Counter, (g - o) % W <= (h - o) % W
    PROVE  (h - g) % W = ((h - o) % W) - ((g - o) % W)
  <1>1. o \in Int /\ g \in Int /\ h \in Int /\ o >= 0 /\ g >= 0 /\ h >= 0 /\ o < W /\ g < W /\ h < W
    BY ModulusAssumption DEF Counter
  <1> DEFINE x == (g - o) % W
             y == (h - o) % W
             z == (h - g) % W
  <1>2. /\ x = IF g - o < 0 THEN g - o + W ELSE g - o
        /\ y = IF h - o < 0 THEN h - o + W ELSE h - o
        /\ z = IF h - g < 0 THEN h - g + W ELSE h - g
    <2>1. \A a, b \in Counter : (a - b) % W = IF a - b < 0 THEN a - b + W ELSE a - b
      <3>. TAKE a, b \in Counter
      <3>1. a - b \in Int /\ -W < a - b /\ a - b < W
        BY ModulusAssumption DEF Counter
      <3>. QED
        BY <3>1, ModRange
    <2>. QED
      BY <2>1
  <1>3. x <= y
    OBVIOUS
  <1>. HIDE DEF x, y, z
  <1>4. z = y - x
    BY <1>1, <1>2, <1>3, ModulusAssumption
  <1>. QED
    BY <1>4, Zenon DEF x, y, z

LEMMA ModSuccessor ==
    ASSUME NEW o \in Counter, NEW h \in Counter, ((h - o) % W) + 1 < W
    PROVE  (((h + 1) % W) - o) % W = ((h - o) % W) + 1
  <1> DEFINE g == (h + 1) % W
             x == (h - o) % W
             y == (g - o) % W
  <1>1. o \in Int /\ h \in Int /\ o >= 0 /\ h >= 0 /\ o < W /\ h < W
    BY ModulusAssumption DEF Counter
  <1>2. g = IF h + 1 = W THEN 0 ELSE h + 1
    <2>1. CASE h + 1 = W
      BY <1>1, <2>1, ModulusAssumption
    <2>2. CASE h + 1 # W
      BY <1>1, <2>2, ModRange, ModulusAssumption
    <2>. QED
      BY <2>1, <2>2
  <1>3. x = IF h - o < 0 THEN h - o + W ELSE h - o
    BY <1>1, ModRange, ModulusAssumption
  <1>4. g \in Int /\ -W < g - o /\ g - o < W
    BY <1>1, <1>2, ModulusAssumption
  <1>5. y = IF g - o < 0 THEN g - o + W ELSE g - o
    BY <1>1, <1>4, ModRange, ModulusAssumption
  <1>6. x + 1 < W
    OBVIOUS
  <1>. HIDE DEF x, y, g
  <1>7. y = x + 1
    BY <1>1, <1>2, <1>3, <1>5, <1>6, ModulusAssumption
  <1>. QED
    BY <1>7, Zenon DEF x, y, g

LEMMA ModZero == ASSUME NEW h \in Counter PROVE (h - h) % W = 0
  <1>1. h \in Int /\ h - h = 0
    BY ModulusAssumption DEF Counter
  <1>. QED
    BY <1>1, ModRange, ModulusAssumption

\* A list without repetitions of things numbered below W is shorter than W.
LEMMA ShortList ==
    ASSUME NEW S, IsFiniteSet(S), Cardinality(S) < W, NEW q \in Seq(S), IsInjective(q)
    PROVE  Len(q) < W
  <1> DEFINE n == Len(q)
  <1>1. n \in Nat /\ IsFiniteSet(1..n) /\ Cardinality(1..n) = n
    <2>1. n \in Nat /\ n \in Int /\ 1 \in Int
      OBVIOUS
    <2>2. IsFiniteSet(1..n) /\ Cardinality(1..n) = IF 1 > n THEN 0 ELSE n - 1 + 1
      BY <2>1, FS_Interval
    <2>. HIDE DEF n
    <2>3. (IF 1 > n THEN 0 ELSE n - 1 + 1) = n
      BY <2>1
    <2>. QED
      BY <2>1, <2>2, <2>3
  <1>2. q \in Injection(1..n, S)
    BY DEF IsInjective, Injection
  <1>3. Cardinality(1..n) <= Cardinality(S)
    BY <1>1, <1>2, FS_Injection
  <1>4. Cardinality(S) \in Nat
    BY FS_CardinalityType
  <1>. QED
    BY <1>1, <1>3, <1>4, ModulusAssumption

LEMMA HeldTypes == ASSUME TypeOK PROVE Unsettled \subseteq Tokens /\ IsFiniteSet(Unsettled)
  <1>1. Unsettled \subseteq Tokens
    BY PlaceTypes DEF Unsettled, Unacked
  <1>2. IsFiniteSet(Tokens)
    BY SessionAssumption
  <1>. QED
    BY <1>1, <1>2, FS_Subset


\* The list after its first n elements keeps their order.
LEMMA BeforeSplit ==
    ASSUME NEW S, NEW q \in Seq(S), NEW n \in 0..Len(q)
    PROVE  LET rest == SubSeq(q, n + 1, Len(q))
           IN  /\ Len(rest) = Len(q) - n /\ \A i \in 1..(Len(q) - n) : rest[i] = q[n + i]
               /\ \A x, y : Before(rest, x, y) => Before(q, x, y)
               /\ IsInjective(q) => \A x, y : Before(q, x, y) /\ x \in ToSet(rest) => Before(rest, x, y)
  <1> DEFINE rest == SubSeq(q, n + 1, Len(q))
  <1>1. /\ rest \in Seq(S) /\ Len(rest) = Len(q) - n /\ \A i \in 1..Len(rest) : rest[i] = q[n + i]
        /\ Len(q) \in Nat /\ DOMAIN q = 1..Len(q)
    OBVIOUS
  <1>. HIDE DEF rest
  <1>2. ASSUME NEW x, NEW y, Before(rest, x, y) PROVE Before(q, x, y)
    <2>1. PICK i, j \in 1..Len(rest) : i < j /\ rest[i] = x /\ rest[j] = y
      BY <1>2 DEF Before
    <2>2. n + i \in 1..Len(q) /\ n + j \in 1..Len(q) /\ n + i < n + j /\ q[n + i] = x /\ q[n + j] = y
      BY <1>1, <2>1
    <2>. QED
      BY <2>2 DEF Before
  <1>3. ASSUME IsInjective(q), NEW x, NEW y, Before(q, x, y), x \in ToSet(rest) PROVE Before(rest, x, y)
    <2>1. PICK i, j \in 1..Len(q) : i < j /\ q[i] = x /\ q[j] = y
      BY <1>3 DEF Before
    <2>2. PICK k \in 1..Len(rest) : rest[k] = x
      BY <1>1, <1>3 DEF ToSet
    <2>3. q[n + k] = x /\ n + k \in 1..Len(q)
      BY <1>1, <2>2
    <2>4. n + k = i
      BY <1>1, <1>3, <2>1, <2>3 DEF IsInjective
    <2>5. j - n \in 1..Len(rest) /\ k < j - n /\ rest[j - n] = y
      <3>1. /\ j \in Nat /\ n \in Nat /\ k \in Nat /\ k >= 1 /\ i < j /\ i = n + k
            /\ j <= Len(q) /\ Len(rest) = Len(q) - n
        BY <1>1, <2>1, <2>2, <2>4
      <3>2. j - n \in 1..Len(rest) /\ k < j - n /\ n + (j - n) = j
        BY <1>1, <3>1
      <3>. QED
        BY <1>1, <2>1, <3>2
    <2>. QED
      BY <2>2, <2>5 DEF Before
  <1>4. Len(rest) = Len(q) - n /\ \A i \in 1..(Len(q) - n) : rest[i] = q[n + i]
    BY <1>1
  <1>. QED
    BY <1>2, <1>3, <1>4 DEF rest

-----------------------------------------------------------------------------
(* What the server's counter covers of the unacked stanzas *)

Covers(h, base, list, done) ==
    /\ (h - base) % W <= Len(list)
    /\ \A i \in 1..Len(list) : list[i] \in done <=> i <= (h - base) % W

LEMMA ExactCovers ==
    /\ \A h : Exact(h) <=> Covers(h, outBase, unacked, Handled)
    /\ \A h : Exact(h)' <=> Covers(h, outBase', unacked', Handled')
    /\ Exact(sess.h)' <=> Covers(sess'.h, outBase', unacked', Handled')
    /\ Exact(rsop.h)' <=> Covers(rsop'.h, outBase', unacked', Handled')
  BY DEF Exact, Covers, ToDrop

LEMMA CoversEmpty == ASSUME NEW h \in Counter, NEW done PROVE Covers(h, h, <<>>, done)
  BY ModZero DEF Covers

LEMMA CoversAppend ==
    ASSUME NEW S, NEW list \in Seq(S), NEW t \in S, NEW done, t \notin done, NEW h \in Counter,
           NEW base \in Counter, Covers(h, base, list, done)
    PROVE  Covers(h, base, Append(list, t), done)
  <1> DEFINE n == (h - base) % W
  <1>1. n \in Nat
    BY ModulusAssumption DEF Counter
  <1>2. n <= Len(list) /\ \A i \in 1..Len(list) : list[i] \in done <=> i <= n
    BY DEF Covers
  <1>. HIDE DEF n
  <1>3. n <= Len(Append(list, t)) /\ \A i \in 1..Len(Append(list, t)) : Append(list, t)[i] \in done <=> i <= n
    BY <1>1, <1>2
  <1>. QED
    BY <1>3 DEF Covers, n

LEMMA CoversDrop ==
    ASSUME NEW S, NEW list \in Seq(S), NEW done, NEW base \in Counter, NEW g \in Counter, NEW h \in Counter,
           Covers(h, base, list, done), (g - base) % W <= (h - base) % W
    PROVE  Covers(h, g, SubSeq(list, ((g - base) % W) + 1, Len(list)), done)
  <1> DEFINE n == (h - base) % W
             m == (g - base) % W
             d == (h - g) % W
             rest == SubSeq(list, m + 1, Len(list))
  <1>1. n \in Nat /\ m \in Nat /\ m <= n
    BY ModulusAssumption DEF Counter
  <1>2. n <= Len(list) /\ \A i \in 1..Len(list) : list[i] \in done <=> i <= n
    BY DEF Covers
  <1>3. d = n - m
    BY ModDifference
  <1>. HIDE DEF n, m, d
  <1>4. m \in 0..Len(list)
    BY <1>1, <1>2
  <1>5. Len(rest) = Len(list) - m /\ \A i \in 1..(Len(list) - m) : rest[i] = list[m + i]
    BY <1>4, BeforeSplit
  <1>. HIDE DEF rest
  <1>6. d <= Len(rest)
    BY <1>1, <1>2, <1>3, <1>5
  <1>7. ASSUME NEW i \in 1..Len(rest) PROVE rest[i] \in done <=> i <= d
    <2>1. rest[i] = list[m + i] /\ m + i \in 1..Len(list)
      BY <1>1, <1>5, <1>4
    <2>2. m + i <= n <=> i <= d
      BY <1>1, <1>3
    <2>. QED
      BY <1>2, <2>1, <2>2
  <1>8. Covers(h, g, rest, done)
    BY <1>6, <1>7 DEF Covers, d
  <1>. QED
    BY <1>8 DEF rest, m

LEMMA CoversNext ==
    ASSUME NEW S, NEW list \in Seq(S), IsInjective(list), Len(list) < W, NEW done, NEW t,
           NEW base \in Counter, NEW h \in Counter, Covers(h, base, list, done),
           ((h - base) % W) + 1 \in 1..Len(list), list[((h - base) % W) + 1] = t
    PROVE  Covers((h + 1) % W, base, list, done \cup {t})
  <1> DEFINE n == (h - base) % W
             k == (((h + 1) % W) - base) % W
  <1>1. n \in Nat
    BY ModulusAssumption DEF Counter
  <1>2. n <= Len(list) /\ \A i \in 1..Len(list) : list[i] \in done <=> i <= n
    BY DEF Covers
  <1>3. n + 1 \in 1..Len(list) /\ list[n + 1] = t
    OBVIOUS
  <1>4. n + 1 < W
    BY <1>1, <1>3, ModulusAssumption
  <1>5. k = n + 1
    BY <1>4, ModSuccessor
  <1>. HIDE DEF n, k
  <1>6. ASSUME NEW i \in 1..Len(list) PROVE list[i] \in done \cup {t} <=> i <= n + 1
    <2>1. list[i] = t <=> i = n + 1
      BY <1>3 DEF IsInjective
    <2>. QED
      BY <1>1, <1>2, <2>1
  <1>7. k <= Len(list) /\ \A i \in 1..Len(list) : list[i] \in done \cup {t} <=> i <= k
    BY <1>1, <1>3, <1>5, <1>6
  <1>. QED
    BY <1>7 DEF Covers, k

\* Steps that change neither what is unacked nor what was handled.
LEMMA OutboundKept ==
    ASSUME Outbound, UNCHANGED <<outBase, unacked, handled>>, InFlight' = InFlight \/ InFlight' = {},
           \A t, u \in Tokens : Before(c2s', Stanza(t), Stanza(u)) => Before(c2s, Stanza(t), Stanza(u)),
           smEnabled' => smEnabled,
           smEnabled' /\ sess'.on => sess.on /\ sess'.h = sess.h,
           smEnabled' /\ InFlight' # {} => link' \in {"sm", link},
           smEnabled' /\ Running' => Running /\ InFlight' = InFlight,
           s2c' = s2c \/ \A h \in Counter : s2c' # <<[k |-> "resumefailed", h |-> h]>>,
           rsop'.h = rsop.h \/ rsop'.h = NoCounter
    PROVE  Outbound'
  <1>1. Handled' = Handled /\ Unacked' = Unacked
    BY DEF Handled, Unacked
  <1>2. \A h : Exact(h)' <=> Exact(h)
    BY <1>1, ExactCovers
  <1>3. smEnabled' /\ sess'.on => Exact(sess.h)'
    BY <1>1, ExactCovers DEF Outbound
  <1>4. rsop'.h # NoCounter => Exact(rsop.h)'
    BY <1>1, ExactCovers DEF Outbound
  <1>5. \A h \in Counter : s2c' = <<[k |-> "resumefailed", h |-> h]>> => Exact(h)'
    BY <1>2 DEF Outbound
  <1>7. smEnabled' => InFlight' \subseteq Unacked'
    BY <1>1 DEF Outbound
  <1>8. smEnabled' /\ InFlight' # {} => link' = "sm"
    BY DEF Outbound
  <1>9. smEnabled' /\ (Running' \/ InFlight' # {}) => Unacked' \subseteq Handled' \cup InFlight'
    BY <1>1 DEF Outbound
  <1>10. smEnabled' => \A t, u \in Tokens : Before(c2s', Stanza(t), Stanza(u)) => Before(unacked', t, u)
    BY DEF Outbound
  <1>. QED
    BY <1>3, <1>4, <1>5, <1>7, <1>8, <1>9, <1>10 DEF Outbound

\* The server handles the stanzas in the order in which the client remembers them.
LEMMA NextHandled ==
    ASSUME SessionInv, smEnabled, NEW t \in Tokens, Reading(Stanza(t))
    PROVE  /\ link = "sm" /\ sess.on /\ Covers((sess.h + 1) % W, outBase, unacked, Handled \cup {t})
           /\ InFlight = InFlight' \cup {t} /\ Unacked \subseteq Handled \cup InFlight
           /\ ToDrop((sess.h + 1) % W) = ToDrop(sess.h) + 1
  <1>0. TypeOK /\ PlaceInv /\ SessionTypeOK /\ Transmission /\ Outbound /\ Enabling
    BY DEF SessionInv, IInv
  <1>1. /\ unacked \in Seq(Tokens) /\ outBase \in Counter /\ sess.h \in Counter
        /\ IsInjective(unacked)
    BY <1>0 DEF TypeOK, SessionTypeOK, SessionRecord, PlaceInv, AtMostOnePlace
  <1>2. /\ InFlight = InFlight' \cup {t}
        /\ \A u, v \in Tokens : Before(c2s, Stanza(u), Stanza(v))
              <=> Before(c2s', Stanza(u), Stanza(v)) \/ (u = t /\ v \in InFlight')
    BY <1>0, FlightHandled
  <1>3. link = "sm" /\ sess.on /\ t \in Unacked /\ t \notin Handled /\ Unacked \subseteq Handled \cup InFlight
    BY <1>0, <1>2 DEF Outbound, Enabling, Transmission
  <1>4. Covers(sess.h, outBase, unacked, Handled)
    BY <1>0, <1>3, ExactCovers DEF Outbound
  <1> DEFINE n == (sess.h - outBase) % W
  <1>5. n \in Nat /\ n <= Len(unacked) /\ \A i \in 1..Len(unacked) : unacked[i] \in Handled <=> i <= n
    BY <1>1, <1>4, ModulusAssumption DEF Covers, Counter
  <1>. HIDE DEF n
  <1>6. PICK j \in 1..Len(unacked) : unacked[j] = t
    BY <1>1, <1>3 DEF Unacked, ToSet
  <1>7. n < j /\ n + 1 \in 1..Len(unacked)
    BY <1>3, <1>5, <1>6
  <1>8. unacked[n + 1] = t
    <2>. SUFFICES ASSUME unacked[n + 1] # t PROVE FALSE
      OBVIOUS
    <2> DEFINE v == unacked[n + 1]
    <2>1. v \in Unacked /\ v \notin Handled /\ v # t /\ v \in Tokens
      BY <1>1, <1>5, <1>7, InSequence DEF Unacked
    <2>2. v \in InFlight'
      BY <1>2, <1>3, <2>1
    <2>3. Before(c2s, Stanza(t), Stanza(v))
      BY <1>2, <2>1, <2>2
    <2>4. Before(unacked, t, v)
      BY <1>0, <2>1, <2>3 DEF Outbound
    <2>5. PICK a, b \in 1..Len(unacked) : a < b /\ unacked[a] = t /\ unacked[b] = v
      BY <2>4 DEF Before
    <2>6. a = j /\ b = n + 1
      BY <1>1, <1>6, <1>7, <2>5 DEF IsInjective
    <2>. QED
      BY <1>5, <1>7, <2>5, <2>6
  <1>9. Len(unacked) < W
    <2>1. IsFiniteSet(Unsettled) /\ Cardinality(Unsettled) < W
      BY <1>0, HeldTypes DEF SessionInv, Bounded
    <2>2. unacked \in Seq(Unsettled)
      <3>1. \A i \in 1..Len(unacked) : unacked[i] \in Unsettled
        BY <1>1, InSequence DEF Unsettled, Unacked
      <3>. QED
        BY <1>1, <3>1
    <2>. QED
      BY <1>1, <2>1, <2>2, ShortList
  <1>10. Covers((sess.h + 1) % W, outBase, unacked, Handled \cup {t})
    <2>1. ((sess.h - outBase) % W) + 1 \in 1..Len(unacked) /\ unacked[((sess.h - outBase) % W) + 1] = t
      BY <1>7, <1>8 DEF n
    <2>. QED
      BY <1>1, <1>4, <1>9, <2>1, CoversNext
  <1>11. ToDrop((sess.h + 1) % W) = ToDrop(sess.h) + 1
    <2>1. n + 1 < W
      BY <1>5, <1>7, <1>9, ModulusAssumption
    <2>. QED
      BY <1>1, <2>1, ModSuccessor DEF ToDrop, n
  <1>. QED
    BY <1>2, <1>3, <1>10, <1>11

LEMMA OutboundStep ==
    ASSUME SessionInv, [SessionNext]_sessionVars
    PROVE  Outbound'
  <1>0. /\ TypeOK /\ ControlInv /\ PlaceInv /\ SessionTypeOK /\ ClientControl /\ Binding /\ Enabling
        /\ Resuming /\ Transmission /\ Outbound /\ Acks
    BY DEF SessionInv, IInv
  <1>0a. /\ inCtr \in Counter /\ outBase \in Counter /\ unacked \in Seq(Tokens) /\ IsInjective(unacked)
         /\ sess \in SessionRecord /\ sess.h \in Counter /\ s2c \in Seq(ToClient)
         /\ InFlight \subseteq Tokens
    BY <1>0 DEF TypeOK, SessionTypeOK, SessionRecord, PlaceInv, AtMostOnePlace, InFlight
  <1>0b. NoResume.at = "none" /\ NoResume.h = NoCounter /\ rsop.h \in Counter \cup {NoCounter}
    BY <1>0 DEF NoResume, TypeOK
  <1>0c. Running \/ ~smEnabled \/ InFlight # {} \/ link = "sm" =>
            \A h : s2c # <<[k |-> "resumefailed", h |-> h]>>
    <2>. SUFFICES ASSUME NEW h, s2c = <<[k |-> "resumefailed", h |-> h]>>
                  PROVE  ~Running /\ smEnabled /\ InFlight = {} /\ link # "sm"
      OBVIOUS
    <2>1. [k |-> "resumefailed", h |-> h] \in ToSet(s2c)
      BY DEF ToSet
    <2>. QED
      BY <1>0, <2>1, AnswerKinds, FlightEmpty DEF Resuming, Has
  <1>. USE <1>0, <1>0a
  <1>1. CASE Client(ClientStep)
    <2>1. UNCHANGED <<s2c, link, sess, handled>> /\ ClientEffect
      BY <1>1, ClientEffects DEF serverVars
    <2>2. Handled' = Handled
      BY <2>1 DEF Handled
    <2>. USE <2>1, <2>2
    <2>3. ASSUME c2s' = c2s, UNCHANGED <<smEnabled, outBase, unacked>>,
                 smEnabled /\ Running' => Running, rsop'.h = rsop.h \/ rsop'.h = NoCounter
          PROVE  Outbound'
      <3>1. InFlight' = InFlight
        BY <2>3 DEF InFlight
      <3>. QED
        BY <2>3, <3>1, OutboundKept
    <2>4. ASSUME NEW e \in ToServer, e.k # "stanza", c2s' = Append(c2s, e), UNCHANGED <<smEnabled, outBase, unacked>>,
                 smEnabled /\ Running' => Running, rsop'.h = rsop.h \/ rsop'.h = NoCounter
          PROVE  Outbound'
      BY <2>4, FlightWritten, OutboundKept
    <2>5. CASE Idle
      BY <2>3, <2>5 DEF Idle, Unheard, SMKept
    <2>6. ASSUME c2s' = c2s, ~smEnabled', rsop'.h = NoCounter,
                 \A h : s2c # <<[k |-> "resumefailed", h |-> h]>>
          PROVE  Outbound'
      BY <2>6 DEF Outbound
    <2>7. CASE Halt
      <3>1. CASE smEnabled'
        BY <2>3, <2>7, <3>1 DEF Halt, Unheard, SMKept
      <3>2. CASE smEnabled /\ ~smEnabled'
        BY <1>0b, <1>0c, <2>6, <2>7, <3>2 DEF Halt, Unheard
      <3>3. CASE ~smEnabled /\ ~smEnabled'
        BY <1>0b, <1>0c, <2>6, <2>7, <3>3 DEF Halt, Unheard
      <3>. QED
        BY <2>7, <3>1, <3>2, <3>3 DEF Halt
    <2>8. CASE AskAck
      BY <2>4, <2>8, ElementTypes, Kinds DEF AskAck, Busy, SMKept
    <2>9. CASE TakeRequest
      BY <2>4, <2>9, ElementTypes, Kinds DEF TakeRequest, Take, Busy, SMKept
    <2>10. CASE AskEnable
      BY <2>4, <2>10, ElementTypes, Kinds DEF AskEnable, SMKept
    <2>11. CASE AskResume
      <3>1. rsop'.h = NoCounter
        BY <2>11 DEF AskResume
      <3>. QED
        BY <2>4, <2>11, <3>1, ElementTypes, Kinds DEF AskResume, SMKept, Running
    <2>12. ASSUME NEW m \in Inbound, TakeStanza(m) PROVE Outbound'
      BY <2>3, <2>12 DEF TakeStanza, Take, Busy
    <2>13. ASSUME NEW e \in Element, TakeIgnored(e) PROVE Outbound'
      BY <2>3, <2>13 DEF TakeIgnored, Take, Busy, Unheard, SMKept
    <2>14. CASE GiveUpResume
      BY <1>0b, <2>3, <2>14 DEF GiveUpResume, Unheard, SMKept, Running
    <2>15. ASSUME NEW t \in Tokens, Transmit(t) PROVE Outbound'
      <3>1. /\ t \in Queued /\ c2s' = Append(c2s, Stanza(t)) /\ Running /\ Running'
            /\ rsop = NoResume /\ rsop' = rsop /\ UNCHANGED <<smEnabled, outBase>>
            /\ unacked' = IF smEnabled THEN Append(unacked, t) ELSE unacked
        BY <2>15 DEF Transmit, Busy
      <3>2. t \notin Handled /\ t \notin InFlight /\ t \notin Unacked
        BY <3>1 DEF Transmission, PlaceInv, AtMostOnePlace, Queued, Unacked
      <3>3. /\ InFlight' = InFlight \cup {t}
            /\ \A u, v \in Tokens : Before(c2s', Stanza(u), Stanza(v))
                  <=> Before(c2s, Stanza(u), Stanza(v)) \/ (u \in InFlight /\ v = t)
        BY <3>1, FlightSent
      <3>4. CASE smEnabled
        <4>1. /\ unacked' = Append(unacked, t) /\ Unacked' = Unacked \cup {t}
              /\ \A x, y : Before(unacked', x, y) <=> Before(unacked, x, y) \/ (x \in Unacked /\ y = t)
          BY <3>1, <3>4, ElementsOfAppend, BeforeAppend DEF Unacked
        <4>2. link = "sm" /\ sess.on
          BY <3>1, <3>4 DEF Enabling
        <4>3. Exact(sess.h)'
          <5>1. Covers(sess.h, outBase, unacked, Handled)
            BY <3>4, <4>2, ExactCovers DEF Outbound
          <5>2. Covers(sess.h, outBase, Append(unacked, t), Handled)
            BY <3>2, <5>1, CoversAppend
          <5>. QED
            BY <3>1, <4>1, <5>2, ExactCovers
        <4>4. InFlight' \subseteq Unacked' /\ Unacked' \subseteq Handled' \cup InFlight'
          BY <3>1, <3>3, <3>4, <4>1 DEF Outbound
        <4>5. \A u, v \in Tokens : Before(c2s', Stanza(u), Stanza(v)) => Before(unacked', u, v)
          BY <3>3, <3>4, <4>1 DEF Outbound
        <4>. QED
          BY <1>0b, <1>0c, <3>1, <4>2, <4>3, <4>4, <4>5 DEF Outbound
      <3>5. CASE ~smEnabled
        BY <1>0b, <1>0c, <3>1, <3>5 DEF Outbound
      <3>. QED
        BY <3>4, <3>5
    <2>16. ASSUME NEW h \in Counter, TakeAck(h) PROVE Outbound'
      <3>1. /\ smEnabled /\ smEnabled' /\ Running /\ Running' /\ Take(SMAck(h)) /\ ToDrop(h) <= Len(unacked)
            /\ outBase' = h /\ rsop' = NoResume /\ c2s' = c2s
            /\ unacked' = SubSeq(unacked, ToDrop(h) + 1, Len(unacked))
        BY <2>16 DEF TakeAck, Take, Busy, Unheard, AckUpTo
      <3>2. SMAck(h) \in ToSet(Pipe) /\ link = "sm" /\ sess.on
        BY <3>1, PipeTaken DEF Enabling
      <3>3. ToDrop(h) <= ToDrop(sess.h) /\ Covers(sess.h, outBase, unacked, Handled)
        BY <3>1, <3>2, ExactCovers DEF Acks, Outbound
      <3>4. Covers(sess.h, h, unacked', Handled)
        <4>1. (h - outBase) % W <= (sess.h - outBase) % W
          BY <3>3 DEF ToDrop
        <4>2. unacked' = SubSeq(unacked, ((h - outBase) % W) + 1, Len(unacked))
          BY <3>1 DEF ToDrop
        <4>. QED
          BY <3>3, <4>1, <4>2, CoversDrop
      <3>5. Exact(sess.h)'
        BY <3>1, <3>4, ExactCovers
      <3>6. ToDrop(h) \in 0..Len(unacked) /\ Len(unacked) \in Nat
        BY <3>1, DropType
      <3>7. /\ Unacked = {unacked[i] : i \in 1..ToDrop(h)} \cup Unacked'
            /\ \A x, y : Before(unacked, x, y) /\ x \in Unacked' => Before(unacked', x, y)
        BY <3>1, <3>6, ElementsOfSplit, BeforeSplit DEF Unacked
      <3>8. \A i \in 1..ToDrop(h) : unacked[i] \in Handled
        <4>1. Exact(sess.h) /\ ToDrop(sess.h) \in Nat
          BY <3>3, ExactCovers, DropType
        <4>. QED
          BY <3>3, <3>6, <4>1 DEF Exact
      <3>9. InFlight' = InFlight
        BY <3>1 DEF InFlight
      <3>10. InFlight \subseteq Unacked' /\ Unacked' \subseteq Handled \cup InFlight
        BY <3>1, <3>7, <3>8 DEF Outbound, Transmission
      <3>11. \A u, v \in Tokens : Before(c2s', Stanza(u), Stanza(v)) => Before(unacked', u, v)
        <4>. SUFFICES ASSUME NEW u \in Tokens, NEW v \in Tokens, Before(c2s, Stanza(u), Stanza(v))
                     PROVE  Before(unacked', u, v)
          BY <3>1
        <4>1. Before(unacked, u, v)
          BY <3>1 DEF Outbound
        <4>2. Stanza(u) \in ToSet(c2s)
          BY BeforeMembers DEF SessionTypeOK
        <4>. QED
          BY <3>7, <3>10, <4>1, <4>2 DEF InFlight
      <3>. QED
        BY <1>0b, <1>0c, <3>1, <3>2, <3>5, <3>9, <3>10, <3>11 DEF Outbound
    <2>17. CASE DoResume
      <3>1. /\ rsop.at = "resumed" /\ outBase' = rsop.h /\ unacked' = <<>> /\ c2s' = c2s
            /\ rsop' = NoResume
        BY <2>17 DEF DoResume, Unheard, AckUpTo
      <3>2. c2s = <<>> /\ rsop.h = sess.h /\ link = "sm"
        BY <3>1 DEF Resuming
      <3>3. InFlight' = {} /\ (\A x, y : ~Before(c2s', x, y)) /\ Unacked' = {}
        BY <3>1, <3>2, FlightEmpty, ElementsOfEmpty DEF Unacked
      <3>4. Exact(sess.h)'
        <4>1. Covers(sess.h, sess.h, <<>>, Handled)
          BY CoversEmpty
        <4>. QED
          BY <3>1, <3>2, <4>1, ExactCovers
      <3>. QED
        BY <1>0b, <1>0c, <3>1, <3>2, <3>3, <3>4 DEF Outbound
    <2>18. CASE AcceptRefusal
      <3>1. c2s' = c2s /\ ~smEnabled' /\ rsop' = NoResume /\ s2c = <<>>
        BY <2>18 DEF AcceptRefusal, Resuming, Unheard
      <3>. QED
        BY <1>0b, <2>6, <3>1
    <2>. QED
      BY <2>1, <2>5, <2>7, <2>8, <2>9, <2>10, <2>11, <2>12, <2>13, <2>14, <2>15, <2>16, <2>17, <2>18
      DEF ClientEffect
  <1>2. CASE AskBind
    <2>1. c2s' = Append(c2s, Bind) /\ UNCHANGED <<vars, s2c, serverVars>>
      BY <1>2 DEF AskBind, Bind
    <2>2. UNCHANGED <<smEnabled, outBase, unacked, rsop, broker, s2c, link, sess, handled>>
      BY <2>1 DEF vars, tokenVars, smVars, opVars, taskVars, serverVars
    <2>3. Running' = Running
      BY <2>2 DEF Running
    <2>. QED
      BY <2>1, <2>2, <2>3, FlightWritten, ElementTypes, Kinds, OutboundKept
  <1>3. CASE Reconnect
    <2>1. /\ c2s' = <<>> /\ s2c' = <<>> /\ ~Running /\ (sess' = sess \/ sess' = NoSession)
          /\ UNCHANGED <<smEnabled, outBase, unacked, rsop, broker, handled>>
      BY <1>3 DEF Reconnect, Connect, tokenVars, smVars, opVars, taskVars
    <2>2. InFlight' = {} /\ (\A x, y : ~Before(c2s', x, y)) /\ ~Running'
      BY <2>1, FlightEmpty DEF Running
    <2>3. ~NoSession.on
      BY DEF NoSession
    <2>. QED
      BY <2>1, <2>2, <2>3, OutboundKept
  <1>4. CASE Receive
    <2>1. UNCHANGED <<c2s, link, sess, handled>> /\ Fetching
      BY <1>4, ReceiveCases DEF Fetching, serverVars
    <2>2. InFlight' = InFlight /\ Handled' = Handled
      BY <2>1 DEF InFlight, Handled
    <2>3. \A h \in Counter : s2c' # <<[k |-> "resumefailed", h |-> h]>>
      <3>. SUFFICES ASSUME NEW h \in Counter, s2c' = <<[k |-> "resumefailed", h |-> h]>> PROVE FALSE
        OBVIOUS
      <3>1. [k |-> "resumefailed", h |-> h] \in ToSet(s2c')
        BY DEF ToSet
      <3>2. Has(s2c, "resumefailed")
        BY <2>1, <3>1, FetchKinds, AnswerKinds DEF Has
      <3>3. Len(s2c) = 1
        BY <3>2 DEF Resuming
      <3>4. s2c' = <<>>
        BY <2>1, <3>3 DEF Fetching
      <3>. QED
        BY <3>4
    <2>4. CASE ReceiveQueued \/ ReceiveUnknown \/ ReceiveRefused
      <3>1. UNCHANGED <<smEnabled, outBase, unacked, rsop, broker>>
        BY <2>4 DEF ReceiveQueued, ReceiveUnknown, ReceiveRefused, Still, SMKept
      <3>2. Running' = Running
        BY <3>1 DEF Running
      <3>. QED
        BY <2>1, <2>2, <2>3, <3>1, <3>2, OutboundKept
    <2>5. ASSUME NEW r \in BOOLEAN, ReceiveEnabled(r) PROVE Outbound'
      <3>1. /\ Head(s2c).k = "enabled" /\ smop = "requested" /\ outBase' = 0 /\ unacked' = <<>>
            /\ rsop' = rsop /\ smEnabled' = TRUE
        BY <2>5, AnswerKinds DEF ReceiveEnabled
      <3>2. link = "sm" /\ sess.h = 0 /\ ~Has(c2s, "stanza")
        BY <2>1, <3>1, FetchKinds DEF Enabling
      <3>3. InFlight = {}
        BY <3>2, Kinds DEF InFlight, Has
      <3>4. rsop'.h = NoCounter
        BY <1>0b, <3>1 DEF ControlInv
      <3>5. Exact(sess.h)'
        <4>1. Covers(0, 0, <<>>, Handled)
          BY CoversEmpty, CounterType
        <4>. QED
          BY <2>1, <2>2, <3>1, <3>2, <4>1, ExactCovers
      <3>6. Unacked' = {}
        BY <3>1, ElementsOfEmpty DEF Unacked
      <3>7. \A t, u \in Tokens : ~Before(c2s', Stanza(t), Stanza(u))
        <4>1. \A x, y : Before(c2s, x, y) => x \in ToSet(c2s)
          BY BeforeMembers DEF SessionTypeOK
        <4>. QED
          BY <2>1, <3>3, <4>1 DEF InFlight
      <3>. QED
        BY <2>2, <2>3, <3>3, <3>4, <3>5, <3>6, <3>7 DEF Outbound
    <2>6. ASSUME UNCHANGED <<smEnabled, outBase, unacked, broker>>, rsop'.h # NoCounter => Exact(rsop'.h)
          PROVE  Outbound'
      <3>1. Unacked' = Unacked /\ Running' = Running
        BY <2>6 DEF Unacked, Running
      <3>2. smEnabled' /\ sess'.on => Exact(sess.h)'
        BY <2>1, <2>2, <2>6, ExactCovers DEF Outbound
      <3>3. rsop'.h # NoCounter => Exact(rsop.h)'
        BY <2>2, <2>6, ExactCovers
      <3>. QED
        BY <2>1, <2>2, <2>3, <2>6, <3>1, <3>2, <3>3 DEF Outbound
    <2>7. ASSUME NEW h \in Counter, ReceiveResumed(h) PROVE Outbound'
      <3>1. UNCHANGED <<smEnabled, outBase, unacked, broker>> /\ rsop'.h = h
        BY <2>7 DEF ReceiveResumed, Still, SMKept
      <3>2. Head(s2c).k = "resumed" /\ Head(s2c).h = h
        BY <2>7, AnswerKinds DEF ReceiveResumed, Resumption
      <3>3. Head(s2c) = Resumption(sess.h) /\ link = "sm" /\ smEnabled
        BY <2>1, <3>2, FetchKinds DEF Resuming, Resumption
      <3>4. h = sess.h /\ sess.on
        BY <3>2, <3>3, AnswerKinds DEF Enabling
      <3>. QED
        BY <2>6, <3>1, <3>3, <3>4 DEF Outbound
    <2>8. ASSUME NEW h \in Counter \cup {NoCounter}, ReceiveResumeFailed(h) PROVE Outbound'
      <3>1. UNCHANGED <<smEnabled, outBase, unacked, broker>> /\ rsop'.h = h
        BY <2>8 DEF ReceiveResumeFailed, Still, SMKept
      <3>2. Head(s2c) = [k |-> "resumefailed", h |-> h] /\ s2c # <<>>
        BY <2>1, <2>8 DEF ReceiveResumeFailed, Fetching
      <3>3. Len(s2c) = 1
        BY <2>1, <3>2, FetchKinds, AnswerKinds DEF Resuming
      <3>4. s2c = <<[k |-> "resumefailed", h |-> h]>>
        <4>1. s2c = <<Head(s2c)>>
          BY <3>3
        <4>. QED
          BY <3>2, <4>1
      <3>. QED
        BY <2>6, <3>1, <3>4 DEF Outbound
    <2>. QED
      BY <1>4, <2>4, <2>5, <2>7, <2>8, ReceiveEffects
  <1>5. CASE Server
    <2>1. UNCHANGED <<broker, smEnabled, outBase, unacked, rsop>>
      BY <1>5, ServerFrame DEF vars, tokenVars, smVars, taskVars, opVars
    <2>2. Unacked' = Unacked /\ Running' = Running
      BY <2>1 DEF Unacked, Running
    <2>. USE <2>1, <2>2
    <2>3. ASSUME NEW e, Reading(e), e.k # "stanza"
          PROVE  /\ InFlight' = InFlight
                 /\ \A t, u \in Tokens : Before(c2s', Stanza(t), Stanza(u)) => Before(c2s, Stanza(t), Stanza(u))
      BY <2>3, ReadingView, Kinds DEF InFlight, Within
    <2>4. ASSUME s2c' = s2c \/ \E e : Answers(e) /\ e.k # "resumefailed"
          PROVE  s2c' = s2c \/ \A h \in Counter : s2c' # <<[k |-> "resumefailed", h |-> h]>>
      <3>. SUFFICES ASSUME NEW e, Answers(e), e.k # "resumefailed", NEW h \in Counter,
                           s2c' = <<[k |-> "resumefailed", h |-> h]>>
                    PROVE  FALSE
        BY <2>4
      <3>1. s2c' = Append(s2c, e) /\ Len(s2c') = 1
        BY DEF Answers
      <3>2. s2c' = <<e>>
        <4>1. s2c = <<>>
          BY <3>1
        <4>. QED
          BY <3>1, <4>1
      <3>3. e = [k |-> "resumefailed", h |-> h]
        BY <3>2
      <3>. QED
        BY <3>3, AnswerKinds
    <2>5. ASSUME UNCHANGED handled, InFlight' = InFlight,
                 \A t, u \in Tokens : Before(c2s', Stanza(t), Stanza(u)) => Before(c2s, Stanza(t), Stanza(u)),
                 s2c' = s2c \/ \E e : Answers(e) /\ e.k # "resumefailed",
                 smEnabled /\ sess'.on => sess.on /\ sess'.h = sess.h,
                 smEnabled => link' \in {"sm", link}
          PROVE  Outbound'
      BY <2>4, <2>5, OutboundKept
    <2>6. CASE HandleBind
      <3>1. Reading(Bind) /\ Answers(BindReply) /\ UNCHANGED <<sess, handled>>
        BY <2>6, ServerAnswers DEF HandleBind, Bind
      <3>2. ~smEnabled
        BY <3>1, ReadingView DEF Binding, ClientControl
      <3>. QED
        BY <2>3, <2>5, <3>1, <3>2, Kinds
    <2>7. CASE HandleStanza
      <3>1. PICK t \in Tokens : /\ Reading(Stanza(t)) /\ UNCHANGED <<s2c, link>> /\ handled' = Append(handled, t)
                                /\ sess' = IF link = "sm" THEN [sess EXCEPT !.h = (@ + 1) % W] ELSE sess
        BY <2>7 DEF HandleStanza
      <3>2. InFlight = InFlight' \cup {t} /\ Within(c2s', c2s)
        BY <3>1, FlightHandled, ReadingView
      <3>3. rsop'.h = NoCounter
        <4>1. Stanza(t) \in ToSet(c2s) /\ c2s # <<>>
          BY <3>1, ReadingView
        <4>. QED
          BY <4>1 DEF Resuming
      <3>4. \A h \in Counter : s2c' # <<[k |-> "resumefailed", h |-> h]>>
        BY <1>0c, <3>1, <3>2
      <3>5. CASE ~smEnabled
        BY <3>3, <3>4, <3>5 DEF Outbound
      <3>6. CASE smEnabled
        <4>1. /\ link = "sm" /\ sess.on /\ Covers((sess.h + 1) % W, outBase, unacked, Handled \cup {t})
              /\ Unacked \subseteq Handled \cup InFlight
          BY <3>1, <3>6, NextHandled
        <4>2. Handled' = Handled \cup {t}
          BY <3>1, ElementsOfAppend DEF Handled, SessionTypeOK
        <4>3. sess'.h = (sess.h + 1) % W
          BY <3>1, <4>1 DEF SessionRecord
        <4>4. Exact(sess.h)'
          BY <4>1, <4>2, <4>3, ExactCovers
        <4>5. \A u, v \in Tokens : Before(c2s', Stanza(u), Stanza(v)) => Before(unacked', u, v)
          BY <3>2, <3>6 DEF Outbound, Within
        <4>6. InFlight' \subseteq Unacked' /\ Unacked' \subseteq Handled' \cup InFlight'
          BY <3>2, <3>6, <4>1, <4>2 DEF Outbound
        <4>. QED
          BY <3>1, <3>3, <3>4, <4>1, <4>4, <4>5, <4>6 DEF Outbound
      <3>. QED
        BY <3>5, <3>6
    <2>8. CASE HandleRequest
      BY <2>3, <2>5, <2>8, ServerAnswers, Kinds DEF HandleRequest, serverVars
    <2>9. CASE HandleAck
      <3>1. PICK h \in Counter : Reading(SMAck(h)) /\ sess' = IF link = "sm" THEN AckedBy(sess, h) ELSE sess
        BY <2>9 DEF HandleAck
      <3>2. sess'.on = sess.on /\ sess'.h = sess.h
        BY <3>1, AckedByType
      <3>. QED
        BY <2>3, <2>5, <2>9, <3>1, <3>2, ServerAnswers, Kinds DEF HandleAck
    <2>10. CASE HandleEnable
      <3>1. Reading(Enable) /\ link' = "sm" /\ handled' = handled
        BY <2>10 DEF HandleEnable, Enable
      <3>2. ~smEnabled
        BY <3>1, ReadKinds, Kinds DEF Enabling
      <3>3. \E r : Answers([k |-> "enabled", resume |-> r])
        BY <2>10, ServerAnswers
      <3>. QED
        BY <2>3, <2>5, <3>1, <3>2, <3>3, Kinds, AnswerKinds
    <2>11. CASE RefuseEnable
      BY <2>3, <2>5, <2>11, ServerAnswers, Kinds, AnswerKinds DEF RefuseEnable, Enable, serverVars
    <2>12. CASE HandleResume
      <3>1. ResumeGranted
        BY <2>12, ResumeView
      <3>2. sess'.h = sess.h /\ sess'.on = sess.on
        BY <3>1, AckedByType DEF ResumeGranted
      <3>3. InFlight = {} /\ InFlight' = {} /\ \A x, y : ~Before(c2s', x, y)
        <4>1. \A x \in ToSet(c2s) : x.k = "resume"
          <5>1. Resume(inCtr) \in ToServer
            BY ElementTypes
          <5>2. ToSet(<<Resume(inCtr)>>) = {Resume(inCtr)}
            BY <5>1, ElementsOfSingleton
          <5>. QED
            BY <3>1, <5>2, Kinds DEF ResumeGranted
        <4>. QED
          BY <3>1, <4>1, Kinds, FlightEmpty DEF ResumeGranted, InFlight
      <3>4. \A h \in Counter : s2c' # <<[k |-> "resumefailed", h |-> h]>>
        <4>1. Head(s2c').k = "resumed"
          BY <3>1, AnswerKinds DEF ResumeGranted
        <4>2. \A h : Head(<<[k |-> "resumefailed", h |-> h]>>).k = "resumefailed"
          OBVIOUS
        <4>. QED
          BY <4>1, <4>2
      <3>. QED
        BY <3>1, <3>2, <3>3, <3>4, OutboundKept DEF ResumeGranted
    <2>13. CASE RefuseResume
      <3>1. PICK h \in Counter, n \in {sess.h, NoCounter} :
               /\ Reading(Resume(h)) /\ s2c' = Append(s2c, [k |-> "resumefailed", h |-> n])
               /\ sess.on /\ sess' = NoSession /\ UNCHANGED <<link, handled>>
        BY <2>13 DEF RefuseResume, Resume
      <3>2. Has(c2s, "resume")
        BY <3>1, ReadKinds, Kinds
      <3>3. s2c = <<>> /\ smEnabled
        BY <3>2 DEF Resuming
      <3>4. s2c' = <<[k |-> "resumefailed", h |-> n]>>
        BY <3>1, <3>3
      <3>5. Handled' = Handled /\ ~sess'.on
        BY <3>1 DEF Handled, NoSession
      <3>6. \A g \in Counter : s2c' = <<[k |-> "resumefailed", h |-> g]>> => Exact(g)'
        <4>. SUFFICES ASSUME NEW g \in Counter, s2c' = <<[k |-> "resumefailed", h |-> g]>> PROVE Exact(g)'
          OBVIOUS
        <4>1. [k |-> "resumefailed", h |-> g] = [k |-> "resumefailed", h |-> n]
          BY <3>4
        <4>2. g = n
          BY <4>1, AnswerKinds
        <4>3. g = sess.h
          BY <4>2, ModulusAssumption DEF NoCounter, Counter
        <4>. QED
          BY <3>1, <3>3, <3>5, <4>3, ExactCovers DEF Outbound
      <3>7. InFlight' = InFlight
            /\ \A t, u \in Tokens : Before(c2s', Stanza(t), Stanza(u)) => Before(c2s, Stanza(t), Stanza(u))
        BY <2>3, <3>1, Kinds
      <3>8. rsop'.h # NoCounter => Exact(rsop.h)'
        BY <3>5, ExactCovers DEF Outbound
      <3>. QED
        BY <3>1, <3>5, <3>6, <3>7, <3>8 DEF Outbound
    <2>14. CASE SendInbound \/ RequestAck
      <3>1. c2s' = c2s /\ link' = link /\ handled' = handled /\ sess'.on = sess.on /\ sess'.h = sess.h
        BY <2>14 DEF SendInbound, RequestAck, SessionRecord
      <3>2. \E e : Answers(e) /\ e.k # "resumefailed"
        BY <2>14, ServerAnswers, Kinds
      <3>3. InFlight' = InFlight
        BY <3>1 DEF InFlight
      <3>. QED
        BY <2>5, <3>1, <3>2, <3>3
    <2>. QED
      BY <1>5, <2>6, <2>7, <2>8, <2>9, <2>10, <2>11, <2>12, <2>13, <2>14 DEF Server
  <1>6. CASE UNCHANGED sessionVars
    <2>1. UNCHANGED <<c2s, s2c, link, sess, handled, broker, smEnabled, outBase, unacked, rsop>>
      BY <1>6 DEF sessionVars, vars, serverVars, tokenVars, smVars, taskVars, opVars
    <2>2. InFlight' = InFlight /\ Running' = Running
      BY <2>1 DEF InFlight, Running
    <2>. QED
      BY <2>1, <2>2, OutboundKept
  <1>. QED
    BY <1>1, <1>2, <1>3, <1>4, <1>5, <1>6 DEF SessionNext

-----------------------------------------------------------------------------
(* Acknowledgements for the client *)

\* Steps that acknowledge nothing.
LEMMA AcksKept ==
    ASSUME Acks, UNCHANGED <<outBase, smEnabled>>,
           \A h \in Counter : SMAck(h) \in ToSet(Pipe') => SMAck(h) \in ToSet(Pipe),
           \A x, h : Before(Pipe', x, SMAck(h)) => Before(Pipe, x, SMAck(h)),
           smEnabled /\ (\E h \in Counter : SMAck(h) \in ToSet(Pipe)) => link' = link /\ sess'.h = sess.h,
           smEnabled /\ broker' \in {"none", "fresh"} =>
               /\ ~Has(incoming', "a")
               /\ "stanza" \in classes' => ~Has(s2c', "a") /\ ~Has(c2s', "r"),
           ~smEnabled /\ conn' = "open" =>
               /\ conn = "open" /\ (Has(s2c', "a") => Has(s2c, "a")) /\ (Has(c2s', "r") => Has(c2s, "r"))
               /\ bind' = "yes" => bind = "yes" \/ \A h \in Counter : SMAck(h) \notin ToSet(Pipe')
    PROVE  Acks'
  <1>1. \A h : ToDrop(h)' = ToDrop(h)
    BY DEF ToDrop
  <1>2. smEnabled => \A h \in Counter : SMAck(h) \in ToSet(Pipe') => ToDrop(sess.h)' = ToDrop(sess.h)
    BY DEF ToDrop
  <1>. QED
    BY <1>1, <1>2 DEF Acks

LEMMA AcksStep ==
    ASSUME SessionInv, [SessionNext]_sessionVars
    PROVE  Acks'
  <1>0. /\ TypeOK /\ ControlInv /\ SessionTypeOK /\ ClientControl /\ Binding /\ Enabling
        /\ Resuming /\ Outbound /\ Acks
    BY DEF SessionInv, IInv
  <1>0a. /\ inCtr \in Counter /\ outBase \in Counter /\ sess \in SessionRecord /\ sess.h \in Counter
         /\ ToSet(incoming) \subseteq ToSet(Pipe) /\ ToSet(s2c) \subseteq ToSet(Pipe)
    BY <1>0, PipeView DEF TypeOK, SessionTypeOK, SessionRecord
  <1>0b. BindReply \in ToClient /\ \A h : SMAck(h) # BindReply
    BY ElementTypes, SessionAssumption, Kinds DEF BindReply
  <1>0c. \A h \in Counter : SMAck(h) \in ToSet(incoming) => Has(incoming, "a")
    BY Kinds DEF Has
  <1>0d. \A h \in Counter : SMAck(h) \in ToSet(s2c) => Has(s2c, "a")
    BY Kinds DEF Has
  <1>0e. smEnabled /\ broker = "none" /\ ("stanza" \in classes \/ s2c = <<>>) =>
            \A h \in Counter : SMAck(h) \notin ToSet(Pipe)
    <2>. SUFFICES ASSUME smEnabled, broker = "none", "stanza" \in classes \/ s2c = <<>>, NEW h \in Counter,
                         SMAck(h) \in ToSet(Pipe)
                  PROVE  FALSE
      OBVIOUS
    <2>1. ~Has(incoming, "a") /\ ~Has(s2c, "a") /\ ifut = <<>>
      BY <1>0, HasNothing DEF Acks, ControlInv
    <2>. QED
      BY <1>0, <1>0c, <1>0d, <2>1, PipeView, ElementsOfEmpty
  <1>. USE <1>0, <1>0a
  <1>1. CASE Client(ClientStep)
    <2>1. UNCHANGED <<s2c, link, sess, handled>> /\ ClientEffect
      BY <1>1, ClientEffects DEF serverVars
    <2>. USE <2>1
    <2>2. CASE Idle
      <3>1. Has(incoming', "a") => Has(incoming, "a")
        BY <2>2 DEF Idle, Has
      <3>. QED
        BY <2>2, <3>1, AcksKept DEF Idle, Unheard, SMKept, Acks
    <2>3. CASE Halt
      <3>1. Within(Pipe', Pipe)
        BY <2>3, PipeHalted
      <3>2. CASE smEnabled'
        BY <2>3, <3>1, <3>2, HasNothing, AcksKept DEF Halt, SMKept, Within
      <3>3. CASE ~smEnabled'
        BY <2>3, <3>3 DEF Halt, Acks
      <3>. QED
        BY <3>2, <3>3 DEF Halt
    <2>4. ASSUME NEW e \in ToServer, c2s' = Append(c2s, e), e.k # "r" \/ smEnabled, Within(Pipe', Pipe),
                 UNCHANGED <<smEnabled, outBase, conn, bind>>,
                 smEnabled => broker' \notin {"none", "fresh"}
          PROVE  Acks'
      <3>1. ~smEnabled => (Has(c2s', "r") => Has(c2s, "r"))
        BY <2>4, WriteKinds
      <3>. QED
        BY <2>4, <3>1, AcksKept DEF Within
    <2>5. ASSUME NEW t \in Tokens, Transmit(t) PROVE Acks'
      BY <2>4, <2>5, ElementTypes, Kinds DEF Transmit, Busy, Running, Pipe, Within
    <2>6. CASE AskAck
      BY <2>4, <2>6, ElementTypes, Kinds DEF AskAck, Busy, SMKept, Running, Pipe, Within
    <2>7. CASE TakeRequest
      <3>1. Within(Pipe', Pipe)
        BY <2>7, PipeTaken DEF TakeRequest
      <3>. QED
        BY <2>4, <2>7, <3>1, ElementTypes, Kinds DEF TakeRequest, Take, Busy, SMKept, Running
    <2>8. CASE AskEnable
      BY <2>4, <2>8, ElementTypes, Kinds DEF AskEnable, SMKept, Pipe, Within
    <2>9. ASSUME NEW e, Take(e), c2s' = c2s, UNCHANGED <<smEnabled, outBase>>,
                 bind' = bind \/ (e = BindReply /\ bind' = "yes")
          PROVE  Acks'
      <3>1. /\ Within(Pipe', Pipe) /\ Running' /\ broker' # "fresh" /\ conn' = conn
            /\ \A x, y : Before(Pipe, x, y) <=> Before(Pipe', x, y) \/ (x = e /\ y \in ToSet(Pipe'))
        BY <2>9, PipeTaken DEF Take, Busy
      <3>2. ~smEnabled /\ conn = "open" /\ bind' = "yes" =>
               bind = "yes" \/ \A h \in Counter : SMAck(h) \notin ToSet(Pipe')
        BY <2>9, <3>1 DEF Acks, Within
      <3>. QED
        BY <2>9, <3>1, <3>2, AcksKept DEF Within, Running
    <2>10. ASSUME NEW m \in Inbound, TakeStanza(m) PROVE Acks'
      BY <2>9, <2>10 DEF TakeStanza, BindReply
    <2>11. ASSUME NEW e \in Element, TakeIgnored(e) PROVE Acks'
      BY <2>9, <2>11 DEF TakeIgnored, Unheard, SMKept
    <2>12. ASSUME NEW h \in Counter, TakeAck(h) PROVE Acks'
      <3>1. /\ Take(SMAck(h)) /\ smEnabled /\ smEnabled' /\ outBase' = h /\ Running' /\ broker' # "fresh"
        BY <2>12 DEF TakeAck, Take, Busy, AckUpTo
      <3>2. /\ Within(Pipe', Pipe) /\ ToSet(Pipe) = {SMAck(h)} \cup ToSet(Pipe')
            /\ \A x, y : Before(Pipe, x, y) <=> Before(Pipe', x, y) \/ (x = SMAck(h) /\ y \in ToSet(Pipe'))
        BY <3>1, PipeTaken
      <3>3. \A x \in Counter : ToDrop(h) <= ToDrop(x) => (x - h) % W = ToDrop(x) - ToDrop(h)
        BY ModDifference DEF ToDrop
      <3>4. \A x \in Counter : ToDrop(x)' = (x - h) % W
        BY <3>1 DEF ToDrop
      <3>5. ToDrop(sess.h)' = (sess.h - h) % W
        BY <3>1, <2>1 DEF ToDrop
      <3>6. \A x \in Counter : ToDrop(x) \in Nat
        BY DropType
      <3>7. link = "sm" /\ ToDrop(h) <= ToDrop(sess.h)
        BY <3>1, <3>2 DEF Acks
      <3>8. \A x \in Counter : SMAck(x) \in ToSet(Pipe') => ToDrop(h) <= ToDrop(x) /\ ToDrop(x) <= ToDrop(sess.h)
        BY <3>1, <3>2 DEF Acks
      <3>9. ASSUME NEW x \in Counter, SMAck(x) \in ToSet(Pipe')
            PROVE  ToDrop(x)' <= ToDrop(sess.h)'
        <4>1. ToDrop(x)' = ToDrop(x) - ToDrop(h) /\ ToDrop(sess.h)' = ToDrop(sess.h) - ToDrop(h)
          BY <3>3, <3>4, <3>5, <3>7, <3>8, <3>9
        <4>2. ToDrop(x) <= ToDrop(sess.h)
          BY <3>8, <3>9
        <4>. QED
          BY <3>6, <4>1, <4>2
      <3>10. ASSUME NEW x \in Counter, NEW y \in Counter, Before(Pipe', SMAck(x), SMAck(y))
             PROVE  ToDrop(x)' <= ToDrop(y)'
        <4>1. Pipe' \in Seq(ToClient)
          BY <3>1, PipeTaken
        <4>2. SMAck(x) \in ToSet(Pipe') /\ SMAck(y) \in ToSet(Pipe')
          BY <3>10, <4>1, BeforeMembers
        <4>3. ToDrop(x)' = ToDrop(x) - ToDrop(h) /\ ToDrop(y)' = ToDrop(y) - ToDrop(h)
          BY <3>3, <3>4, <3>8, <4>2
        <4>4. ToDrop(x) <= ToDrop(y)
          BY <3>1, <3>2, <3>10 DEF Acks
        <4>. QED
          BY <3>6, <4>3, <4>4
      <3>. QED
        BY <3>1, <3>7, <3>9, <3>10 DEF Acks, Running
    <2>13. CASE AskResume
      <3>1. c2s = <<>> /\ s2c = <<>> /\ smEnabled /\ broker = "none"
        BY <2>13 DEF AskResume, Resuming, Running, NoResume
      <3>2. ~Has(c2s', "r") /\ ~Has(s2c, "a") /\ ~Has(incoming, "a")
        BY <2>13, <3>1, WriteKinds, ElementTypes, Kinds, HasNothing DEF AskResume, Acks
      <3>. QED
        BY <2>13, <3>1, <3>2, AcksKept DEF AskResume, SMKept, Pipe
    <2>14. CASE DoResume
      <3>1. /\ rsop.at = "resumed" /\ broker = "none" /\ c2s' = c2s /\ smEnabled' = smEnabled
            /\ Pipe' = Pipe /\ UNCHANGED <<incoming, classes>>
        BY <2>14 DEF DoResume, Running, Pipe, Unheard
      <3>2. smEnabled /\ "stanza" \in classes
        BY <3>1 DEF ClientControl
      <3>3. \A h \in Counter : SMAck(h) \notin ToSet(Pipe)
        BY <1>0e, <3>1, <3>2
      <3>4. \A x, y : Before(Pipe, x, y) => x \in ToSet(Pipe)
        BY PipeTypes, BeforeMembers
      <3>. QED
        BY <3>1, <3>2, <3>3, <3>4 DEF Acks
    <2>15. CASE AcceptRefusal
      <3>1. c2s' = <<>> /\ s2c' = <<>> /\ broker = "none" /\ ~smEnabled' /\ Pipe' = Pipe
        BY <2>15 DEF AcceptRefusal, Resuming, Unheard, Running, Pipe
      <3>2. \A h \in Counter : SMAck(h) \notin ToSet(Pipe)
        BY <1>0e, <2>15, <3>1 DEF AcceptRefusal, ClientControl
      <3>. QED
        BY <3>1, <3>2, HasNothing DEF Acks
    <2>16. CASE GiveUpResume
      BY <2>16, AcksKept DEF GiveUpResume, SMKept, Unheard, Pipe, Acks, ClientControl
    <2>. QED
      BY <2>1, <2>2, <2>3, <2>5, <2>6, <2>7, <2>8, <2>10, <2>11, <2>12, <2>13, <2>14, <2>15, <2>16
      DEF ClientEffect
  <1>2. CASE AskBind
    <2>1. ~smEnabled /\ bind' = "asked" /\ c2s' = Append(c2s, Bind) /\ UNCHANGED <<vars, s2c, serverVars>>
      BY <1>2 DEF AskBind, Bind
    <2>2. UNCHANGED <<smEnabled, outBase, conn, broker, ifut, incoming, link, sess>> /\ Pipe' = Pipe
      BY <2>1 DEF vars, smVars, connVars, futVars, taskVars, serverVars, Pipe
    <2>3. Has(c2s', "r") => Has(c2s, "r")
      BY <2>1, WriteKinds, ElementTypes, Kinds
    <2>. QED
      BY <2>1, <2>2, <2>3, AcksKept
  <1>3. CASE Reconnect
    <2>1. /\ c2s' = <<>> /\ s2c' = <<>> /\ bind' = "no" /\ broker = "none" /\ classes' = {}
          /\ UNCHANGED <<smEnabled, outBase, ifut, incoming, broker>>
      BY <1>3 DEF Reconnect, Connect, smVars, futVars, taskVars, Running
    <2>2. ifut = <<>> /\ BindReply \notin ToSet(incoming) /\ (smEnabled => ~Has(incoming, "a"))
      BY <2>1 DEF ControlInv, Binding, Acks, Running
    <2>3. incoming \in Seq(ToClient)
      BY PipeTypes
    <2>4. Pipe' = incoming
      BY <2>1, <2>2, <2>3 DEF Pipe
    <2>5. \A x, y : Before(incoming, x, y) => x \in ToSet(incoming)
      BY <2>3, BeforeMembers
    <2>. QED
      BY <1>0c, <2>1, <2>2, <2>4, <2>5, HasNothing DEF Acks
  <1>4. CASE Receive
    <2>1. UNCHANGED <<c2s, bind, link, sess>> /\ Fetching /\ Within(Pipe', Pipe) /\ Within(s2c', s2c)
      BY <1>4, ReceiveCases, ReceivePipe DEF SessionInv, Fetching, serverVars
    <2>2. \A k : Has(s2c', k) => Has(s2c, k)
      BY <2>1, HasWithin
    <2>3. \A k : Has(s2c, k) <=> Has(s2c', k) \/ Head(s2c).k = k
      BY <2>1, FetchKinds
    <2>4. CASE ReceiveQueued
      <3>1. UNCHANGED <<smEnabled, outBase, broker, classes, conn>>
        BY <2>4 DEF ReceiveQueued, Still, SMKept
      <3>2. ASSUME smEnabled, broker \in {"none", "fresh"} PROVE ~Has(incoming', "a")
        <4>1. ~Has(incoming, "a") /\ ("stanza" \in classes => ~Has(s2c, "a"))
          BY <3>2 DEF Acks
        <4>2. Head(s2c).k # "a"
          <5>. SUFFICES ASSUME Head(s2c).k = "a" PROVE FALSE
            OBVIOUS
          <5>1. "nonza" \in classes
            BY <2>4 DEF ReceiveQueued, ClassOf
          <5>2. Has(s2c, "a")
            BY <2>3
          <5>. QED
            BY <3>2, <4>1, <5>1, <5>2 DEF ClientControl
        <4>3. Has(incoming', "a") => Has(incoming, "a")
          <5>1. ToSet(incoming') = ToSet(incoming) \cup {Head(s2c)}
            BY <2>4, PipeReceived DEF ReceiveQueued, Still
          <5>. QED
            BY <4>2, <5>1 DEF Has
        <4>. QED
          BY <4>1, <4>3
      <3>. QED
        BY <2>1, <2>2, <3>1, <3>2, AcksKept DEF Within, Acks
    <2>5. CASE ReceiveUnknown
      BY <2>1, <2>2, <2>5, AcksKept DEF ReceiveUnknown, Still, SMKept, Within, Acks
    <2>6. CASE ReceiveRefused
      BY <2>1, <2>2, <2>6, AcksKept DEF ReceiveRefused, Still, SMKept, Within, Acks
    <2>7. ASSUME NEW r \in BOOLEAN, ReceiveEnabled(r) PROVE Acks'
      <3>1. /\ smop = "requested" /\ conn = "open" /\ smEnabled' /\ UNCHANGED <<incoming, broker>>
        BY <2>7 DEF ReceiveEnabled, Still
      <3>2. ~smEnabled /\ bind = "yes"
        BY <3>1 DEF ControlInv, ClientControl
      <3>3. \A h \in Counter : SMAck(h) \notin ToSet(Pipe')
        BY <2>1, <3>1, <3>2 DEF Acks, Within
      <3>4. ~Has(s2c', "a") /\ ~Has(c2s', "r")
        BY <2>1, <2>2, <3>1, <3>2 DEF Acks
      <3>5. Running
        BY <3>1 DEF ClientControl
      <3>6. \A g, h \in Counter : ~Before(Pipe', SMAck(g), SMAck(h))
        <4>1. \A x, y : Before(Pipe, x, y) => x \in ToSet(Pipe)
          BY PipeTypes, BeforeMembers
        <4>. QED
          BY <2>1, <3>1, <3>2, <4>1 DEF Acks, Within
      <3>7. ~Has(incoming', "a")
        <4>. SUFFICES ASSUME Has(incoming, "a") PROVE FALSE
          BY <3>1
        <4>1. PICK e \in ToSet(incoming) : e.k = "a"
          BY DEF Has
        <4>2. e \in Element
          BY <4>1, PipeTypes, ElementsInSet
        <4>3. PICK h \in Counter : e = SMAck(h)
          BY <4>1, <4>2, Kinds DEF Element
        <4>. QED
          BY <3>1, <3>2, <4>1, <4>3 DEF Acks
      <3>. QED
        BY <3>1, <3>3, <3>4, <3>6, <3>7 DEF Acks
    <2>8. ASSUME NEW h, ReceiveResumed(h) PROVE Acks'
      BY <2>1, <2>2, <2>8, AcksKept DEF ReceiveResumed, Still, SMKept, Within, Acks
    <2>9. ASSUME NEW h, ReceiveResumeFailed(h) PROVE Acks'
      BY <2>1, <2>2, <2>9, AcksKept DEF ReceiveResumeFailed, Still, SMKept, Within, Acks
    <2>. QED
      BY <1>4, <2>4, <2>5, <2>6, <2>7, <2>8, <2>9, ReceiveEffects
  <1>5. CASE Server
    <2>1. UNCHANGED <<smEnabled, outBase, broker, conn, classes, bind, ifut, incoming>>
      BY <1>5, ServerFrame DEF vars, smVars, taskVars, connVars, futVars
    <2>2. Has(c2s', "r") => Has(c2s, "r")
      BY <1>5, ServerReads, HasWithin
    <2>. USE <2>1, <2>2
    <2>3. ASSUME UNCHANGED s2c \/ \E e : Answers(e) /\ e.k # "a",
                 smEnabled /\ (\E h \in Counter : SMAck(h) \in ToSet(Pipe)) => link' = link /\ sess'.h = sess.h
          PROVE  Acks'
      <3>1. Pipe' = Pipe \/ \E e : /\ e.k # "a" /\ ToSet(Pipe') = ToSet(Pipe) \cup {e}
                                    /\ \A x, y : Before(Pipe', x, y) <=> Before(Pipe, x, y) \/ (x \in ToSet(Pipe) /\ y = e)
        <4>1. CASE UNCHANGED s2c
          BY <4>1 DEF Pipe
        <4>2. ASSUME NEW e, Answers(e), e.k # "a"
              PROVE  /\ ToSet(Pipe') = ToSet(Pipe) \cup {e}
                     /\ \A x, y : Before(Pipe', x, y) <=> Before(Pipe, x, y) \/ (x \in ToSet(Pipe) /\ y = e)
          BY <4>2, PipeSent DEF Answers
        <4>. QED
          BY <2>3, <4>1, <4>2
      <3>2. /\ \A h \in Counter : SMAck(h) \in ToSet(Pipe') => SMAck(h) \in ToSet(Pipe)
            /\ \A x, h : Before(Pipe', x, SMAck(h)) => Before(Pipe, x, SMAck(h))
        BY <3>1, Kinds
      <3>3. Has(s2c', "a") => Has(s2c, "a")
        BY <2>3, AnswerKindsSent
      <3>. QED
        BY <2>3, <3>2, <3>3, AcksKept DEF Acks
    <2>4. CASE HandleBind
      <3>1. Reading(Bind) /\ Answers(BindReply) /\ UNCHANGED sess
        BY <2>4, ServerAnswers DEF HandleBind, Bind
      <3>2. ~smEnabled
        BY <3>1, ReadingView DEF Binding, ClientControl
      <3>. QED
        BY <2>3, <3>1, <3>2, Kinds
    <2>5. CASE HandleStanza
      <3>1. PICK t \in Tokens : /\ Reading(Stanza(t)) /\ UNCHANGED <<s2c, link>>
                                /\ sess' = IF link = "sm" THEN [sess EXCEPT !.h = (@ + 1) % W] ELSE sess
        BY <2>5 DEF HandleStanza
      <3>2. CASE ~smEnabled
        BY <2>3, <3>1, <3>2
      <3>3. CASE smEnabled
        <4>1. link = "sm" /\ ToDrop((sess.h + 1) % W) = ToDrop(sess.h) + 1
          BY <3>1, <3>3, NextHandled
        <4>2. sess'.h = (sess.h + 1) % W
          BY <3>1, <4>1 DEF SessionRecord
        <4>3. \A h : ToDrop(h)' = ToDrop(h)
          BY DEF ToDrop
        <4>4. ToDrop(sess.h)' = ToDrop(sess.h) + 1
          BY <4>1, <4>2 DEF ToDrop
        <4>5. Pipe' = Pipe
          BY <3>1 DEF Pipe
        <4>6. ToDrop(sess.h) \in Nat /\ \A h \in Counter : ToDrop(h) \in Nat
          BY DropType
        <4>7. \A h \in Counter : SMAck(h) \in ToSet(Pipe) => ToDrop(h)' <= ToDrop(sess.h)'
          <5>. SUFFICES ASSUME NEW h \in Counter, SMAck(h) \in ToSet(Pipe) PROVE ToDrop(h)' <= ToDrop(sess.h)'
            OBVIOUS
          <5>1. ToDrop(h) <= ToDrop(sess.h) /\ ToDrop(h)' = ToDrop(h)
            BY <3>3, <4>3 DEF Acks
          <5>. QED
            BY <4>4, <4>6, <5>1
        <4>. QED
          BY <3>1, <3>3, <4>1, <4>3, <4>5, <4>7 DEF Acks
      <3>. QED
        BY <3>2, <3>3
    <2>6. CASE HandleRequest
      <3>1. Has(c2s, "r") /\ UNCHANGED <<link, sess>>
        BY <2>6, ReadKinds, Kinds DEF HandleRequest, serverVars
      <3>2. CASE UNCHANGED s2c
        BY <2>3, <3>1, <3>2
      <3>3. CASE link = "sm" /\ Answers(SMAck(sess.h))
        <4>1. /\ ToSet(Pipe') = ToSet(Pipe) \cup {SMAck(sess.h)}
              /\ \A x, y : Before(Pipe', x, y) <=> Before(Pipe, x, y) \/ (x \in ToSet(Pipe) /\ y = SMAck(sess.h))
          BY <3>3, PipeSent DEF Answers
        <4>2. \A g, h : SMAck(g) = SMAck(h) <=> g = h
          BY Kinds
        <4>3. /\ \A h \in Counter : ToDrop(h)' = ToDrop(h) /\ ToDrop(h) \in Nat
              /\ ToDrop(sess.h)' = ToDrop(sess.h) /\ ToDrop(sess.h) \in Nat
          BY <3>1, DropType DEF ToDrop
        <4>4. smEnabled => /\ \A h \in Counter : SMAck(h) \in ToSet(Pipe') => ToDrop(h) <= ToDrop(sess.h)
                           /\ \A g, h \in Counter : Before(Pipe', SMAck(g), SMAck(h)) => ToDrop(g) <= ToDrop(h)
          BY <4>1, <4>2, <4>3 DEF Acks
        <4>5. ~(~smEnabled /\ conn = "open") /\ (smEnabled /\ broker \in {"none", "fresh"} => "stanza" \notin classes)
          BY <3>1 DEF Acks
        <4>. QED
          BY <3>1, <3>3, <4>3, <4>4, <4>5 DEF Acks
      <3>. QED
        BY <2>6, <3>2, <3>3, ServerAnswers
    <2>7. CASE HandleAck
      <3>1. PICK h \in Counter : Reading(SMAck(h)) /\ sess' = IF link = "sm" THEN AckedBy(sess, h) ELSE sess
        BY <2>7 DEF HandleAck
      <3>2. sess'.h = sess.h
        BY <3>1, AckedByType
      <3>. QED
        BY <2>3, <2>7, <3>2, ServerAnswers DEF HandleAck
    <2>8. CASE HandleEnable
      <3>1. Reading(Enable)
        BY <2>8 DEF HandleEnable, Enable
      <3>2. ~smEnabled
        BY <3>1, ReadKinds, Kinds DEF Enabling
      <3>. QED
        BY <2>3, <2>8, <3>2, ServerAnswers, AnswerKinds
    <2>9. CASE RefuseEnable
      BY <2>3, <2>9, ServerAnswers, AnswerKinds DEF RefuseEnable, serverVars
    <2>10. CASE HandleResume
      <3>1. ResumeGranted
        BY <2>10, ResumeView
      <3>2. \A h \in Counter : SMAck(h) \notin ToSet(Pipe)
        BY <1>0e, <3>1 DEF ResumeGranted, Running
      <3>3. ~Has(s2c', "a") /\ ~Has(c2s', "r")
        <4>1. \A k : Has(s2c', k) => k \in {"resumed", "stanza"}
          BY <3>1, ResumeKinds
        <4>2. c2s' = <<>>
          BY <3>1 DEF ResumeGranted
        <4>. QED
          BY <4>1, <4>2, HasNothing
      <3>4. \A h \in Counter : SMAck(h) \notin ToSet(Pipe')
        <4>1. \A h \in Counter : SMAck(h) \notin ToSet(incoming)
          BY <3>2
        <4>2. \A h \in Counter : SMAck(h) \notin ToSet(s2c')
          BY <3>3, Kinds DEF Has
        <4>. QED
          BY <3>1, <4>1, <4>2 DEF ResumeGranted
      <3>5. \A x, y : Before(Pipe', x, y) => x \in ToSet(Pipe')
        BY <3>1, BeforeMembers DEF ResumeGranted
      <3>. QED
        BY <3>1, <3>3, <3>4, <3>5 DEF ResumeGranted, Acks
    <2>11. CASE RefuseResume
      <3>1. PICK h \in Counter : Reading(Resume(h))
        BY <2>11 DEF RefuseResume, Resume
      <3>2. link = "plain"
        BY <3>1, ReadKinds, Kinds DEF Resuming
      <3>3. smEnabled => \A g \in Counter : SMAck(g) \notin ToSet(Pipe)
        BY <3>2 DEF Acks
      <3>. QED
        BY <2>3, <2>11, <3>3, ServerAnswers, AnswerKinds
    <2>12. CASE SendInbound \/ RequestAck
      <3>1. link' = link /\ sess'.h = sess.h
        BY <2>12 DEF SendInbound, RequestAck, SessionRecord
      <3>. QED
        BY <2>3, <2>12, <3>1, ServerAnswers, Kinds
    <2>. QED
      BY <1>5, <2>4, <2>5, <2>6, <2>7, <2>8, <2>9, <2>10, <2>11, <2>12 DEF Server
  <1>6. CASE UNCHANGED sessionVars
    <2>1. /\ UNCHANGED <<c2s, s2c, bind, link, sess, broker, conn, classes, smEnabled, outBase, incoming>>
          /\ Pipe' = Pipe
      BY <1>6 DEF sessionVars, vars, serverVars, smVars, taskVars, connVars, futVars, Pipe
    <2>. QED
      BY <2>1, AcksKept DEF Acks
  <1>. QED
    BY <1>1, <1>2, <1>3, <1>4, <1>5, <1>6 DEF SessionNext

-----------------------------------------------------------------------------
(* The stanzas that wait for an acknowledgement stay fewer than W: but for    *)
(* Enqueue and SendInbound, which have room, no step adds to them.            *)

LEMMA HeldSend ==
    ASSUME TypeOK, NEW t \in Unsettled, SendStanza(t), UNCHANGED afut, ToSet(active') \subseteq ToSet(active)
    PROVE  Unsettled' \subseteq Unsettled
  <1>1. t \in Tokens
    BY HeldTypes
  <1>2. unacked' = unacked \/ unacked' = Append(unacked, t)
    BY DEF SendStanza
  <1>3. ToSet(unacked') \subseteq ToSet(unacked) \cup {t}
    <2>1. unacked \in Seq(Tokens)
      BY PlaceTypes
    <2>2. ToSet(Append(unacked, t)) = ToSet(unacked) \cup {t}
      BY <1>1, <2>1, ElementsOfAppend
    <2>. QED
      BY <1>2, <2>2
  <1>. QED
    BY <1>3 DEF Unsettled, Unacked

LEMMA HeldDestroyed ==
    ASSUME NEW q, DestroyState(q) PROVE active' = <<>> /\ unacked' = <<>>
  BY DEF DestroyState, SMOff

LEMMA HeldCleanup ==
    ASSUME NEW q, ToSet(q) \subseteq Unsettled, NEW why, Cleanup(q, why), UNCHANGED afut \/ afut' = <<>>
    PROVE  Unsettled' \subseteq Unsettled
  <1>1. \/ active' = q /\ unacked' = unacked
        \/ active' = <<>> /\ unacked' = <<>>
    BY HeldDestroyed DEF Cleanup
  <1>. QED
    BY <1>1, ElementsOfEmpty DEF Unsettled, Unacked

LEMMA HeldTerminate ==
    ASSUME TypeOK, NEW why, Terminate(why)
    PROVE  Unsettled' \subseteq Unsettled
  <1> DEFINE q == afut \o active
  <1>1. ToSet(q) = ToSet(afut) \cup ToSet(active)
    BY PlaceTypes, ElementsOfConcat
  <1>2. ToSet(q) \subseteq Unsettled /\ Rescued = q
    BY <1>1 DEF Unsettled, Rescued
  <1>3. afut' = <<>> /\ (Cleanup(q, why) \/ (active' = q /\ unacked' = unacked))
    BY <1>2 DEF Terminate
  <1>. HIDE DEF q
  <1>4. CASE Cleanup(q, why)
    BY <1>2, <1>3, <1>4, HeldCleanup
  <1>5. CASE active' = q /\ unacked' = unacked
    BY <1>2, <1>3, <1>5, ElementsOfEmpty DEF Unsettled, Unacked
  <1>. QED
    BY <1>3, <1>4, <1>5

LEMMA HeldClient ==
    ASSUME SessionInv, ClientStep
    PROVE  Unsettled' \subseteq Unsettled \/ \E t \in Tokens : Enqueue(t) /\ Cardinality(Unsettled \cup {t}) < W
  <1>0. TypeOK /\ ControlInv
    BY DEF SessionInv, IInv
  <1>a. ASSUME UNCHANGED <<active, afut, unacked>> PROVE Unsettled' \subseteq Unsettled
    BY <1>a DEF Unsettled, Unacked
  <1>b. ASSUME UNCHANGED <<active, afut>>, NEW n \in 0..Len(unacked), unacked' = SubSeq(unacked, n + 1, Len(unacked))
        PROVE  Unsettled' \subseteq Unsettled
    <2>1. ToSet(unacked') \subseteq ToSet(unacked)
      BY <1>0, <1>b, PlaceTypes, ElementsOfSplit
    <2>. QED
      BY <1>b, <2>1 DEF Unsettled, Unacked
  <1>1. CASE \/ \E t \in Tokens : Abort(t)
             \/ BrokerStart \/ BrokerNeverRuns \/ BrokerWake \/ BrokerLocks \/ FinalCancelled
             \/ GetIncoming \/ ProcessStanza \/ ProcessRequest
             \/ Start \/ Stop \/ StartSM \/ StartSMAnswered \/ StartSMDies
             \/ ResumeSM \/ ResumeRaises \/ ResumeDies
             \/ ConnFails \/ PeerEof \/ ConnGone \/ OnClosing
    BY <1>1, <1>a DEF tokenVars, futVars, Abort, BrokerStart, BrokerNeverRuns, BrokerWake, BrokerLocks, FinalCancelled,
       GetIncoming, ProcessStanza, ProcessRequest, IncomingDone, Start, Commit, Stop, StartSM, StartSMAnswered,
       StartSMDies, ReleaseLock, ResumeSM, ResumeRaises, ResumeOver, ResumeDies, ConnFails, PeerEof, ConnGone, OnClosing
  <1>2. CASE GetActive
    <2>1. active # <<>> /\ afut' = <<Head(active)>> /\ active' = Tail(active) /\ unacked' = unacked
      BY <1>2 DEF GetActive
    <2>2. /\ Head(active) \in Tokens /\ ToSet(active) = {Head(active)} \cup ToSet(Tail(active))
          /\ ToSet(<<Head(active)>>) = {Head(active)}
      BY <1>0, <2>1, PlaceTypes, ElementsOfTail, ElementsOfSingleton
    <2>. QED
      BY <2>1, <2>2 DEF Unsettled, Unacked
  <1>3. CASE SendFirst
    <2>1. SendStanza(Head(afut)) /\ afut # <<>> /\ UNCHANGED <<active, afut>>
      BY <1>0, <1>3 DEF SendFirst, ControlInv, futVars
    <2>2. Head(afut) \in Unsettled
      BY <1>0, <2>1, PlaceTypes, ElementsOfTail DEF Unsettled
    <2>. QED
      BY <1>0, <2>1, <2>2, HeldSend
  <1>4. CASE SendNext
    <2>1. SendStanza(Head(active)) /\ active # <<>> /\ active' = Tail(active) /\ UNCHANGED afut
      BY <1>4 DEF SendNext, futVars
    <2>2. Head(active) \in Unsettled /\ ToSet(active') \subseteq ToSet(active)
      BY <1>0, <2>1, PlaceTypes, ElementsOfTail DEF Unsettled
    <2>. QED
      BY <1>0, <2>1, <2>2, HeldSend
  <1>5. CASE BatchDone
    BY <1>5, ElementsOfEmpty DEF BatchDone, tokenVars, Unsettled, Unacked
  <1>6. CASE BatchRaises \/ ProcessRaises \/ BrokerCancelled
    BY <1>0, <1>6, HeldTerminate DEF BatchRaises, ProcessRaises, BrokerCancelled
  <1>7. CASE FinalLocked
    <2>1. Cleanup(active, raised) /\ UNCHANGED afut /\ ToSet(active) \subseteq Unsettled
      BY <1>7 DEF FinalLocked, futVars, Unsettled
    <2>. QED
      BY <2>1, HeldCleanup
  <1>8. CASE ProcessAck
    <2>1. CASE ~smEnabled
      BY <1>8, <2>1, <1>a DEF ProcessAck, IncomingDone
    <2>2. CASE smEnabled
      <3> DEFINE n == ToDrop(Head(ifut).h)
      <3>1. /\ UNCHANGED <<active, afut>> /\ n <= Len(unacked)
            /\ unacked' = SubSeq(unacked, n + 1, Len(unacked))
        BY <1>8, <2>2 DEF ProcessAck, IncomingDone
      <3>2. Head(ifut).h \in Counter
        BY <1>0, <1>8, TypeParts, FetchedType DEF ProcessAck
      <3>3. n \in 0..Len(unacked)
        BY <1>0, <3>1, <3>2, AckRange
      <3>. HIDE DEF n
      <3>. QED
        BY <1>b, <3>1, <3>3
    <2>. QED
      BY <2>1, <2>2
  <1>9. CASE Resumed
    <2> DEFINE n    == ToDrop(rsop.h)
               rest == SubSeq(unacked, n + 1, Len(unacked))
    <2>1. /\ rsop.at = "resumed" /\ n <= Len(unacked)
          /\ active' = Reverse(rest) \o active /\ unacked' = <<>> /\ UNCHANGED afut
      BY <1>9 DEF Resumed, Retransmit, ResumeOver, futVars
    <2>2. rsop.h \in Counter
      BY <1>0, <2>1 DEF ControlInv, TypeOK, NoCounter, Counter
    <2>3. n \in 0..Len(unacked)
      BY <1>0, <2>1, <2>2, AckRange
    <2>. HIDE DEF n
    <2>4. ToSet(rest) \subseteq ToSet(unacked) /\ rest \in Seq(Tokens)
      BY <1>0, <2>3, PlaceTypes, ElementsOfSplit
    <2>. HIDE DEF rest
    <2>5. Reverse(rest) \in Seq(Tokens) /\ ToSet(Reverse(rest)) = ToSet(rest)
      BY <2>4, ElementsOfReverse
    <2>6. ToSet(active') = ToSet(rest) \cup ToSet(active)
      BY <1>0, <2>1, <2>5, PlaceTypes, ElementsOfConcat
    <2>. QED
      BY <2>1, <2>4, <2>6, ElementsOfEmpty DEF Unsettled, Unacked
  <1>10. CASE ResumeRefused
    BY <1>10, ElementsOfEmpty DEF ResumeRefused, SMOff, ResumeOver, futVars, Unsettled, Unacked
  <1>. QED
    BY <1>1, <1>2, <1>3, <1>4, <1>5, <1>6, <1>7, <1>8, <1>9, <1>10 DEF ClientStep, Broker

LEMMA HeldStep ==
    ASSUME SessionInv, [SessionNext]_sessionVars
    PROVE  Cardinality(Unsettled') < W
  <1>0. TypeOK /\ SessionTypeOK /\ Cardinality(Unsettled) < W /\ IsFiniteSet(Unsettled)
    BY HeldTypes DEF SessionInv, IInv, Bounded
  <1>1. ASSUME Unsettled' \subseteq Unsettled PROVE Cardinality(Unsettled') < W
    <2>1. /\ Cardinality(Unsettled') <= Cardinality(Unsettled)
          /\ Cardinality(Unsettled') \in Nat /\ Cardinality(Unsettled) \in Nat
      BY <1>0, <1>1, FS_Subset, FS_CardinalityType
    <2>. QED
      BY <1>0, <2>1, ModulusAssumption
  <1>2. ASSUME UNCHANGED <<active, afut, unacked>> PROVE Cardinality(Unsettled') < W
    BY <1>1, <1>2 DEF Unsettled, Unacked
  <1>3. CASE Client(ClientStep)
    <2>1. ASSUME NEW t \in Tokens, Enqueue(t), Cardinality(Unsettled \cup {t}) < W PROVE Cardinality(Unsettled') < W
      <3>1. active' = Append(active, t) /\ UNCHANGED <<afut, unacked>>
        BY <2>1 DEF Enqueue, futVars
      <3>2. ToSet(active') = ToSet(active) \cup {t}
        BY <1>0, <3>1, PlaceTypes, ElementsOfAppend
      <3>3. Unsettled' = Unsettled \cup {t}
        BY <3>1, <3>2 DEF Unsettled, Unacked
      <3>. QED
        BY <2>1, <3>3
    <2>. QED
      BY <1>1, <1>3, <2>1, HeldClient DEF Client
  <1>4. CASE Receive
    <2>1. UNCHANGED <<active, afut>> /\ (unacked' = unacked \/ unacked' = <<>>)
      BY <1>0, <1>4, ReceiveCases
      DEF Recv, RecvUnknown, RecvEnabled, RecvSMFailed, RecvResumed, RecvResumeFailed, tokenVars, futVars
    <2>2. Unsettled' \subseteq Unsettled
      BY <2>1, ElementsOfEmpty DEF Unsettled, Unacked
    <2>. QED
      BY <1>1, <2>2
  <1>5. CASE AskBind \/ Reconnect \/ Server \/ UNCHANGED sessionVars
    BY <1>2, <1>5, ServerFrame DEF AskBind, Reconnect, Connect, vars, tokenVars, futVars, sessionVars
  <1>. QED
    BY <1>3, <1>4, <1>5 DEF SessionNext

LEMMA RememberedStep ==
    ASSUME SessionInv, [SessionNext]_sessionVars
    PROVE  Len(sess'.out) < W
  <1>0. /\ SessionTypeOK /\ sess \in SessionRecord /\ sess.out \in Seq(Numbered)
        /\ Len(sess.out) \in Nat /\ Len(sess.out) < W
    BY DEF SessionInv, SessionTypeOK, SessionRecord, Bounded
  <1>1. Len(NoSession.out) < W
    <2>1. NoSession.out = <<>> /\ Len(<<>>) = 0
      BY DEF NoSession
    <2>. QED
      BY <2>1, ModulusAssumption
  <1>2. ASSUME NEW h \in Counter PROVE Len(AckedBy(sess, h).out) < W
    <2>1. /\ AckedBy(sess, h).out = SubSeq(sess.out, InOff(h) + 1, Len(sess.out)) /\ InOff(h) \in Nat
      BY <1>0, AckedByType
    <2>2. Len(SubSeq(sess.out, InOff(h) + 1, Len(sess.out))) <= Len(sess.out)
      BY <1>0, <2>1
    <2>3. Len(SubSeq(sess.out, InOff(h) + 1, Len(sess.out))) \in Nat
      BY <1>0, <2>1
    <2>. QED
      BY <1>0, <2>1, <2>2, <2>3, ModulusAssumption
  <1>3. CASE Client(ClientStep) \/ AskBind \/ Receive \/ UNCHANGED sessionVars
    <2>1. sess' = sess
      BY <1>0, <1>3, ReceiveCases DEF Client, AskBind, Fetching, serverVars, sessionVars
    <2>. QED
      BY <1>0, <2>1
  <1>4. CASE Reconnect
    BY <1>0, <1>1, <1>4 DEF Reconnect
  <1>5. CASE HandleBind \/ HandleStanza \/ HandleRequest \/ RefuseEnable \/ RequestAck
    <2>1. sess'.out = sess.out
      BY <1>0, <1>5 DEF HandleBind, HandleStanza, HandleRequest, RefuseEnable, RequestAck, serverVars, SessionRecord
    <2>. QED
      BY <1>0, <2>1
  <1>6. CASE HandleAck \/ HandleResume
    BY <1>0, <1>2, <1>6 DEF HandleAck, HandleResume
  <1>7. CASE HandleEnable \/ RefuseResume
    <2>1. sess'.out = NoSession.out
      BY <1>7 DEF HandleEnable, RefuseResume, NoSession
    <2>. QED
      BY <1>1, <2>1
  <1>8. CASE SendInbound
    <2>1. CASE link = "sm"
      <3>1. sess'.out = Append(sess.out, sent + 1) /\ Len(sess.out) + 1 < W
        BY <1>0, <1>8, <2>1 DEF SendInbound, SessionRecord
      <3>. QED
        BY <1>0, <3>1
    <2>2. CASE link # "sm"
      BY <1>0, <1>8, <2>2 DEF SendInbound
    <2>. QED
      BY <2>1, <2>2
  <1>. QED
    BY <1>3, <1>4, <1>5, <1>6, <1>7, <1>8 DEF SessionNext, Server

LEMMA BoundedStep ==
    ASSUME SessionInv, [SessionNext]_sessionVars
    PROVE  Bounded'
  BY HeldStep, RememberedStep DEF Bounded

-----------------------------------------------------------------------------
(* What holds however connections end *)

LEMMA InitSession == SessionInit => SessionInv
  <1>. SUFFICES ASSUME SessionInit PROVE SessionInv
    OBVIOUS
  <1>1. /\ c2s = <<>> /\ s2c = <<>> /\ bind = "no" /\ link = "none" /\ sess = NoSession
        /\ sent = 0 /\ counted = {} /\ handled = <<>> /\ handed = <<>>
        /\ ifut = <<>> /\ incoming = <<>> /\ afut = <<>> /\ active = <<>> /\ unacked = <<>>
        /\ ~smEnabled /\ broker = "none" /\ ~cancel /\ conn # "open"
        /\ smop = "none" /\ rsop = NoResume /\ ~notified
    BY DEF SessionInit, Init
  <1>2. IInv
    BY InitIInv DEF SessionInit
  <1>3. Pipe = <<>>
    BY <1>1 DEF Pipe
  <1>4. SessionTypeOK
    <2>1. <<>> \in Seq(ToServer) /\ <<>> \in Seq(ToClient) /\ <<>> \in Seq(Numbered) /\ <<>> \in Seq(Tokens)
      OBVIOUS
    <2>. QED
      BY <1>1, <2>1, CounterType DEF SessionTypeOK, NoSession, SessionRecord
  <1>5. ClientControl
    BY <1>1 DEF ClientControl, Running, NoResume
  <1>6. Binding
    BY <1>1, <1>3, ElementsOfEmpty, BeforeEmpty DEF Binding
  <1>7. Enabling /\ Resuming
    BY <1>1, HasNothing, OnceNothing, BeforeEmpty DEF Enabling, Resuming, Running, NoResume
  <1>8. Transmission
    BY <1>1, ElementsOfEmpty, FlightEmpty DEF Transmission, Handled, Queued, Fetched
  <1>9. Outbound
    BY <1>1 DEF Outbound, NoResume
  <1>10. Acks
    BY <1>1, <1>3, HasNothing, ElementsOfEmpty DEF Acks
  <1>11. Bounded
    <2>1. Unsettled = {} /\ sess.out = <<>>
      BY <1>1, ElementsOfEmpty DEF Unsettled, Unacked, NoSession
    <2>2. Len(<<>>) = 0 /\ Cardinality({}) = 0
      BY FS_EmptySet
    <2>. QED
      BY <2>1, <2>2, ModulusAssumption DEF Bounded
  <1>. QED
    BY <1>2, <1>4, <1>5, <1>6, <1>7, <1>8, <1>9, <1>10, <1>11 DEF SessionInv

LEMMA SessionStep == SessionInv /\ [SessionNext]_sessionVars => SessionInv'
  BY InStep, TypeStep, ControlKept, BindingStep, EnablingStep, ResumingStep, TransmissionStep,
     OutboundStep, AcksStep, BoundedStep DEF SessionInv

-----------------------------------------------------------------------------
(* What reaches the client, unless the session strays. *)

LEMMA NotStray ==
    ASSUME [SessionNext]_sessionVars, stray' = {}
    PROVE  stray = {} /\ (Receive => ~Early) /\ (Reconnect => ~Undrained)
  <1>1. CASE Client(ClientStep) \/ AskBind \/ Server
    <2>1. UNCHANGED stray
      BY <1>1 DEF Client, AskBind, Server, ServerStep, Reading, HandleBind, HandleStanza, HandleRequest,
         HandleAck, HandleEnable, RefuseEnable, HandleResume, RefuseResume, SendInbound, RequestAck
    <2>. QED
      BY <2>1 DEF Receive, Reconnect
  <1>2. CASE Receive \/ Reconnect \/ UNCHANGED sessionVars
    BY <1>2 DEF Receive, Reconnect, sessionVars
  <1>. QED
    BY <1>1, <1>2 DEF SessionNext

LEMMA Unheeded ==
    ASSUME SessionInv, ReceiveUnknown
    PROVE  ~(smEnabled /\ "stanza" \in classes)
  <1>1. Head(s2c) \in Element /\ ClassOf(Head(s2c)) \notin classes
    BY DEF ReceiveUnknown
  <1>2. ClassOf(Head(s2c)) \in {"stanza", "nonza"}
    BY <1>1, KindOfElement DEF ClassOf
  <1>. QED
    BY <1>1, <1>2 DEF SessionInv, ClientControl

LEMMA InControlStep ==
    ASSUME SessionInv, InControl, [SessionNext]_sessionVars, stray' = {}
    PROVE  InControl'
  <1>0. /\ TypeOK /\ ControlInv /\ SessionTypeOK /\ ClientControl /\ Binding /\ Enabling /\ Resuming
    BY DEF SessionInv, IInv
  <1>0a. NoResume.at = "none"
    BY DEF NoResume
  <1>0b. Reconnect => ~Undrained
    BY NotStray
  <1>. USE <1>0, <1>0a DEF InControl, Running
  <1>1. CASE Client(ClientStep)
    <2>1. UNCHANGED <<s2c, link>> /\ ClientEffect
      BY <1>1, ClientEffects DEF serverVars
    <2>. USE <2>1
    <2>2. CASE Idle
      BY <2>2 DEF Idle, SMKept
    <2>3. CASE Halt
      BY <2>3 DEF Halt
    <2>4. ASSUME Busy, smEnabled' = smEnabled PROVE InControl'
      BY <2>4 DEF Busy, ClientControl
    <2>5. CASE \/ AskAck \/ TakeRequest
               \/ \E t \in Tokens : Transmit(t)
               \/ \E m \in Inbound : TakeStanza(m)
               \/ \E h \in Counter : TakeAck(h)
               \/ \E e \in Element : TakeIgnored(e)
      BY <2>4, <2>5 DEF AskAck, TakeRequest, Transmit, TakeStanza, TakeAck, TakeIgnored, Take, SMKept, Busy
    <2>6. CASE AskEnable
      BY <2>6 DEF AskEnable, SMKept
    <2>7. CASE AskResume
      <3>1. s2c = <<>> /\ link = "plain" /\ incoming = <<>> /\ incoming' = <<>>
        BY <2>7 DEF AskResume, Resuming
      <3>2. rsop'.at = "requested" /\ broker = "none" /\ broker' = "none"
        BY <2>7 DEF AskResume
      <3>. QED
        BY <3>1, <3>2
    <2>8. CASE DoResume
      BY <2>8 DEF DoResume, ClientControl
    <2>9. CASE AcceptRefusal
      BY <2>9 DEF AcceptRefusal
    <2>10. CASE GiveUpResume
      BY <2>10 DEF GiveUpResume, SMKept
    <2>. QED
      BY <2>1, <2>2, <2>3, <2>5, <2>6, <2>7, <2>8, <2>9, <2>10 DEF ClientEffect
  <1>2. CASE AskBind
    BY <1>2 DEF AskBind, vars, smVars, taskVars, opVars, connVars, futVars, serverVars
  <1>3. CASE Reconnect
    <2>1. /\ classes' = {} /\ ~Running /\ rsop = NoResume /\ conn' = "open"
          /\ UNCHANGED <<broker, rsop, smEnabled, incoming>>
      BY <1>3 DEF Reconnect, Connect, OwnerIdle, smVars, taskVars, opVars, futVars
    <2>2. smEnabled => incoming = <<>>
      BY <1>0b, <1>3 DEF Undrained
    <2>. QED
      BY <2>1, <2>2
  <1>4. CASE Receive
    <2>1. UNCHANGED <<link>> /\ Fetching
      BY <1>4, ReceiveCases DEF Fetching, serverVars
    <2>. USE <2>1
    <2>2. Head(s2c) \in Element => rsop.at # "requested"
      BY <2>1, KindOfElement DEF Fetching
    <2>3. CASE ReceiveQueued
      BY <2>2, <2>3, KindOfElement DEF ReceiveQueued, Still, SMKept, ClientControl, ClassOf, Resuming, Fetching
    <2>4. CASE ReceiveUnknown
      <3>1. ~(smEnabled /\ "stanza" \in classes)
        BY <2>4, Unheeded
      <3>. QED
        BY <2>2, <2>4, <3>1 DEF ReceiveUnknown, Still, SMKept, ClientControl
    <2>5. CASE ReceiveRefused
      <3>1. smop = "requested" /\ rsop.at = "none"
        BY <2>5 DEF ReceiveRefused, ControlInv
      <3>. QED
        BY <2>5, <3>1 DEF ReceiveRefused, Still, SMKept
    <2>6. ASSUME NEW r \in BOOLEAN, ReceiveEnabled(r) PROVE InControl'
      <3>1. smop = "requested" /\ rsop.at = "none"
        BY <2>6 DEF ReceiveEnabled, ControlInv
      <3>2. "stanza" \in classes
        BY <2>6, <3>1 DEF ReceiveEnabled, ClientControl, ControlInv
      <3>. QED
        BY <2>6, <3>1, <3>2 DEF ReceiveEnabled, Still, ClientControl
    <2>7. ASSUME NEW h, ReceiveResumed(h) PROVE InControl'
      <3>1. rsop'.at = "resumed"
        BY <2>7 DEF ReceiveResumed
      <3>. QED
        BY <2>7, <3>1 DEF ReceiveResumed, Still, SMKept
    <2>8. ASSUME NEW h, ReceiveResumeFailed(h) PROVE InControl'
      <3>1. rsop'.at = "refused"
        BY <2>8 DEF ReceiveResumeFailed
      <3>. QED
        BY <2>8, <3>1 DEF ReceiveResumeFailed, Still, SMKept
    <2>. QED
      BY <1>4, <2>3, <2>4, <2>5, <2>6, <2>7, <2>8, ReceiveEffects
  <1>5. CASE Server
    <2>1. UNCHANGED <<rsop, conn, smEnabled, broker, classes, incoming>>
      BY <1>5, ServerFrame DEF vars, smVars, taskVars, opVars, connVars, futVars
    <2>2. ASSUME rsop.at = "requested" => \/ s2c' = <<>> /\ link' = "plain"
                                          \/ s2c' # <<>> /\ Head(s2c').k \in {"resumed", "resumefailed"}
          PROVE  InControl'
      BY <2>1, <2>2
    <2>3. CASE HandleResume
      <3>1. s2c' # <<>> /\ Head(s2c').k = "resumed"
        BY <2>3, ResumeView, AnswerKinds DEF ResumeGranted
      <3>. QED
        BY <2>2, <3>1
    <2>4. CASE RefuseResume
      <3>1. s2c = <<>>
        <4>1. PICK h \in Counter : Reading(Resume(h))
          BY <2>4 DEF RefuseResume, Resume
        <4>. QED
          BY <4>1, ReadKinds, Kinds DEF Resuming
      <3>2. PICK n : Answers([k |-> "resumefailed", h |-> n])
        BY <2>4, ServerAnswers
      <3>3. s2c' # <<>> /\ Head(s2c') = [k |-> "resumefailed", h |-> n]
        BY <3>1, <3>2 DEF Answers
      <3>. QED
        BY <2>2, <3>3, AnswerKinds
    <2>5. ASSUME link' = link, \/ UNCHANGED s2c
                               \/ (s2c # <<>> \/ link # "plain") /\ \E e : Answers(e)
          PROVE  InControl'
      <3>1. s2c \in Seq(ToClient)
        BY DEF SessionTypeOK
      <3>2. s2c # <<>> => s2c' # <<>> /\ Head(s2c') = Head(s2c)
        BY <2>5, <3>1 DEF Answers
      <3>. QED
        BY <2>2, <2>5, <3>2
    <2>6. CASE HandleStanza \/ HandleAck \/ HandleRequest
      BY <2>5, <2>6, ServerAnswers DEF HandleStanza, HandleAck, HandleRequest, serverVars
    <2>7. CASE SendInbound \/ RequestAck
      BY <2>5, <2>7, ServerAnswers DEF SendInbound, RequestAck
    <2>8. CASE HandleBind
      <3>1. ~smEnabled
        <4>1. Reading(Bind)
          BY <2>8 DEF HandleBind, Bind
        <4>. QED
          BY <4>1, ReadingView DEF Binding, ClientControl
      <3>. QED
        BY <2>2, <3>1 DEF ClientControl
    <2>9. CASE HandleEnable \/ RefuseEnable
      <3>1. ~smEnabled
        <4>1. Reading(Enable)
          BY <2>9 DEF HandleEnable, RefuseEnable, Enable
        <4>. QED
          BY <4>1, ReadKinds, Kinds DEF Enabling
      <3>. QED
        BY <2>2, <3>1 DEF ClientControl
    <2>. QED
      BY <1>5, <2>3, <2>4, <2>6, <2>7, <2>8, <2>9 DEF Server
  <1>6. CASE UNCHANGED sessionVars
    BY <1>6 DEF sessionVars, vars, serverVars, smVars, taskVars, opVars, connVars, futVars
  <1>. QED
    BY <1>1, <1>2, <1>3, <1>4, <1>5, <1>6 DEF SessionNext

LEMMA AskingStep ==
    ASSUME SessionInv, InControl, Asking, [SessionNext]_sessionVars
    PROVE  Asking'
  <1>0. TypeOK /\ SessionTypeOK /\ Resuming /\ Resuming'
    BY ResumingStep DEF SessionInv, IInv
  <1>1. SUFFICES ASSUME Has(c2s', "resume") PROVE incoming' = <<>>
    BY DEF Asking, Has
  <1>2. ~Running' /\ s2c' = <<>>
    BY <1>0, <1>1 DEF Resuming, Has
  <1>3. CASE Client(ClientStep)
    <2>1. ClientEffect
      BY <1>3, ClientEffects
    <2>2. CASE AskResume
      BY <2>2 DEF AskResume, InControl
    <2>3. ASSUME UNCHANGED c2s, incoming = <<>> => incoming' = <<>> PROVE incoming' = <<>>
      BY <1>1, <2>3 DEF Asking, Has
    <2>4. CASE Idle \/ DoResume \/ AcceptRefusal \/ GiveUpResume
      BY <2>3, <2>4 DEF Idle, DoResume, AcceptRefusal, GiveUpResume, Unheard
    <2>5. CASE Halt
      <3>1. ~Has(c2s, "resume")
        BY <1>0, <2>5 DEF Halt, Resuming
      <3>. QED
        BY <1>1, <2>5, <3>1 DEF Halt, Unheard, Has
    <2>6. CASE \/ AskAck \/ TakeRequest
               \/ \E t \in Tokens : Transmit(t)
               \/ \E m \in Inbound : TakeStanza(m)
               \/ \E h \in Counter : TakeAck(h)
               \/ \E e \in Element : TakeIgnored(e)
      BY <1>2, <2>6 DEF AskAck, TakeRequest, Transmit, TakeStanza, TakeAck, TakeIgnored, Take, Busy
    <2>7. CASE AskEnable
      BY <1>2, <2>7 DEF AskEnable, Running
    <2>. QED
      BY <2>1, <2>2, <2>4, <2>5, <2>6, <2>7 DEF ClientEffect
  <1>4. CASE AskBind
    BY <1>2, <1>4 DEF AskBind, vars, taskVars, Running
  <1>5. CASE Reconnect
    <2>1. c2s' = <<>>
      BY <1>5 DEF Reconnect
    <2>. QED
      BY <1>1, <2>1, HasNothing
  <1>6. CASE Receive
    <2>1. UNCHANGED c2s /\ s2c # <<>>
      BY <1>0, <1>6, ReceiveCases DEF Fetching
    <2>. QED
      BY <1>0, <1>1, <2>1 DEF Resuming, Has
  <1>7. CASE Server
    <2>1. UNCHANGED incoming
      BY <1>7, ServerFrame DEF vars, futVars
    <2>2. Has(c2s, "resume")
      <3>1. Within(c2s', c2s)
        BY <1>0, <1>7, ServerReads
      <3>. QED
        BY <1>1, <3>1, HasWithin
    <2>. QED
      BY <2>1, <2>2 DEF Asking
  <1>8. CASE UNCHANGED sessionVars
    BY <1>1, <1>8 DEF Asking, Has, sessionVars, vars, futVars
  <1>. QED
    BY <1>3, <1>4, <1>5, <1>6, <1>7, <1>8 DEF SessionNext

-----------------------------------------------------------------------------
(* The stanzas that the server remembers are an increasing list *)

LEMMA IncreasingInjective == ASSUME NEW q \in Seq(Nat), Increasing(q) PROVE IsInjective(q)
  <1>1. DOMAIN q \subseteq Nat /\ \A i \in DOMAIN q : q[i] \in Nat
    OBVIOUS
  <1>2. ASSUME NEW i \in DOMAIN q, NEW j \in DOMAIN q, q[i] = q[j] PROVE i = j
    BY <1>1, <1>2 DEF Increasing
  <1>. QED
    BY <1>2 DEF IsInjective

LEMMA IncreasingBefore ==
    ASSUME NEW q \in Seq(Nat), Increasing(q), NEW x, NEW y, Before(q, x, y)
    PROVE  x < y
  BY DEF Increasing, Before

LEMMA IncreasingAppend ==
    ASSUME NEW q \in Seq(Nat), Increasing(q), NEW x \in Nat, \A y \in ToSet(q) : y < x
    PROVE  Increasing(Append(q, x))
  <1>1. /\ DOMAIN Append(q, x) = 1..(Len(q) + 1) /\ Len(q) \in Nat /\ DOMAIN q = 1..Len(q)
        /\ \A i \in 1..Len(q) : Append(q, x)[i] = q[i] /\ q[i] \in ToSet(q)
        /\ Append(q, x)[Len(q) + 1] = x
    BY InSequence
  <1>2. ASSUME NEW i \in DOMAIN Append(q, x), NEW j \in DOMAIN Append(q, x), i < j
        PROVE  Append(q, x)[i] < Append(q, x)[j]
    <2>1. i \in 1..Len(q)
      BY <1>1, <1>2
    <2>2. CASE j \in 1..Len(q)
      BY <1>1, <1>2, <2>1, <2>2 DEF Increasing
    <2>3. CASE j = Len(q) + 1
      BY <1>1, <2>1, <2>3
    <2>. QED
      BY <1>1, <2>2, <2>3
  <1>. QED
    BY <1>2 DEF Increasing

LEMMA AfterNothing == ASSUME NEW S, NEW q \in Seq(S) PROVE After(q, 0) = ToSet(q)
  BY DEF After, ToSet

LEMMA AfterMembers == ASSUME NEW S, NEW q \in Seq(S), NEW n \in Nat PROVE After(q, n) \subseteq ToSet(q)
  BY DEF After, ToSet

LEMMA AfterAppend ==
    ASSUME NEW S, NEW q \in Seq(S), NEW x \in S, NEW n \in 0..Len(q)
    PROVE  After(Append(q, x), n) = After(q, n) \cup {x}
  <1> DEFINE a == Append(q, x)
  <1>1. Len(a) = Len(q) + 1 /\ Len(q) \in Nat /\ a[Len(q) + 1] = x /\ \A i \in 1..Len(q) : a[i] = q[i]
    OBVIOUS
  <1>. HIDE DEF a
  <1>2. (n + 1)..Len(a) = ((n + 1)..Len(q)) \cup {Len(q) + 1}
    BY <1>1
  <1>3. \A i \in (n + 1)..Len(q) : a[i] = q[i]
    BY <1>1
  <1>4. After(a, n) = After(q, n) \cup {x}
    BY <1>1, <1>2, <1>3 DEF After
  <1>. QED
    BY <1>4 DEF a

\* What is left of a list when its first d elements are dropped.
LEMMA AfterDrop ==
    ASSUME NEW S, NEW q \in Seq(S), NEW n \in 0..Len(q), NEW d \in 0..n
    PROVE  LET rest == SubSeq(q, d + 1, Len(q))
           IN  /\ rest \in Seq(S) /\ Len(rest) = Len(q) - d
               /\ ToSet(rest) = After(q, d) /\ After(rest, n - d) = After(q, n)
               /\ Increasing(q) => Increasing(rest)
  <1> DEFINE rest == SubSeq(q, d + 1, Len(q))
  <1>1. /\ rest \in Seq(S) /\ Len(rest) = Len(q) - d /\ Len(q) \in Nat
        /\ \A i \in 1..Len(rest) : rest[i] = q[d + i]
        /\ DOMAIN q = 1..Len(q) /\ DOMAIN rest = 1..Len(rest)
    OBVIOUS
  <1>. HIDE DEF rest
  <1>2. ASSUME NEW k \in 0..(Len(q) - d) PROVE After(rest, k) = After(q, k + d)
    <2>1. ASSUME NEW i \in (k + 1)..Len(rest) PROVE rest[i] \in After(q, k + d)
      <3>1. d + i \in (k + d + 1)..Len(q) /\ rest[i] = q[d + i]
        BY <1>1
      <3>. QED
        BY <3>1 DEF After
    <2>2. ASSUME NEW i \in (k + d + 1)..Len(q) PROVE q[i] \in After(rest, k)
      <3>1. i - d \in (k + 1)..Len(rest) /\ i - d \in 1..Len(rest) /\ d + (i - d) = i
        BY <1>1
      <3>2. rest[i - d] = q[i]
        BY <1>1, <3>1
      <3>. QED
        BY <3>1, <3>2 DEF After
    <2>. QED
      BY <2>1, <2>2 DEF After
  <1>3. ToSet(rest) = After(q, d)
    <2>1. 0 \in 0..(Len(q) - d) /\ 0 + d = d
      BY <1>1
    <2>2. After(rest, 0) = After(q, 0 + d)
      BY <1>2, <2>1
    <2>. QED
      BY <1>1, <2>1, <2>2, AfterNothing
  <1>4. After(rest, n - d) = After(q, n)
    <2>1. n - d \in 0..(Len(q) - d) /\ (n - d) + d = n
      BY <1>1
    <2>2. After(rest, n - d) = After(q, (n - d) + d)
      BY <1>2, <2>1
    <2>. QED
      BY <2>1, <2>2
  <1>5. ASSUME Increasing(q), NEW i \in DOMAIN rest, NEW j \in DOMAIN rest, i < j
        PROVE  rest[i] < rest[j]
    <2>1. d + i \in DOMAIN q /\ d + j \in DOMAIN q /\ d + i < d + j
      BY <1>1, <1>5
    <2>2. q[d + i] < q[d + j]
      BY <1>5, <2>1 DEF Increasing
    <2>3. rest[i] = q[d + i] /\ rest[j] = q[d + j]
      BY <1>1, <1>5
    <2>. QED
      BY <2>2, <2>3
  <1>6. /\ rest \in Seq(S) /\ Len(rest) = Len(q) - d
        /\ ToSet(rest) = After(q, d) /\ After(rest, n - d) = After(q, n)
        /\ Increasing(q) => Increasing(rest)
    BY <1>1, <1>3, <1>4, <1>5 DEF Increasing
  <1>. QED
    BY <1>6 DEF rest

\* The least of the stanzas after the first n is the next one.
Least(m, set, rest) == set = rest \cup {m} /\ \A x \in rest : m < x

LEMMA AfterNext ==
    ASSUME NEW q \in Seq(Nat), Increasing(q), NEW n \in 0..Len(q), NEW m, NEW rest,
           Least(m, After(q, n), rest)
    PROVE  n + 1 <= Len(q) /\ After(q, n + 1) = rest
  <1>0. After(q, n) = rest \cup {m} /\ (\A x \in rest : m < x) /\ m \in After(q, n)
    BY DEF Least
  <1>1. Len(q) \in Nat /\ DOMAIN q = 1..Len(q) /\ \A i \in 1..Len(q) : q[i] \in Nat
    OBVIOUS
  <1>2. PICK j \in (n + 1)..Len(q) : m = q[j]
    BY <1>0 DEF After
  <1>3. n + 1 \in (n + 1)..Len(q) /\ n + 1 \in 1..Len(q) /\ j \in 1..Len(q)
    BY <1>1, <1>2
  <1>4. q[n + 1] \in rest \cup {m}
    BY <1>0, <1>3 DEF After
  <1>5. j = n + 1
    <2>. SUFFICES ASSUME j # n + 1 PROVE FALSE
      OBVIOUS
    <2>1. n + 1 < j
      BY <1>2, <1>3
    <2>2. q[n + 1] < m
      BY <1>1, <1>2, <1>3, <2>1 DEF Increasing
    <2>3. q[n + 1] \in Nat /\ m \in Nat
      BY <1>1, <1>2, <1>3
    <2>4. q[n + 1] \in rest
      BY <1>4, <2>2, <2>3
    <2>5. m < q[n + 1]
      BY <1>0, <2>4
    <2>. QED
      BY <2>2, <2>3, <2>5
  <1>6. ASSUME NEW i \in (n + 2)..Len(q) PROVE m < q[i]
    <2>1. i \in DOMAIN q /\ n + 1 \in DOMAIN q /\ n + 1 < i
      BY <1>1, <1>3
    <2>. QED
      BY <1>2, <1>5, <2>1 DEF Increasing
  <1>7. (n + 1)..Len(q) = {n + 1} \cup (n + 2)..Len(q)
    BY <1>1, <1>3
  <1>8. m \notin rest
    BY <1>0, <1>1, <1>2, <1>3
  <1>9. {q[i] : i \in (n + 2)..Len(q)} = rest
    <2>1. {q[i] : i \in (n + 1)..Len(q)} = {m} \cup {q[i] : i \in (n + 2)..Len(q)}
      BY <1>2, <1>5, <1>7
    <2>2. m \notin {q[i] : i \in (n + 2)..Len(q)}
      BY <1>1, <1>2, <1>3, <1>6
    <2>. QED
      BY <1>0, <1>8, <2>1, <2>2 DEF After
  <1>10. After(q, n + 1) = {q[i] : i \in (n + 2)..Len(q)}
    <2>1. (n + 1) + 1 = n + 2
      BY <1>1
    <2>. QED
      BY <2>1 DEF After
  <1>11. n + 1 <= Len(q)
    BY <1>1, <1>3
  <1>. QED
    BY <1>9, <1>10, <1>11

(* The stanzas that the pipe holds *)

LEMMA NumberedStanzas ==
    /\ Numbered \subseteq Nat /\ Numbered \subseteq Inbound /\ BindResult \notin Numbered
    /\ \A m \in Numbered : Stanza(m) \in ToClient /\ Stanza(m) # BindReply
    /\ \A m, n : Stanza(m) = Stanza(n) <=> m = n
    /\ \A e, m : e.k # "stanza" => e # Stanza(m)
    /\ \A m : Stanza(m) = BindReply => m = BindResult
  <1>1. Numbered \subseteq Nat /\ Numbered \subseteq Inbound /\ BindResult \notin Numbered
    BY SessionAssumption DEF Numbered
  <1>2. \A m, n : Stanza(m) = Stanza(n) <=> m = n
    <2>1. ASSUME NEW m, NEW n, Stanza(m) = Stanza(n) PROVE m = n
      <3>1. Stanza(m).m = m /\ Stanza(n).m = n
        BY Kinds
      <3>. QED
        BY <2>1, <3>1
    <2>. QED
      BY <2>1
  <1>3. \A e, m : e.k # "stanza" => e # Stanza(m)
    <2>1. \A m : Stanza(m).k = "stanza"
      BY Kinds
    <2>. QED
      BY <2>1
  <1>4. \A m : Stanza(m) = BindReply => m = BindResult
    BY <1>2 DEF BindReply
  <1>5. ASSUME NEW m \in Numbered PROVE Stanza(m) \in ToClient /\ Stanza(m) # BindReply
    <2>1. m \in Inbound /\ m # BindResult
      BY <1>1, <1>5
    <2>2. Stanza(m) \in ToClient
      BY <2>1, ElementTypes
    <2>3. Stanza(m) # BindReply
      BY <2>1, <1>4
    <2>. QED
      BY <2>2, <2>3
  <1>. QED
    BY <1>1, <1>2, <1>3, <1>4, <1>5

LEMMA WiderList == ASSUME NEW S, NEW T, S \subseteq T, NEW q \in Seq(S) PROVE q \in Seq(T)
  OBVIOUS

LEMMA NumberedLists == ASSUME NEW q \in Seq(Numbered) PROVE q \in Seq(Nat)
  <1>1. Numbered \subseteq Nat
    BY NumberedStanzas
  <1>. QED
    BY <1>1, WiderList

LEMMA PendingWithin == ASSUME Within(Pipe', Pipe) PROVE Pending' \subseteq Pending
  BY DEF Within, Pending

LEMMA PendingKept ==
    ASSUME NEW e, ToSet(Pipe') = ToSet(Pipe) \/ ToSet(Pipe') = ToSet(Pipe) \cup {e} \/ ToSet(Pipe) = ToSet(Pipe') \cup {e},
           e.k # "stanza" \/ e = BindReply
    PROVE  Pending' = Pending
  <1>1. \A m \in Numbered : e # Stanza(m)
    BY NumberedStanzas
  <1>. QED
    BY <1>1 DEF Pending

LEMMA PendingAnswer ==
    ASSUME TypeOK, SessionTypeOK, UNCHANGED <<ifut, incoming>>, NEW e, Answers(e), e.k # "stanza" \/ e = BindReply
    PROVE  Pending' = Pending
  BY PipeSent, PendingKept DEF Answers

LEMMA PendingTaken ==
    ASSUME TypeOK, SessionTypeOK, NEW e, Take(e), e.k # "stanza" \/ e = BindReply
    PROVE  Pending' = Pending
  <1>1. ToSet(Pipe) = ToSet(Pipe') \cup {e}
    BY PipeTaken
  <1>. QED
    BY <1>1, PendingKept

LEMMA PendingFetched ==
    ASSUME TypeOK, SessionTypeOK, Fetching, UNCHANGED <<ifut, incoming>>, Head(s2c).k # "stanza"
    PROVE  Pending' = Pending
  <1>1. ifut \in Seq(ToClient) /\ incoming \in Seq(ToClient) /\ s2c \in Seq(ToClient) /\ s2c # <<>>
    BY PipeTypes DEF Fetching
  <1>2. Tail(s2c) \in Seq(ToClient) /\ ToSet(s2c) = {Head(s2c)} \cup ToSet(Tail(s2c))
    BY <1>1, ElementsOfTail
  <1>3. Pipe' = ifut \o (incoming \o Tail(s2c))
    BY DEF Pipe, Fetching
  <1>4. ToSet(Pipe') = ToSet(ifut) \cup ToSet(incoming) \cup ToSet(Tail(s2c))
    <2>1. \A c \in Seq(ToClient) :
             ToSet(ifut \o (incoming \o c)) = ToSet(ifut) \cup ToSet(incoming) \cup ToSet(c)
      BY <1>1, ViewOfThree
    <2>. QED
      BY <1>2, <1>3, <2>1
  <1>5. ToSet(Pipe) = ToSet(Pipe') \cup {Head(s2c)}
    BY <1>2, <1>4, PipeView
  <1>. QED
    BY <1>5, PendingKept

\* The stanza that is taken from the pipe is the least one in it.
LEMMA StanzaTaken ==
    ASSUME SessionInv, InOrder, NEW m \in Numbered, Take(Stanza(m))
    PROVE  /\ Pending = Pending' \cup {m} /\ \A n \in Pending' : m < n
           /\ \A n \in Handed : n < m
  <1>1. /\ ToSet(Pipe) = {Stanza(m)} \cup ToSet(Pipe')
        /\ \A x, y : Before(Pipe, x, y) <=> Before(Pipe', x, y) \/ (x = Stanza(m) /\ y \in ToSet(Pipe'))
    BY PipeTaken DEF SessionInv, IInv
  <1>2. Pending = Pending' \cup {m}
    BY <1>1, NumberedStanzas DEF Pending
  <1>3. ASSUME NEW n \in Pending' PROVE m < n
    <2>1. Stanza(n) \in ToSet(Pipe') /\ n \in Numbered
      BY DEF Pending
    <2>2. Before(Pipe, Stanza(m), Stanza(n))
      BY <1>1, <2>1
    <2>. QED
      BY <2>1, <2>2 DEF InOrder
  <1>4. \A n \in Handed : n < m
    BY <1>2 DEF InOrder
  <1>. QED
    BY <1>2, <1>3, <1>4

LEMMA InOrderKept ==
    ASSUME InOrder, Within(Pipe', Pipe), UNCHANGED <<sent, handed>>,
           Increasing(sess'.out), ToSet(sess'.out) \subseteq counted', counted' \subseteq counted
    PROVE  InOrder'
  <1>1. Pending' \subseteq Pending /\ Handed' = Handed
    BY PendingWithin DEF Handed
  <1>2. Out' = ToSet(sess'.out) /\ (HandedInOrder' <=> HandedInOrder)
    BY DEF Out, HandedInOrder
  <1>3. \A m, n : Before(Pipe', Stanza(m), Stanza(n)) => Before(Pipe, Stanza(m), Stanza(n))
    BY DEF Within
  <1>. QED
    BY <1>1, <1>2, <1>3 DEF InOrder

LEMMA InOrderStep ==
    ASSUME SessionInv, InOrder, InControl, Asking, Counting, [SessionNext]_sessionVars, stray' = {}
    PROVE  InOrder'
  <1>0. /\ TypeOK /\ ControlInv /\ SessionTypeOK /\ ClientControl /\ Binding /\ Enabling /\ Resuming
    BY DEF SessionInv, IInv
  <1>0a. /\ sess \in SessionRecord /\ sess.out \in Seq(Numbered) /\ sess.out \in Seq(Nat)
         /\ handed \in Seq(Numbered) /\ handed \in Seq(Nat) /\ inCtr \in Counter /\ sent \in Nat
    BY <1>0, NumberedLists DEF SessionTypeOK, SessionRecord, TypeOK
  <1>0b. Increasing(sess.out) /\ Out = ToSet(sess.out) /\ Out \subseteq counted
    BY DEF InOrder, Out
  <1>0c. Increasing(<<>>) /\ ToSet(<<>>) = {}
    BY ElementsOfEmpty DEF Increasing
  <1>. USE <1>0, <1>0a, <1>0b
  <1>1. CASE Client(ClientStep)
    <2>1. UNCHANGED <<s2c, link, sess, sent, counted>> /\ ClientEffect
      BY <1>1, ClientEffects DEF serverVars
    <2>. USE <2>1
    <2>2. ASSUME Within(Pipe', Pipe), UNCHANGED handed PROVE InOrder'
      BY <2>2, InOrderKept
    <2>3. CASE Idle
      BY <2>2, <2>3 DEF Idle, Unheard, Within
    <2>4. CASE Halt
      BY <2>2, <2>4, PipeHalted DEF Halt, Unheard
    <2>5. CASE AskAck \/ AskEnable \/ AskResume \/ DoResume \/ AcceptRefusal \/ GiveUpResume
               \/ \E t \in Tokens : Transmit(t)
      <3>1. UNCHANGED <<ifut, incoming, handed>>
        BY <2>5 DEF AskAck, AskEnable, AskResume, DoResume, AcceptRefusal, GiveUpResume, Transmit, Unheard
      <3>2. Pipe' = Pipe
        BY <3>1 DEF Pipe
      <3>. QED
        BY <2>2, <3>1, <3>2 DEF Within
    <2>6. CASE \/ TakeRequest \/ \E h \in Counter : TakeAck(h)
               \/ \E e \in Element : TakeIgnored(e)
      <3>1. PICK e : Take(e) /\ UNCHANGED handed
        BY <2>6 DEF TakeRequest, TakeAck, TakeIgnored, Unheard
      <3>. QED
        BY <2>2, <3>1, PipeTaken
    <2>7. ASSUME NEW m \in Inbound, TakeStanza(m) PROVE InOrder'
      <3>1. Take(Stanza(m)) /\ Within(Pipe', Pipe)
        BY <2>7, PipeTaken DEF TakeStanza
      <3>2. CASE m = BindResult
        BY <2>2, <2>7, <3>1, <3>2 DEF TakeStanza
      <3>3. CASE m # BindResult
        <4>1. m \in Numbered /\ m \in Nat
          BY <3>3, NumberedStanzas DEF Numbered
        <4>2. Pending = Pending' \cup {m} /\ (\A n \in Pending' : m < n) /\ \A n \in Handed : n < m
          BY <3>1, <4>1, StanzaTaken
        <4>3. handed' = Append(handed, m)
          BY <2>7, <3>3 DEF TakeStanza
        <4>4. Handed' = Handed \cup {m}
          BY <4>1, <4>3, ElementsOfAppend DEF Handed
        <4>5. Increasing(handed) <=> HandedInOrder
          BY DEF Increasing, HandedInOrder
        <4>6. Increasing(handed') <=> HandedInOrder'
          BY DEF Increasing, HandedInOrder
        <4>7. HandedInOrder'
          BY <4>1, <4>2, <4>3, <4>5, <4>6, IncreasingAppend DEF InOrder, Handed
        <4>8. \A x, y \in Numbered : Before(Pipe', Stanza(x), Stanza(y)) => x < y
          BY <3>1 DEF InOrder, Within
        <4>9. Out' = Out /\ Increasing(sess'.out)
          BY DEF Out
        <4>10. \A x \in Pending', n \in Handed' : n < x
          BY <4>2, <4>4 DEF InOrder
        <4>. QED
          BY <4>2, <4>4, <4>7, <4>8, <4>9, <4>10 DEF InOrder
      <3>. QED
        BY <3>2, <3>3
    <2>. QED
      BY <2>3, <2>4, <2>5, <2>6, <2>7 DEF ClientEffect
  <1>2. CASE AskBind
    <2>1. UNCHANGED <<ifut, incoming, s2c, sess, sent, counted, handed>>
      BY <1>2 DEF AskBind, vars, futVars, serverVars
    <2>2. Pipe' = Pipe
      BY <2>1 DEF Pipe
    <2>. QED
      BY <2>1, <2>2, InOrderKept DEF Within
  <1>3. CASE Reconnect
    <2>1. /\ s2c' = <<>> /\ ~Running /\ UNCHANGED <<ifut, incoming, sent, counted, handed>>
          /\ sess' \in {sess, NoSession}
      BY <1>3 DEF Reconnect, Connect, futVars
    <2>2. ifut = <<>> /\ incoming \in Seq(ToClient)
      BY <2>1, PipeTypes DEF ControlInv, Running
    <2>3. Pipe' = incoming
      BY <2>1, <2>2 DEF Pipe
    <2>4. Within(Pipe', Pipe)
      BY <2>3, PipeView DEF Within
    <2>5. sess'.out \in {sess.out, <<>>}
      BY <2>1 DEF NoSession
    <2>. QED
      BY <1>0c, <2>1, <2>4, <2>5, InOrderKept
  <1>4. CASE Receive
    <2>1. UNCHANGED <<sess, sent, counted, handed>> /\ Within(Pipe', Pipe)
      BY <1>4, ReceiveCases, ReceivePipe DEF Fetching, serverVars
    <2>. QED
      BY <2>1, InOrderKept
  <1>5. CASE Server
    <2>1. UNCHANGED <<ifut, incoming, handed>>
      BY <1>5, ServerFrame DEF vars, futVars
    <2>. USE <2>1
    <2>2. ASSUME NEW e, e.k # "stanza" \/ e = BindReply, UNCHANGED s2c \/ Answers(e), UNCHANGED sent,
                 Increasing(sess'.out), ToSet(sess'.out) \subseteq counted', counted' \subseteq counted
          PROVE  InOrder'
      <3>1. CASE UNCHANGED s2c
        BY <2>2, <3>1, InOrderKept DEF Pipe, Within
      <3>2. CASE Answers(e)
        <4>1. Pending' = Pending
          BY <2>2, <3>2, PendingAnswer
        <4>2. \A m, n \in Numbered : Before(Pipe', Stanza(m), Stanza(n)) => Before(Pipe, Stanza(m), Stanza(n))
          BY <2>2, <3>2, PipeSent, NumberedStanzas DEF Answers
        <4>3. Handed' = Handed /\ (HandedInOrder' <=> HandedInOrder) /\ Out' = ToSet(sess'.out)
          BY DEF Handed, HandedInOrder, Out
        <4>. QED
          BY <2>2, <4>1, <4>2, <4>3 DEF InOrder
      <3>. QED
        BY <2>2, <3>1, <3>2
    <2>3. CASE HandleBind \/ HandleStanza \/ HandleRequest \/ RefuseEnable \/ RequestAck
      <3>1. sess'.out = sess.out /\ UNCHANGED <<sent, counted>>
        BY <2>3 DEF HandleBind, HandleStanza, HandleRequest, RefuseEnable, RequestAck, SessionRecord, serverVars
      <3>2. \E e : (e.k # "stanza" \/ e = BindReply) /\ (UNCHANGED s2c \/ Answers(e))
        BY <2>3, ServerAnswers, Kinds, AnswerKinds
      <3>. QED
        BY <2>2, <3>1, <3>2
    <2>4. CASE HandleAck
      <3>1. PICK h \in Counter : /\ Reading(SMAck(h)) /\ UNCHANGED <<s2c, sent, counted>>
                                  /\ sess' = IF link = "sm" THEN AckedBy(sess, h) ELSE sess
        BY <2>4 DEF HandleAck
      <3>2. link = "sm" => InOff(h) <= Len(sess.out)
        BY <3>1, ReadingView DEF Counting
      <3>3. Increasing(sess'.out) /\ ToSet(sess'.out) \subseteq counted
        <4>1. CASE link # "sm"
          BY <3>1, <4>1
        <4>2. CASE link = "sm"
          <5>1. InOff(h) \in Nat /\ sess'.out = SubSeq(sess.out, InOff(h) + 1, Len(sess.out))
            BY <3>1, <4>2, AckedByType
          <5>2. InOff(h) \in 0..Len(sess.out) /\ InOff(h) \in 0..InOff(h)
            BY <3>2, <4>2, <5>1
          <5>3. Increasing(sess'.out) /\ ToSet(sess'.out) = After(sess.out, InOff(h))
            BY <5>1, <5>2, AfterDrop
          <5>. QED
            BY <5>1, <5>3, AfterMembers
        <4>. QED
          BY <4>1, <4>2
      <3>. QED
        BY <2>2, <3>1, <3>3, Kinds
    <2>5. CASE HandleEnable
      <3>1. sess'.out = <<>> /\ counted' = {} /\ UNCHANGED sent
        BY <2>5 DEF HandleEnable, NoSession
      <3>. QED
        BY <1>0c, <2>2, <2>5, <3>1, ServerAnswers, AnswerKinds
    <2>6. CASE RefuseResume
      <3>1. sess'.out = <<>> /\ UNCHANGED <<sent, counted>>
        BY <2>6 DEF RefuseResume, NoSession
      <3>. QED
        BY <1>0c, <2>2, <2>6, <3>1, ServerAnswers, AnswerKinds
    <2>7. CASE HandleResume
      <3>1. ResumeGranted
        BY <2>7, ResumeView
      <3>1a. incoming = <<>>
        BY <2>7, ReadKinds, Kinds DEF HandleResume, Resume, Asking
      <3>2. incoming = <<>> /\ smEnabled /\ sess.on /\ UNCHANGED <<sent, counted>>
        BY <3>1, <3>1a DEF ResumeGranted
      <3>3. Pipe' = s2c'
        BY <3>1, <3>2 DEF ResumeGranted
      <3>4. InOff(inCtr) \in Nat /\ sess'.out = SubSeq(sess.out, InOff(inCtr) + 1, Len(sess.out))
        BY <3>1, AckedByType DEF ResumeGranted
      <3>5. InOff(inCtr) \in 0..Len(sess.out) /\ InOff(inCtr) \in 0..InOff(inCtr)
        BY <3>2, <3>4 DEF Counting
      <3>6. Increasing(sess'.out) /\ ToSet(sess'.out) = Remaining /\ sess'.out \in Seq(Numbered)
        BY <3>4, <3>5, AfterDrop DEF Remaining
      <3>7. Remaining \subseteq Out
        BY <3>4, AfterMembers DEF Remaining
      <3>8. Pending' = Remaining
        <4>1. \A m \in Numbered : Stanza(m) # Resumption(sess.h)
          BY NumberedStanzas, AnswerKinds
        <4>2. Remaining \subseteq Numbered
          BY <3>6, ElementsInSet
        <4>3. ToSet(s2c') = {Resumption(sess.h)} \cup {Stanza(m) : m \in Remaining}
          BY <3>1, <3>6 DEF ResumeGranted
        <4>. QED
          BY <3>3, <4>1, <4>2, <4>3, NumberedStanzas DEF Pending
      <3>9. ASSUME NEW m \in Numbered, NEW n \in Numbered, Before(Pipe', Stanza(m), Stanza(n))
            PROVE  m < n
        <4>1. Stanza(m) # Resumption(sess.h)
          BY NumberedStanzas, AnswerKinds
        <4>2. Before(StanzasOf(sess'.out), Stanza(m), Stanza(n))
          BY <3>1, <3>3, <3>9, <4>1 DEF ResumeGranted
        <4>3. Before(sess'.out, m, n)
          BY <3>6, <4>2, StanzasOfView
        <4>4. sess'.out \in Seq(Nat)
          BY <3>6, NumberedLists
        <4>. QED
          BY <3>6, <4>3, <4>4, IncreasingBefore
      <3>10. Handed' = Handed /\ (HandedInOrder' <=> HandedInOrder) /\ Out' = ToSet(sess'.out)
        BY DEF Handed, HandedInOrder, Out
      <3>11. \A m \in Pending', n \in Handed' : n < m
        BY <3>2, <3>8, <3>10 DEF Counting
      <3>. QED
        BY <3>2, <3>6, <3>7, <3>8, <3>9, <3>10, <3>11 DEF InOrder
    <2>8. CASE SendInbound
      <3> DEFINE x == sent + 1
      <3>1. /\ x \in Numbered /\ Answers(Stanza(x)) /\ sent' = x
            /\ \/ sess' = [sess EXCEPT !.out = Append(@, x)] /\ counted' = counted \cup {x}
               \/ UNCHANGED <<sess, counted>>
        BY <2>8, ServerAnswers DEF SendInbound
      <3>2. \/ sess'.out = Append(sess.out, x) /\ counted' = counted \cup {x}
            \/ sess'.out = sess.out /\ counted' = counted
        BY <3>1 DEF SessionRecord
      <3>3. x \in Nat /\ \A y \in 1..sent : y < x
        OBVIOUS
      <3>4. 1..sent \subseteq 1..x /\ x \in 1..x
        OBVIOUS
      <3>. HIDE DEF x
      <3>5. Increasing(sess'.out) /\ Out' \subseteq counted' /\ counted' \subseteq 1..x
        <4>1. counted \subseteq 1..sent
          BY DEF InOrder
        <4>2. CASE sess'.out = Append(sess.out, x) /\ counted' = counted \cup {x}
          BY <3>1, <3>3, <3>4, <4>1, <4>2, IncreasingAppend, ElementsOfAppend DEF Out
        <4>3. CASE sess'.out = sess.out /\ counted' = counted
          BY <3>4, <4>1, <4>3 DEF Out
        <4>. QED
          BY <3>2, <4>2, <4>3
      <3>6. /\ ToSet(Pipe') = ToSet(Pipe) \cup {Stanza(x)}
            /\ \A a, b : Before(Pipe', a, b) <=> Before(Pipe, a, b) \/ (a \in ToSet(Pipe) /\ b = Stanza(x))
        BY <3>1, PipeSent DEF Answers
      <3>7. Pending' = Pending \cup {x}
        BY <3>1, <3>6, NumberedStanzas DEF Pending
      <3>8. \A m, n \in Numbered : Before(Pipe', Stanza(m), Stanza(n)) => m < n
        <4>1. \A m \in Numbered : Stanza(m) \in ToSet(Pipe) => m < x
          BY <3>3 DEF InOrder, Pending
        <4>. QED
          BY <3>6, <4>1, NumberedStanzas DEF InOrder
      <3>9. Handed' = Handed /\ (HandedInOrder' <=> HandedInOrder)
        BY DEF Handed, HandedInOrder
      <3>10. \A m \in Pending', n \in Handed' : n < m
        BY <3>3, <3>7, <3>9 DEF InOrder
      <3>. QED
        BY <3>1, <3>4, <3>5, <3>7, <3>8, <3>9, <3>10 DEF InOrder
    <2>. QED
      BY <1>5, <2>3, <2>4, <2>5, <2>6, <2>7, <2>8 DEF Server
  <1>6. CASE UNCHANGED sessionVars
    <2>1. UNCHANGED <<ifut, incoming, s2c, sess, sent, counted, handed>>
      BY <1>6 DEF sessionVars, vars, futVars, serverVars
    <2>2. Pipe' = Pipe
      BY <2>1 DEF Pipe
    <2>. QED
      BY <2>1, <2>2, InOrderKept DEF Within
  <1>. QED
    BY <1>1, <1>2, <1>3, <1>4, <1>5, <1>6 DEF SessionNext

Following(m) == \E r \in BOOLEAN : Before(s2c, Enabled(r), Stanza(m))

LEMMA EstablishingKept ==
    ASSUME Establishing,
           ~smEnabled' /\ link' = "sm" /\ conn' = "open" =>
               /\ ~smEnabled /\ link = "sm" /\ conn = "open" /\ Out' = Out /\ counted' = counted
               /\ \A m \in Numbered : Following(m)' <=> Following(m)
    PROVE  Establishing'
  BY DEF Establishing, Following

LEMMA EstablishingStep ==
    ASSUME SessionInv, Establishing, [SessionNext]_sessionVars
    PROVE  Establishing'
  <1>0. SessionTypeOK /\ Enabling /\ Resuming /\ s2c \in Seq(ToClient)
    BY DEF SessionInv, SessionTypeOK
  <1>0a. \A r, m : Enabled(r).k = "enabled" /\ Stanza(m).k = "stanza"
    BY Kinds DEF Enabled
  <1>. USE <1>0
  <1>1. CASE Client(ClientStep)
    <2>1. UNCHANGED <<s2c, link, sess, counted>> /\ ClientEffect
      BY <1>1, ClientEffects DEF serverVars
    <2>2. ~smEnabled' /\ link = "sm" /\ conn' = "open" => ~smEnabled /\ conn = "open"
      BY <2>1
      DEF ClientEffect, Idle, Halt, AskAck, TakeRequest, AskEnable, AskResume, DoResume, AcceptRefusal, GiveUpResume,
          Transmit, TakeStanza, TakeAck, TakeIgnored, Take, Busy, SMKept, Resuming
    <2>. QED
      BY <2>1, <2>2, EstablishingKept DEF Following, Out
  <1>2. CASE AskBind
    BY <1>2, EstablishingKept DEF AskBind, vars, smVars, connVars, serverVars, Following, Out
  <1>3. CASE Reconnect
    BY <1>3 DEF Reconnect, Establishing
  <1>4. CASE Receive
    <2>1. UNCHANGED <<link, sess, counted>> /\ Fetching /\ s2c # <<>> /\ s2c' = Tail(s2c)
      BY <1>4, ReceiveCases DEF Fetching, serverVars
    <2>2. ~smEnabled' /\ conn' = "open" =>
             ~smEnabled /\ conn = "open" /\ Head(s2c).k # "enabled"
      <3>1. CASE ReceiveQueued \/ ReceiveUnknown
        BY <3>1, KindOfElement DEF ReceiveQueued, ReceiveUnknown, SMKept
      <3>2. CASE ReceiveRefused
        BY <3>2, AnswerKinds DEF ReceiveRefused, SMKept
      <3>3. CASE \E r \in BOOLEAN : ReceiveEnabled(r)
        BY <3>3 DEF ReceiveEnabled
      <3>4. ASSUME NEW h, ReceiveResumed(h) PROVE Head(s2c).k = "resumed" /\ SMKept /\ conn = "open"
        BY <3>4, AnswerKinds DEF ReceiveResumed, Resumption
      <3>5. ASSUME NEW h, ReceiveResumeFailed(h) PROVE Head(s2c).k = "resumefailed" /\ SMKept /\ conn = "open"
        BY <3>5, AnswerKinds DEF ReceiveResumeFailed
      <3>. QED
        BY <1>4, <3>1, <3>2, <3>3, <3>4, <3>5, ReceiveEffects DEF SMKept
    <2>3. Head(s2c).k # "enabled" => \A m : Following(m)' <=> Following(m)
      <3>. SUFFICES ASSUME Head(s2c).k # "enabled", NEW m PROVE Following(m)' <=> Following(m)
        OBVIOUS
      <3>1. \A r : Enabled(r) # Head(s2c)
        BY <1>0a
      <3>2. \A r : Before(s2c, Enabled(r), Stanza(m)) <=> Before(s2c', Enabled(r), Stanza(m))
        BY <2>1, <3>1, BeforeTail
      <3>. QED
        BY <3>2 DEF Following
    <2>. QED
      BY <2>1, <2>2, <2>3, EstablishingKept DEF Out
  <1>5. CASE Server
    <2>1. UNCHANGED <<smEnabled, conn>>
      BY <1>5, ServerFrame DEF vars, smVars, connVars
    <2>. USE <2>1
    <2>2. ASSUME NEW e, Answers(e)
          PROVE  /\ \A m \in Numbered : Following(m)' <=>
                       Following(m) \/ (e = Stanza(m) /\ \E r \in BOOLEAN : Enabled(r) \in ToSet(s2c))
      <3>1. \A x, y : Before(s2c', x, y) <=> Before(s2c, x, y) \/ (x \in ToSet(s2c) /\ y = e)
        BY <2>2, BeforeAppend DEF Answers
      <3>. QED
        BY <3>1 DEF Following
    <2>3. ASSUME link' = "sm" => link = "sm" /\ sess'.out = sess.out /\ UNCHANGED counted,
                 UNCHANGED s2c \/ \E e : Answers(e) /\ \A m \in Numbered : e # Stanza(m)
          PROVE  Establishing'
      <3>1. \A m \in Numbered : Following(m)' <=> Following(m)
        BY <2>2, <2>3 DEF Following
      <3>. QED
        BY <2>3, <3>1, EstablishingKept DEF Out
    <2>4. CASE HandleBind \/ HandleStanza \/ HandleRequest \/ RefuseEnable \/ RequestAck
      <3>1. link' = "sm" => link = "sm" /\ sess'.out = sess.out /\ UNCHANGED counted
        BY <2>4 DEF HandleBind, HandleStanza, HandleRequest, RefuseEnable, RequestAck, serverVars,
           SessionTypeOK, SessionRecord
      <3>2. UNCHANGED s2c \/ \E e : Answers(e) /\ \A m \in Numbered : e # Stanza(m)
        BY <2>4, ServerAnswers, NumberedStanzas, Kinds, AnswerKinds
      <3>. QED
        BY <2>3, <3>1, <3>2
    <2>5. CASE HandleAck
      <3>1. Has(c2s, "a") /\ UNCHANGED <<s2c, link>>
        BY <2>5, ReadKinds, Kinds DEF HandleAck
      <3>. QED
        BY <3>1 DEF Enabling, Establishing
    <2>6. CASE HandleEnable
      <3>1. PICK r \in BOOLEAN : Answers(Enabled(r))
        BY <2>6, ServerAnswers DEF Enabled
      <3>2. sess'.out = <<>> /\ counted' = {} /\ ~Has(s2c, "enabled")
        BY <2>6, ReadKinds, Kinds DEF HandleEnable, NoSession, Enabling, Enable
      <3>3. \A m \in Numbered : Enabled(r) # Stanza(m)
        BY <1>0a
      <3>4. ASSUME NEW m \in Numbered PROVE ~Following(m)
        BY <1>0a, <3>2, BeforeMembers DEF Following, Has
      <3>5. \A m \in Numbered : ~Following(m)'
        BY <2>2, <3>1, <3>3, <3>4
      <3>6. Out' = {}
        BY <3>2, ElementsOfEmpty DEF Out
      <3>. QED
        BY <3>2, <3>5, <3>6 DEF Establishing, Following
    <2>7. CASE HandleResume \/ RefuseResume
      <3>1. PICK h \in Counter : Reading(Resume(h))
        BY <2>7 DEF HandleResume, RefuseResume, Resume
      <3>2. smEnabled
        BY <3>1, ReadKinds, Kinds DEF Resuming
      <3>. QED
        BY <3>2 DEF Establishing
    <2>8. CASE SendInbound
      <3> DEFINE x == sent + 1
      <3>1. x \in Numbered /\ Answers(Stanza(x)) /\ UNCHANGED link
        BY <2>8, ServerAnswers DEF SendInbound
      <3>2. link = "sm" => sess' = [sess EXCEPT !.out = Append(@, x)] /\ counted' = counted \cup {x}
        BY <2>8 DEF SendInbound
      <3>. HIDE DEF x
      <3>3. link = "sm" => Out' = Out \cup {x}
        <4>. SUFFICES ASSUME link = "sm" PROVE Out' = Out \cup {x}
          OBVIOUS
        <4>1. sess.out \in Seq(Numbered) /\ sess'.out = Append(sess.out, x)
          BY <3>2 DEF SessionTypeOK, SessionRecord
        <4>. QED
          BY <3>1, <4>1, ElementsOfAppend DEF Out
      <3>4. ~smEnabled /\ link = "sm" /\ conn = "open" =>
               /\ \E r \in BOOLEAN : Enabled(r) \in ToSet(s2c)
               /\ counted = Out /\ \A m \in Numbered : m \in Out <=> Following(m)
        <4>. SUFFICES ASSUME ~smEnabled, link = "sm", conn = "open"
                      PROVE  \E r \in BOOLEAN : Enabled(r) \in ToSet(s2c)
          BY DEF Establishing, Following
        <4>1. PICK e \in ToSet(s2c) : e.k = "enabled" /\ e \in ToClient
          BY ElementsInSet DEF Enabling, Has
        <4>2. PICK r \in BOOLEAN : e = Enabled(r)
          BY <4>1, KindOfElement, AnswerKinds DEF ToClient, Enabled
        <4>. QED
          BY <4>1, <4>2
      <3>5. \A m : Stanza(x) = Stanza(m) <=> x = m
        BY NumberedStanzas
      <3>6. \A m \in Numbered : Following(m)' <=>
               Following(m) \/ (x = m /\ \E r \in BOOLEAN : Enabled(r) \in ToSet(s2c))
        BY <2>2, <3>1, <3>5
      <3>. QED
        BY <3>1, <3>2, <3>3, <3>4, <3>6 DEF Establishing, Following
    <2>. QED
      BY <1>5, <2>4, <2>5, <2>6, <2>7, <2>8 DEF Server
  <1>6. CASE UNCHANGED sessionVars
    BY <1>6, EstablishingKept DEF sessionVars, vars, smVars, connVars, serverVars, Following, Out
  <1>. QED
    BY <1>1, <1>2, <1>3, <1>4, <1>5, <1>6 DEF SessionNext

LEMMA InOffType == ASSUME SessionTypeOK, NEW h \in Counter PROVE InOff(h) \in Nat /\ sess.base \in Counter
  BY ModulusAssumption DEF SessionTypeOK, SessionRecord, InOff, Counter

\* Steps that change neither what the server remembers nor what the client has counted.
LEMMA CountingKept ==
    ASSUME Counting, sess'.out = sess.out, sess'.base = sess.base,
           smEnabled' => smEnabled /\ inCtr' = inCtr /\ sess'.on = sess.on /\ UNCHANGED <<counted, handed>>,
           Receiving' => Receiving /\ Pending' = Pending,
           link' = "sm" => link = "sm",
           \A h \in Counter : SMAck(h) \in ToSet(c2s') => SMAck(h) \in ToSet(c2s),
           \A g, h \in Counter : Before(c2s', SMAck(g), SMAck(h)) => Before(c2s, SMAck(g), SMAck(h))
    PROVE  Counting'
  <1>1. \A h : InOff(h)' = InOff(h)
    BY DEF InOff
  <1>2. smEnabled' => InOff(inCtr)' = InOff(inCtr)
    BY DEF InOff
  <1>3. smEnabled' => Remaining' = Remaining /\ Handed' = Handed
    BY <1>2 DEF Remaining, Handed
  <1>4. smEnabled' /\ sess'.on =>
          /\ InOff(inCtr)' <= Len(sess'.out)
          /\ \A m \in Remaining', n \in Handed' : n < m
          /\ counted' \ Remaining' \subseteq Handed'
    BY <1>2, <1>3 DEF Counting
  <1>5. Receiving' => Pending' = Remaining'
    BY <1>3 DEF Counting, Receiving
  <1>6. link' = "sm" => \A h \in Counter : SMAck(h) \in ToSet(c2s') =>
          InOff(h)' <= Len(sess'.out) /\ (smEnabled' => InOff(h)' <= InOff(inCtr)')
    BY <1>1, <1>2 DEF Counting
  <1>7. \A g, h \in Counter : Before(c2s', SMAck(g), SMAck(h)) => InOff(g)' <= InOff(h)'
    BY <1>1 DEF Counting
  <1>. QED
    BY <1>4, <1>5, <1>6, <1>7 DEF Counting

LEMMA CountingStep ==
    ASSUME SessionInv, InOrder, InControl, Asking, Establishing, Counting, [SessionNext]_sessionVars, stray' = {}
    PROVE  Counting'
  <1>0. /\ TypeOK /\ ControlInv /\ SessionTypeOK /\ ClientControl /\ Binding /\ Enabling /\ Resuming
    BY DEF SessionInv, IInv
  <1>0a. /\ sess \in SessionRecord /\ sess.out \in Seq(Numbered) /\ sess.out \in Seq(Nat)
         /\ handed \in Seq(Numbered) /\ inCtr \in Counter /\ sent \in Nat
         /\ sess.base \in Counter /\ s2c \in Seq(ToClient) /\ InOff(inCtr) \in Nat /\ Len(sess.out) \in Nat
    BY <1>0, NumberedLists, InOffType DEF SessionTypeOK, SessionRecord, TypeOK
  <1>0b. Increasing(sess.out) /\ Len(sess.out) < W
    BY DEF InOrder, SessionInv, Bounded
  <1>0c. NoResume.at = "none"
    BY DEF NoResume
  <1>. USE <1>0, <1>0a, <1>0b, <1>0c
  <1>1. CASE Client(ClientStep)
    <2>1. UNCHANGED <<s2c, link, sess, counted>> /\ ClientEffect
      BY <1>1, ClientEffects DEF serverVars
    <2>. USE <2>1
    <2>2. CASE Idle
      BY <2>2, CountingKept DEF Idle, SMKept, Unheard, Receiving, Pending
    <2>3. CASE Halt
      BY <2>3, CountingKept DEF Halt, SMKept, Unheard, Receiving
    <2>4. ASSUME NEW e \in ToServer, e.k # "a", c2s' = Append(c2s, e), UNCHANGED <<smEnabled, inCtr, handed>>,
                 Receiving' => Receiving /\ Pending' = Pending
          PROVE  Counting'
      <3>1. \A h : e # SMAck(h)
        BY <2>4, Kinds
      <3>2. /\ ToSet(c2s') = ToSet(c2s) \cup {e}
            /\ \A x, y : Before(c2s', x, y) <=> Before(c2s, x, y) \/ (x \in ToSet(c2s) /\ y = e)
        BY <2>4, WritingView
      <3>. QED
        BY <2>4, <3>1, <3>2, CountingKept
    <2>5. ASSUME NEW t \in Tokens, Transmit(t) PROVE Counting'
      BY <2>4, <2>5, ElementTypes, Kinds DEF Transmit, Busy, Receiving, Pending, Pipe
    <2>6. CASE AskAck
      BY <2>4, <2>6, ElementTypes, Kinds DEF AskAck, Busy, SMKept, Receiving, Pending, Pipe
    <2>7. CASE AskEnable
      BY <2>4, <2>7, ElementTypes, Kinds DEF AskEnable, SMKept, Receiving, Pending, Pipe
    <2>8. CASE AskResume
      <3>1. link = "plain"
        BY <2>8 DEF AskResume, Resuming
      <3>. QED
        BY <2>4, <2>8, <3>1, ElementTypes, Kinds DEF AskResume, SMKept, Receiving
    <2>9. CASE DoResume \/ GiveUpResume \/ AcceptRefusal
      BY <2>9, CountingKept DEF DoResume, GiveUpResume, AcceptRefusal, SMKept, Unheard, Receiving, Pending, Pipe
    <2>10. CASE TakeRequest
      <3>1. /\ Take(SMRequest) /\ smEnabled /\ SMKept /\ c2s' = Append(c2s, SMAck(inCtr)) /\ UNCHANGED handed
            /\ Running /\ UNCHANGED classes
        BY <2>10 DEF TakeRequest, Take, Busy
      <3>2. Pending' = Pending
        BY <3>1, PendingTaken, Kinds
      <3>3. link = "sm" /\ sess.on
        BY <3>1 DEF Enabling
      <3>4. /\ ToSet(c2s') = ToSet(c2s) \cup {SMAck(inCtr)}
            /\ \A x, y : Before(c2s', x, y) <=> Before(c2s, x, y) \/ (x \in ToSet(c2s) /\ y = SMAck(inCtr))
        BY <3>1, WritingView, ElementTypes
      <3>5. \A g, h : SMAck(g) = SMAck(h) <=> g = h
        BY Kinds
      <3>6. InOff(inCtr)' = InOff(inCtr) /\ \A h : InOff(h)' = InOff(h)
        BY <3>1 DEF InOff, SMKept
      <3>7. Remaining' = Remaining /\ Handed' = Handed /\ smEnabled' = smEnabled /\ (Receiving' <=> Receiving)
        BY <3>1, <3>6 DEF Remaining, Handed, SMKept, Receiving
      <3>8. \A h \in Counter : SMAck(h) \in ToSet(c2s') =>
               InOff(h) <= Len(sess.out) /\ InOff(h) <= InOff(inCtr)
        BY <3>1, <3>3, <3>4, <3>5 DEF Counting
      <3>9. \A g, h \in Counter : Before(c2s', SMAck(g), SMAck(h)) => InOff(g) <= InOff(h)
        BY <3>1, <3>3, <3>4, <3>5 DEF Counting
      <3>. QED
        BY <3>1, <3>2, <3>6, <3>7, <3>8, <3>9 DEF Counting
    <2>11. ASSUME NEW h \in Counter, TakeAck(h) PROVE Counting'
      <3>1. Take(SMAck(h)) /\ Unheard /\ UNCHANGED <<smEnabled, inCtr, classes>>
        BY <2>11 DEF TakeAck, Take, Busy
      <3>2. Pending' = Pending
        BY <3>1, PendingTaken, Kinds
      <3>. QED
        BY <3>1, <3>2, CountingKept DEF Unheard, Receiving
    <2>12. ASSUME NEW e \in Element, TakeIgnored(e) PROVE Counting'
      BY <2>12, CountingKept DEF TakeIgnored, Unheard, SMKept, Receiving
    <2>13. ASSUME NEW m \in Inbound, TakeStanza(m) PROVE Counting'
      <3>1. /\ Take(Stanza(m)) /\ UNCHANGED <<smEnabled, c2s, classes>> /\ Running
            /\ inCtr' = IF smEnabled THEN (inCtr + 1) % W ELSE inCtr
        BY <2>13 DEF TakeStanza, Take, Busy
      <3>2. CASE ~smEnabled
        BY <3>1, <3>2, CountingKept DEF Receiving
      <3>3. CASE smEnabled
        <4> DEFINE k == InOff(inCtr)
        <4>1. Stanza(m) \in ToSet(Pipe)
          BY <3>1, PipeTaken
        <4>2. m # BindResult
          BY <3>3, <4>1 DEF Binding, ClientControl, BindReply
        <4>3. m \in Numbered /\ handed' = Append(handed, m)
          BY <2>13, <4>2 DEF TakeStanza, Numbered
        <4>4. link = "sm" /\ sess.on /\ Receiving
          BY <3>1, <3>3 DEF Enabling, ClientControl, Receiving
        <4>5. /\ Pending = Pending' \cup {m} /\ (\A n \in Pending' : m < n)
              /\ \A n \in Handed : n < m
          BY <3>1, <4>3, StanzaTaken
        <4>6. Pending = Remaining /\ k <= Len(sess.out) /\ k \in 0..Len(sess.out)
          BY <3>3, <4>4 DEF Counting
        <4>7. k + 1 <= Len(sess.out) /\ After(sess.out, k + 1) = Pending'
          <5> DEFINE rest == Pending'
          <5>1. Least(m, After(sess.out, k), rest)
            BY <4>5, <4>6 DEF Remaining, Least
          <5>. HIDE DEF k, rest
          <5>2. k + 1 <= Len(sess.out) /\ After(sess.out, k + 1) = rest
            BY <4>6, <5>1, AfterNext
          <5>. QED
            BY <5>2 DEF rest
        <4>8. InOff((inCtr + 1) % W) = k + 1
          <5>1. k + 1 < W
            BY <4>7, ModulusAssumption
          <5>. QED
            BY <5>1, ModSuccessor DEF InOff
        <4>9. InOff(inCtr)' = k + 1 /\ \A h : InOff(h)' = InOff(h)
          BY <3>1, <3>3, <4>8 DEF InOff
        <4>10. Remaining' = Pending'
          BY <4>7, <4>9 DEF Remaining
        <4>11. Handed' = Handed \cup {m}
          BY <4>3, ElementsOfAppend DEF Handed
        <4>12. /\ \A x \in Remaining', n \in Handed' : n < x
               /\ counted' \ Remaining' \subseteq Handed'
          BY <3>3, <4>4, <4>5, <4>6, <4>10, <4>11 DEF Counting
        <4>13. \A h \in Counter : SMAck(h) \in ToSet(c2s') =>
                 InOff(h) <= Len(sess.out) /\ InOff(h) <= k + 1
          <5>. SUFFICES ASSUME NEW h \in Counter, SMAck(h) \in ToSet(c2s)
                        PROVE  InOff(h) <= Len(sess.out) /\ InOff(h) <= k + 1
            BY <3>1
          <5>1. InOff(h) <= Len(sess.out) /\ InOff(h) <= k /\ InOff(h) \in Nat
            BY <3>3, <4>4, InOffType DEF Counting
          <5>. HIDE DEF k
          <5>. QED
            BY <4>6, <5>1
        <4>14. \A g, h \in Counter : Before(c2s', SMAck(g), SMAck(h)) => InOff(g) <= InOff(h)
          BY <3>1 DEF Counting
        <4>. HIDE DEF k
        <4>. QED
          BY <3>1, <4>7, <4>9, <4>10, <4>12, <4>13, <4>14 DEF Counting
      <3>. QED
        BY <3>2, <3>3
    <2>. QED
      BY <2>2, <2>3, <2>5, <2>6, <2>7, <2>8, <2>9, <2>10, <2>11, <2>12, <2>13 DEF ClientEffect
  <1>2. CASE AskBind
    <2>1. /\ c2s' = Append(c2s, Bind)
          /\ UNCHANGED <<smEnabled, inCtr, handed, ifut, incoming, s2c, link, sess, counted, classes>>
      BY <1>2 DEF AskBind, Bind, vars, smVars, futVars, streamVars, connVars, serverVars
    <2>2. /\ ToSet(c2s') = ToSet(c2s) \cup {Bind}
          /\ \A x, y : Before(c2s', x, y) <=> Before(c2s, x, y) \/ (x \in ToSet(c2s) /\ y = Bind)
      BY <2>1, WritingView, ElementTypes
    <2>3. \A h : Bind # SMAck(h)
      BY Kinds
    <2>. QED
      BY <2>1, <2>2, <2>3, CountingKept DEF Receiving, Pending, Pipe
  <1>3. CASE Reconnect
    <2>1. /\ c2s' = <<>> /\ link' = "plain" /\ UNCHANGED <<smEnabled, inCtr, counted, handed>>
          /\ sess' \in {sess, NoSession}
      BY <1>3 DEF Reconnect, Connect, smVars
    <2>2. ~Receiving'
      BY <2>1 DEF Receiving
    <2>3. \A x, y : x \notin ToSet(c2s') /\ ~Before(c2s', x, y)
      BY <2>1, ElementsOfEmpty, BeforeEmpty
    <2>4. CASE sess' = sess
      BY <2>1, <2>2, <2>3, <2>4, CountingKept
    <2>5. CASE sess' = NoSession
      <3>1. ~sess'.on
        BY <2>5 DEF NoSession
      <3>. QED
        BY <2>1, <2>2, <2>3, <3>1 DEF Counting
    <2>. QED
      BY <2>1, <2>4, <2>5
  <1>4. CASE Receive
    <2>1. UNCHANGED <<c2s, bind, link, sess, counted, handed>> /\ Fetching /\ Within(Pipe', Pipe)
      BY <1>4, ReceiveCases, ReceivePipe DEF Fetching, serverVars
    <2>. USE <2>1
    <2>2. CASE ReceiveQueued
      <3>1. Pipe' = Pipe
        BY <2>2, PipeReceived DEF ReceiveQueued, Still
      <3>. QED
        BY <2>2, <3>1, CountingKept DEF ReceiveQueued, SMKept, Receiving, Pending
    <2>3. CASE ReceiveUnknown
      <3>1. ~(smEnabled /\ "stanza" \in classes)
        BY <2>3, Unheeded
      <3>. QED
        BY <2>3, <3>1, CountingKept DEF ReceiveUnknown, SMKept, Receiving
    <2>4. CASE ReceiveRefused
      <3>1. Pending' = Pending
        BY <2>4, PendingFetched, AnswerKinds DEF ReceiveRefused, Still
      <3>. QED
        BY <2>4, <3>1, CountingKept DEF ReceiveRefused, SMKept, Receiving
    <2>5. ASSUME NEW r \in BOOLEAN, ReceiveEnabled(r) PROVE Counting'
      <3>1. /\ Head(s2c).k = "enabled" /\ s2c # <<>> /\ smop = "requested" /\ conn = "open" /\ smEnabled'
            /\ inCtr' = 0 /\ UNCHANGED <<ifut, incoming>>
        BY <2>5, AnswerKinds DEF ReceiveEnabled, Still, Fetching
      <3>2. ~smEnabled /\ bind = "yes" /\ Has(s2c, "enabled")
        BY <3>1, FetchKinds DEF ControlInv, ClientControl
      <3>3. link = "sm" /\ sess.base = 0 /\ ~Has(c2s, "a")
        BY <3>2 DEF Enabling
      <3>4. counted = Out /\ \A m \in Numbered : m \in Out <=> Following(m)
        BY <3>1, <3>2, <3>3 DEF Establishing, Following
      <3>5. Pending' = Out /\ Out \subseteq Pending
        <4>1. ~\E e \in ToSet(ifut \o incoming) : e.k = "stanza"
          BY <1>4, <3>1, NotStray DEF Early
        <4>2. \A m : Stanza(m) \notin ToSet(ifut) /\ Stanza(m) \notin ToSet(incoming)
          <5>1. ToSet(ifut \o incoming) = ToSet(ifut) \cup ToSet(incoming)
            BY PipeTypes, ElementsOfConcat
          <5>. QED
            BY <4>1, <5>1, Kinds
        <4>3. \A m \in Numbered : m \in Pending <=> Stanza(m) \in ToSet(s2c)
          BY <4>2, PipeView DEF Pending
        <4>4. Pending' = Pending
          BY <3>1, AnswerKinds, PendingFetched
        <4>5. Head(s2c) = Enabled(r)
          BY <2>5 DEF ReceiveEnabled, Enabled
        <4>6. ASSUME NEW m \in Numbered PROVE Following(m) <=> Stanza(m) \in ToSet(s2c)
          <5>1. Following(m) => Stanza(m) \in ToSet(s2c)
            BY BeforeMembers DEF Following
          <5>2. ToSet(s2c) = {Head(s2c)} \cup ToSet(Tail(s2c))
            BY <3>1, ElementsOfTail
          <5>3. Stanza(m) # Head(s2c)
            BY <3>1, Kinds
          <5>4. Stanza(m) \in ToSet(Tail(s2c)) => Before(s2c, Enabled(r), Stanza(m))
            BY <3>1, <4>5, BeforeTail
          <5>. QED
            BY <5>1, <5>2, <5>3, <5>4 DEF Following
        <4>7. Out \subseteq Numbered
          BY ElementsInSet DEF Out
        <4>. QED
          BY <3>4, <4>3, <4>4, <4>6, <4>7 DEF Pending
      <3>6. InOff(inCtr)' = 0
        <4>1. 0 \in Counter /\ (0 - 0) % W = 0
          BY CounterType, ModZero
        <4>. QED
          BY <3>1, <3>3, <4>1 DEF InOff
      <3>7. Remaining' = Out
        BY <3>6, AfterNothing DEF Remaining, Out
      <3>8. \A h : SMAck(h) \notin ToSet(c2s)
        BY <3>3, Kinds DEF Has
      <3>9. \A x, y : Before(c2s, x, y) => x \in ToSet(c2s)
        BY BeforeMembers DEF SessionTypeOK
      <3>10. Handed' = Handed /\ \A m \in Out, n \in Handed : n < m
        BY <3>5 DEF Handed, InOrder
      <3>11. \A g, h \in Counter : ~Before(c2s', SMAck(g), SMAck(h))
        BY <3>8, <3>9
      <3>. QED
        BY <3>4, <3>5, <3>6, <3>7, <3>8, <3>10, <3>11 DEF Counting
    <2>6. ASSUME NEW h, ReceiveResumed(h) PROVE Counting'
      <3>1. Pending' = Pending
        BY <2>6, PendingFetched DEF ReceiveResumed, Still
      <3>. QED
        BY <2>6, <3>1, CountingKept DEF ReceiveResumed, SMKept, Receiving
    <2>7. ASSUME NEW h, ReceiveResumeFailed(h) PROVE Counting'
      <3>1. Pending' = Pending
        BY <2>7, PendingFetched DEF ReceiveResumeFailed, Still
      <3>. QED
        BY <2>7, <3>1, CountingKept DEF ReceiveResumeFailed, SMKept, Receiving
    <2>. QED
      BY <1>4, <2>2, <2>3, <2>4, <2>5, <2>6, <2>7, ReceiveEffects
  <1>5. CASE Server
    <2>1. UNCHANGED <<ifut, incoming, bind, smEnabled, inCtr, classes, handed, conn>>
      BY <1>5, ServerFrame DEF vars, futVars, smVars, streamVars, connVars
    <2>2. Within(c2s', c2s)
      BY <1>5, ServerReads
    <2>. USE <2>1, <2>2
    <2>3. ASSUME sess'.out = sess.out, sess'.base = sess.base, sess'.on = sess.on, UNCHANGED counted,
                 link' = "sm" => link = "sm", Pending' = Pending
          PROVE  Counting'
      BY <2>3, CountingKept DEF Receiving, Within
    <2>4. ASSUME UNCHANGED s2c \/ \E e : Answers(e) /\ (e.k # "stanza" \/ e = BindReply)
          PROVE  Pending' = Pending
      <3>1. CASE UNCHANGED s2c
        BY <3>1 DEF Pending, Pipe
      <3>. QED
        BY <2>4, <3>1, PendingAnswer
    <2>5. CASE HandleBind \/ HandleStanza \/ HandleRequest \/ RefuseEnable \/ RequestAck
      <3>1. /\ sess'.out = sess.out /\ sess'.base = sess.base /\ sess'.on = sess.on /\ UNCHANGED counted
            /\ link' = "sm" => link = "sm"
        BY <2>5 DEF HandleBind, HandleStanza, HandleRequest, RefuseEnable, RequestAck, SessionRecord, serverVars
      <3>2. UNCHANGED s2c \/ \E e : Answers(e) /\ (e.k # "stanza" \/ e = BindReply)
        BY <2>5, ServerAnswers, Kinds, AnswerKinds
      <3>. QED
        BY <2>3, <2>4, <3>1, <3>2
    <2>6. CASE HandleAck
      <3>1. PICK h \in Counter : /\ Reading(SMAck(h)) /\ UNCHANGED <<s2c, link, counted>>
                                  /\ sess' = IF link = "sm" THEN AckedBy(sess, h) ELSE sess
        BY <2>6 DEF HandleAck
      <3>2. Pending' = Pending
        BY <2>4, <3>1
      <3>3. /\ ToSet(c2s) = {SMAck(h)} \cup ToSet(c2s')
            /\ \A x, y : Before(c2s, x, y) <=> Before(c2s', x, y) \/ (x = SMAck(h) /\ y \in ToSet(c2s'))
        BY <3>1, ReadingView
      <3>4. link = "sm" /\ sess.on
        BY <3>1, ReadKinds, Kinds DEF Enabling
      <3> DEFINE d == InOff(h)
      <3>5. /\ sess'.out = SubSeq(sess.out, d + 1, Len(sess.out)) /\ sess'.base = h /\ sess'.on = sess.on
            /\ d \in Nat
        BY <3>1, <3>4, AckedByType
      <3>6. d <= Len(sess.out) /\ (smEnabled => d <= InOff(inCtr))
        BY <3>3, <3>4 DEF Counting
      <3>7. \A x \in Counter : d <= InOff(x) => InOff(x)' = InOff(x) - d /\ InOff(x) \in Nat
        <4>1. \A x \in Counter : InOff(x)' = (x - h) % W
          BY <3>5 DEF InOff
        <4>. QED
          BY <4>1, ModDifference, InOffType DEF InOff
      <3>8. smEnabled => InOff(inCtr)' = InOff(inCtr) - d
        <4>1. InOff(inCtr)' = (inCtr - h) % W
          BY <3>5 DEF InOff
        <4>. QED
          BY <3>6, <4>1, ModDifference DEF InOff
      <3>. HIDE DEF d
      <3>9. d \in 0..Len(sess.out)
        BY <3>5, <3>6
      <3>10. Len(sess'.out) = Len(sess.out) - d
        <4>1. d \in 0..d
          BY <3>5
        <4>. QED
          BY <3>5, <3>9, <4>1, AfterDrop
      <3>11. smEnabled => InOff(inCtr)' <= Len(sess'.out) /\ Remaining' = Remaining
        <4>. SUFFICES ASSUME smEnabled PROVE InOff(inCtr)' <= Len(sess'.out) /\ Remaining' = Remaining
          OBVIOUS
        <4>1. InOff(inCtr) \in 0..Len(sess.out) /\ d \in 0..InOff(inCtr)
          BY <3>4, <3>5, <3>6 DEF Counting
        <4>2. After(sess'.out, InOff(inCtr) - d) = After(sess.out, InOff(inCtr))
          BY <3>5, <4>1, AfterDrop
        <4>3. InOff(inCtr) - d <= Len(sess.out) - d
          BY <3>5, <4>1
        <4>. QED
          BY <3>8, <3>10, <4>2, <4>3 DEF Remaining
      <3>12. Handed' = Handed /\ (Receiving' <=> Receiving)
        BY <3>1 DEF Handed, Receiving
      <3>13. \A x \in Counter : SMAck(x) \in ToSet(c2s') => d <= InOff(x)
        BY <3>3 DEF Counting, d
      <3>14. \A x \in Counter : SMAck(x) \in ToSet(c2s') =>
                InOff(x)' <= Len(sess'.out) /\ (smEnabled => InOff(x)' <= InOff(inCtr)')
        <4>. SUFFICES ASSUME NEW x \in Counter, SMAck(x) \in ToSet(c2s')
                      PROVE  InOff(x)' <= Len(sess'.out) /\ (smEnabled => InOff(x)' <= InOff(inCtr)')
          OBVIOUS
        <4>1. InOff(x)' = InOff(x) - d /\ InOff(x) \in Nat
          BY <3>7, <3>13
        <4>2. InOff(x) <= Len(sess.out) /\ (smEnabled => InOff(x) <= InOff(inCtr))
          BY <3>3, <3>4 DEF Counting
        <4>. QED
          BY <3>5, <3>8, <3>10, <4>1, <4>2
      <3>15. \A x, y \in Counter : Before(c2s', SMAck(x), SMAck(y)) => InOff(x)' <= InOff(y)'
        <4>. SUFFICES ASSUME NEW x \in Counter, NEW y \in Counter, Before(c2s', SMAck(x), SMAck(y))
                      PROVE  InOff(x)' <= InOff(y)'
          OBVIOUS
        <4>1. c2s' \in Seq(ToServer)
          BY <3>1 DEF Reading, SessionTypeOK
        <4>2. SMAck(x) \in ToSet(c2s') /\ SMAck(y) \in ToSet(c2s')
          BY <4>1, BeforeMembers
        <4>3. InOff(x)' = InOff(x) - d /\ InOff(y)' = InOff(y) - d /\ InOff(x) \in Nat /\ InOff(y) \in Nat
          BY <3>7, <3>13, <4>2
        <4>4. InOff(x) <= InOff(y)
          BY <3>3 DEF Counting
        <4>. QED
          BY <3>5, <4>3, <4>4
      <3>16. Receiving' => Pending' = Remaining'
        BY <3>2, <3>11, <3>12 DEF Counting, Receiving
      <3>17. smEnabled' /\ sess'.on => /\ \A m \in Remaining', n \in Handed' : n < m
                                       /\ counted' \ Remaining' \subseteq Handed'
        BY <3>1, <3>4, <3>11, <3>12 DEF Counting
      <3>. QED
        BY <3>11, <3>14, <3>15, <3>16, <3>17 DEF Counting
    <2>7. CASE HandleEnable
      <3>1. Reading(Enable) /\ sess'.out = <<>>
        BY <2>7 DEF HandleEnable, Enable, NoSession
      <3>2. ~smEnabled /\ ~Has(c2s, "a")
        BY <3>1, ReadKinds, Kinds DEF Enabling
      <3>3. \A h : SMAck(h) \notin ToSet(c2s)
        BY <3>2, Kinds DEF Has
      <3>4. \A x, y : Before(c2s, x, y) => x \in ToSet(c2s)
        BY BeforeMembers DEF SessionTypeOK
      <3>5. /\ \A h \in Counter : SMAck(h) \notin ToSet(c2s')
            /\ \A g, h \in Counter : ~Before(c2s', SMAck(g), SMAck(h))
        BY <3>3, <3>4 DEF Within
      <3>. QED
        BY <3>2, <3>5 DEF Counting, Receiving
    <2>8. CASE RefuseResume
      <3>1. PICK h \in Counter : Reading(Resume(h))
        BY <2>8 DEF RefuseResume, Resume
      <3>2. link = "plain" /\ link' = link /\ c2s = <<Resume(inCtr)>> /\ ~sess'.on
        BY <2>8, <3>1, ReadKinds, Kinds DEF Resuming, RefuseResume, NoSession
      <3>3. c2s' = <<>>
        BY <3>1, <3>2 DEF Reading
      <3>4. \A x, y : ~Before(c2s', x, y)
        BY <3>3, BeforeEmpty
      <3>. QED
        BY <3>2, <3>4 DEF Counting, Receiving
    <2>9. CASE HandleResume
      <3> DEFINE d == InOff(inCtr)
      <3>1. ResumeGranted
        BY <2>9, ResumeView
      <3>1a. incoming = <<>>
        BY <2>9, ReadKinds, Kinds DEF HandleResume, Resume, Asking
      <3>2. incoming = <<>> /\ smEnabled /\ sess.on /\ UNCHANGED counted /\ c2s' = <<>>
        BY <3>1, <3>1a DEF ResumeGranted
      <3>3. Pipe' = s2c'
        BY <3>1, <3>2 DEF ResumeGranted
      <3>4. sess'.out = SubSeq(sess.out, d + 1, Len(sess.out)) /\ sess'.base = inCtr /\ d \in Nat
        BY <3>1, AckedByType DEF ResumeGranted
      <3>5. d \in 0..Len(sess.out) /\ d \in 0..d
        BY <3>2, <3>4 DEF Counting
      <3>6. InOff(inCtr)' = 0
        BY <3>4, ModZero DEF InOff
      <3>7. sess'.out \in Seq(Numbered) /\ ToSet(sess'.out) = Remaining /\ Len(sess'.out) \in Nat
        <4>1. sess'.out \in Seq(Numbered) /\ ToSet(sess'.out) = After(sess.out, d)
          <5>. HIDE DEF d
          <5>. QED
            BY <3>4, <3>5, AfterDrop
        <4>. QED
          BY <4>1 DEF Remaining
      <3>8. Remaining' = Remaining
        <4>1. After(sess'.out, 0) = ToSet(sess'.out)
          BY <3>7, AfterNothing
        <4>. QED
          BY <3>6, <3>7, <4>1 DEF Remaining
      <3>9. Pending' = Remaining
        <4>1. \A m \in Numbered : Stanza(m) # Resumption(sess.h)
          BY NumberedStanzas, AnswerKinds
        <4>2. Remaining \subseteq Numbered
          BY <3>7, ElementsInSet
        <4>3. ToSet(s2c') = {Resumption(sess.h)} \cup {Stanza(m) : m \in Remaining}
          BY <3>1, <3>7 DEF ResumeGranted
        <4>. QED
          BY <3>3, <4>1, <4>2, <4>3, NumberedStanzas DEF Pending
      <3>10. Handed' = Handed
        BY DEF Handed
      <3>11. \A x, y : x \notin ToSet(c2s') /\ ~Before(c2s', x, y)
        BY <3>2, ElementsOfEmpty, BeforeEmpty
      <3>12. InOff(inCtr)' <= Len(sess'.out)
        BY <3>6, <3>7
      <3>13. /\ \A m \in Remaining', n \in Handed' : n < m
             /\ counted' \ Remaining' \subseteq Handed'
        BY <3>2, <3>8, <3>10 DEF Counting
      <3>. QED
        BY <3>8, <3>9, <3>11, <3>12, <3>13 DEF Counting
    <2>10. CASE SendInbound /\ link # "sm"
      BY <2>10, CountingKept DEF SendInbound, Receiving, Within
    <2>11. CASE SendInbound /\ link = "sm"
      <3> DEFINE x == sent + 1
      <3>1. /\ x \in Numbered /\ Answers(Stanza(x)) /\ link = "sm" /\ UNCHANGED <<link, c2s>>
            /\ sess' = [sess EXCEPT !.out = Append(@, x)] /\ counted' = counted \cup {x}
        BY <2>11, ServerAnswers DEF SendInbound
      <3>2. /\ sess'.out = Append(sess.out, x) /\ sess'.base = sess.base /\ sess'.on = sess.on
            /\ Len(sess'.out) = Len(sess.out) + 1
        BY <3>1 DEF SessionRecord
      <3>3. sess.on /\ \A y \in 1..sent : y < x
        BY <3>1 DEF Enabling
      <3>. HIDE DEF x
      <3>4. Pending' = Pending \cup {x}
        <4>1. ToSet(Pipe') = ToSet(Pipe) \cup {Stanza(x)}
          BY <3>1, PipeSent DEF Answers
        <4>. QED
          BY <3>1, <4>1, NumberedStanzas DEF Pending
      <3>5. InOff(inCtr)' = InOff(inCtr) /\ \A h : InOff(h)' = InOff(h)
        BY <3>2 DEF InOff
      <3>6. smEnabled => InOff(inCtr) \in 0..Len(sess.out)
        BY <3>3 DEF Counting
      <3>7. smEnabled => Remaining' = Remaining \cup {x}
        BY <3>1, <3>2, <3>5, <3>6, AfterAppend DEF Remaining
      <3>8. Handed' = Handed /\ (Receiving' <=> Receiving) /\ \A n \in Handed : n < x
        BY <3>1, <3>3 DEF Handed, Receiving, InOrder
      <3>9. smEnabled => InOff(inCtr)' <= Len(sess'.out)
        BY <3>2, <3>5, <3>6
      <3>10. smEnabled => /\ \A m \in Remaining', n \in Handed' : n < m
                          /\ counted' \ Remaining' \subseteq Handed'
        BY <3>1, <3>3, <3>7, <3>8 DEF Counting
      <3>11. Receiving => smEnabled
        BY DEF Receiving
      <3>12. Receiving' => Pending' = Remaining'
        BY <3>4, <3>7, <3>8, <3>11 DEF Counting
      <3>13. \A h \in Counter : SMAck(h) \in ToSet(c2s') =>
                InOff(h)' <= Len(sess'.out) /\ (smEnabled => InOff(h)' <= InOff(inCtr)')
        <4>. SUFFICES ASSUME NEW h \in Counter, SMAck(h) \in ToSet(c2s')
                      PROVE  InOff(h)' <= Len(sess'.out) /\ (smEnabled => InOff(h)' <= InOff(inCtr)')
          OBVIOUS
        <4>1. InOff(h) <= Len(sess.out) /\ (smEnabled => InOff(h) <= InOff(inCtr)) /\ InOff(h) \in Nat
          BY <3>1, InOffType DEF Counting
        <4>2. InOff(h) <= Len(sess.out) + 1
          BY <4>1
        <4>. QED
          BY <3>2, <3>5, <4>1, <4>2
      <3>14. \A g, h \in Counter : Before(c2s', SMAck(g), SMAck(h)) => InOff(g)' <= InOff(h)'
        BY <3>1, <3>5 DEF Counting
      <3>. QED
        BY <3>9, <3>10, <3>12, <3>13, <3>14 DEF Counting
    <2>. QED
      BY <1>5, <2>5, <2>6, <2>7, <2>8, <2>9, <2>10, <2>11 DEF Server
  <1>6. CASE UNCHANGED sessionVars
    <2>1. UNCHANGED <<smEnabled, inCtr, handed, ifut, incoming, s2c, c2s, link, sess, counted, classes>>
      BY <1>6 DEF sessionVars, vars, futVars, serverVars, connVars, smVars, streamVars
    <2>. QED
      BY <2>1, CountingKept DEF Receiving, Pending, Pipe
  <1>. QED
    BY <1>1, <1>2, <1>3, <1>4, <1>5, <1>6 DEF SessionNext

-----------------------------------------------------------------------------
(* The theorems about the session *)

LEMMA InitInbound == SessionInit => InboundInv
  <1>. SUFFICES ASSUME SessionInit PROVE InboundInv
    OBVIOUS
  <1>1. /\ c2s = <<>> /\ s2c = <<>> /\ bind = "no" /\ link = "none" /\ sess = NoSession
        /\ sent = 0 /\ counted = {} /\ handed = <<>> /\ ifut = <<>> /\ incoming = <<>>
        /\ ~smEnabled /\ rsop = NoResume
    BY DEF SessionInit, Init
  <1>2. Pipe = <<>> /\ NoResume.at = "none" /\ sess.out = <<>>
    BY <1>1 DEF Pipe, NoResume, NoSession
  <1>3. ToSet(<<>>) = {} /\ Increasing(<<>>) /\ \A x, y : ~Before(<<>>, x, y)
    BY ElementsOfEmpty, BeforeEmpty DEF Increasing
  <1>4. InOrder
    BY <1>1, <1>2, <1>3 DEF InOrder, Out, Pending, Handed, HandedInOrder
  <1>5. InControl
    BY <1>1, <1>2 DEF InControl
  <1>5a. Asking
    BY <1>1, HasNothing DEF Asking
  <1>6. Establishing
    BY <1>1, <1>2, <1>3 DEF Establishing
  <1>7. Counting
    BY <1>1, <1>3 DEF Counting, Receiving
  <1>. QED
    BY <1>4, <1>5, <1>5a, <1>6, <1>7 DEF InboundInv

LEMMA InboundStep ==
    ASSUME SessionInv, stray = {} => InboundInv, [SessionNext]_sessionVars
    PROVE  (stray = {} => InboundInv)'
  BY NotStray, InOrderStep, InControlStep, AskingStep, EstablishingStep, CountingStep DEF InboundInv

\* No connection loss, however timed, breaks the invariant of the session.
THEOREM SessionInductive == SessionSpec => []SessionInv
  <1>1. SessionInit => SessionInv
    BY InitSession
  <1>2. SessionInv /\ [SessionNext]_sessionVars => SessionInv'
    BY SessionStep
  <1>. QED
    BY <1>1, <1>2, PTL DEF SessionSpec

\* In a session the stream takes only its own steps, so that what is proved of
\* a StanzaStream holds in every session.
THEOREM SessionOfAStream == SessionSpec => Spec
  <1>1. SessionInit => Init
    BY DEF SessionInit
  <1>2. SessionInv /\ [SessionNext]_sessionVars => [Next]_vars
    BY StreamStep DEF SessionInv
  <1>. QED
    BY <1>1, <1>2, SessionInductive, PTL DEF SessionSpec, Spec

\* No stanza is handled twice by the server, whatever is lost, resumed or
\* retransmitted.
THEOREM NothingHandledTwice == SessionSpec => []HandledOnce
  <1>1. SessionInv => HandledOnce
    BY DEF SessionInv, Transmission, HandledOnce
  <1>. QED
    BY <1>1, SessionInductive, PTL

LEMMA CountersOfTheServer == SessionInv => OutboundCounters
  <1>. SUFFICES ASSUME SessionInv PROVE OutboundCounters
    OBVIOUS
  <1>0. TypeOK /\ ControlInv /\ SessionTypeOK /\ Enabling /\ Outbound /\ Acks
    BY DEF SessionInv, IInv
  <1>1. ASSUME broker = "incoming", smEnabled, Head(ifut).k = "a"
        PROVE  ToDrop(Head(ifut).h) <= Len(unacked)
    <2>1. ifut # <<>> /\ ifut \in Seq(Element) /\ ToSet(ifut) \subseteq ToSet(Pipe)
      BY <1>0, <1>1, PipeView DEF ControlInv, TypeOK
    <2>2. Head(ifut) \in Element /\ Head(ifut) \in ToSet(Pipe)
      BY <2>1, ElementsOfTail
    <2>3. PICK h \in Counter : Head(ifut) = SMAck(h)
      BY <1>1, <2>2, Kinds DEF Element
    <2>4. Head(ifut).h = h
      BY <2>3, Kinds
    <2>5. link = "sm" /\ ToDrop(h) <= ToDrop(sess.h)
      BY <1>0, <1>1, <2>2, <2>3 DEF Acks
    <2>6. ToDrop(sess.h) <= Len(unacked)
      BY <1>0, <1>1, <2>5 DEF Enabling, Outbound, Exact
    <2>7. ToDrop(h) \in Nat /\ ToDrop(sess.h) \in Nat /\ Len(unacked) \in Nat
      BY <1>0, DropType DEF SessionTypeOK, SessionRecord, TypeOK
    <2>. QED
      BY <2>4, <2>5, <2>6, <2>7
  <1>2. rsop.h # NoCounter => ToDrop(rsop.h) <= Len(unacked)
    BY <1>0 DEF Outbound, Exact
  <1>. QED
    BY <1>1, <1>2 DEF OutboundCounters

\* In every session the server's counters, on their way or taken out of a
\* future, stay within the unacked stanzas of the client.
THEOREM ServerCountsWhatWasSent == SessionSpec => []OutboundCounters
  BY CountersOfTheServer, SessionInductive, PTL

\* The inductive invariant of received stanzas: it holds of every session until
\* it counts in Stream Management what does not belong to it.
THEOREM InboundInductive == SessionSpec => [](SessionInv /\ (stray = {} => InboundInv))
  <1>1. SessionInit => SessionInv /\ (stray = {} => InboundInv)
    BY InitSession, InitInbound
  <1>2. SessionInv /\ (stray = {} => InboundInv) /\ [SessionNext]_sessionVars
           => (SessionInv /\ (stray = {} => InboundInv))'
    BY SessionStep, InboundStep
  <1>. QED
    BY <1>1, <1>2, PTL DEF SessionSpec

LEMMA CountersOfTheClient == SessionInv /\ InboundInv => CountersSent
  <1>. SUFFICES ASSUME SessionInv, InboundInv PROVE CountersSent
    OBVIOUS
  <1>0. SessionTypeOK /\ Resuming /\ Counting /\ c2s \in Seq(ToServer)
    BY DEF SessionInv, InboundInv, SessionTypeOK
  <1>1. ASSUME link = "sm", c2s # <<>>, Head(c2s).k = "a"
        PROVE  (Head(c2s).h - sess.base) % W <= Len(sess.out)
    <2>1. Head(c2s) \in ToServer /\ Head(c2s) \in ToSet(c2s)
      BY <1>0, <1>1, ElementsOfTail
    <2>2. PICK h \in Counter : Head(c2s) = SMAck(h)
      BY <1>1, <2>1, Kinds DEF ToServer
    <2>3. Head(c2s).h = h
      BY <2>2, Kinds
    <2>4. InOff(h) <= Len(sess.out)
      BY <1>0, <1>1, <2>1, <2>2 DEF Counting
    <2>. QED
      BY <2>3, <2>4 DEF InOff
  <1>2. ASSUME sess.on, c2s # <<>>, Head(c2s).k = "resume"
        PROVE  (Head(c2s).h - sess.base) % W <= Len(sess.out)
    <2>1. Head(c2s) \in ToSet(c2s)
      BY <1>0, <1>2, ElementsOfTail
    <2>2. smEnabled /\ c2s = <<Resume(inCtr)>>
      BY <1>0, <1>2, <2>1 DEF Resuming, Has
    <2>3. Head(c2s).h = inCtr
      BY <2>2, Kinds
    <2>4. InOff(inCtr) <= Len(sess.out)
      BY <1>0, <1>2, <2>2 DEF Counting
    <2>. QED
      BY <2>3, <2>4 DEF InOff
  <1>. QED
    BY <1>1, <1>2 DEF CountersSent

\* No counter that the client sends, in an <a/> or in <resume/>, covers more than
\* the server remembers, unless the session has strayed.
THEOREM ClientCountsWhatWasSent == SessionSpec => []InboundCounters
  <1>1. SessionInv /\ (stray = {} => InboundInv) => InboundCounters
    BY CountersOfTheClient DEF InboundCounters
  <1>. QED
    BY <1>1, InboundInductive, PTL

\* What the server has forgotten, because the client acknowledged it, has reached
\* the application, unless the session has strayed.
THEOREM NoStanzaLost == SessionSpec => []NoInboundLoss
  <1>1. SessionInv /\ (stray = {} => InboundInv) => NoInboundLoss
    <2>. SUFFICES ASSUME SessionInv, InboundInv, smEnabled, sess.on
                  PROVE  counted \ Out \subseteq Handed
      BY DEF NoInboundLoss, Out, Handed
    <2>1. SessionTypeOK /\ sess.out \in Seq(Numbered) /\ inCtr \in Counter
      BY DEF SessionInv, IInv, TypeOK, SessionTypeOK, SessionRecord
    <2>2. Remaining \subseteq Out
      BY <2>1, AfterMembers, InOffType DEF Remaining, Out
    <2>. QED
      BY <2>2 DEF InboundInv, Counting
  <1>. QED
    BY <1>1, InboundInductive, PTL

\* The application gets the stanzas in the order in which they were sent, and
\* none twice, unless the session has strayed.
THEOREM StanzasInOrder == SessionSpec => []InboundInOrder
  <1>1. (stray = {} => InboundInv) => InboundInOrder
    BY DEF InboundInv, InOrder, InboundInOrder
  <1>. QED
    BY <1>1, InboundInductive, PTL

-----------------------------------------------------------------------------
(* The session implements the token contract: what a step does to the        *)
(* promises of the tokens.                                                   *)

TokenStep == Contract!Next \/ UNCHANGED <<promise, transferred>>

LEMMA PromiseCases ==
    /\ PromiseOf("NEW") = "NEW" /\ PromiseOf("ACTIVE") = "OPEN" /\ PromiseOf("SENT") = "OPEN"
    /\ PromiseOf("ACKED") = "DELIVERED" /\ PromiseOf("ABORTED") = "RETRACTED"
    /\ PromiseOf("DROPPED") = "WITHHELD" /\ PromiseOf("FAILED") = "WITHHELD"
    /\ PromiseOf("SENT_WITHOUT_SM") = "UNKNOWN" /\ PromiseOf("DISCONNECTED") = "UNKNOWN"
  BY DEF PromiseOf

LEMMA PromisesKept == UNCHANGED <<state, handled>> => TokenStep
  BY DEF TokenStep, Contract!Next, promise, transferred

\* One token's state changes.
LEMMA PromiseChanged ==
    ASSUME TypeOK, NEW t \in Tokens, NEW s, state' = [state EXCEPT ![t] = s], UNCHANGED <<handled, handed>>
    PROVE  \A from : promise[t] \in from => Contract!Change({t}, from, PromiseOf(s))
  <1>1. state \in [Tokens -> TokenState]
    BY DEF TypeOK
  <1>2. \A u \in Tokens : state'[u] = IF u \in {t} THEN s ELSE state[u]
    BY <1>1
  <1>3. promise' = [u \in Tokens |-> IF u \in {t} THEN PromiseOf(s) ELSE promise[u]]
    BY <1>2 DEF promise
  <1>4. UNCHANGED transferred
    BY DEF transferred
  <1>. QED
    BY <1>3, <1>4 DEF Contract!Change

\* Of the tokens without a verdict, those in S are given up and those in D,
\* which the server has handled, acknowledged.
LEMMA VerdictsGiven ==
    ASSUME TypeOK, UNCHANGED <<handled, handed>>, NEW S, NEW D,
           S \subseteq Tokens, D \subseteq Handled \cap Tokens, S \cap D = {},
           \A t \in S : state[t] \in QueuedState /\ state'[t] \in {"SENT_WITHOUT_SM", "DISCONNECTED"},
           \A t \in D : state[t] = "SENT" /\ state'[t] = "ACKED",
           \A t \in Tokens \ (S \cup D) : state'[t] = state[t]
    PROVE  TokenStep
  <1>1. \A t \in Tokens : promise[t] = PromiseOf(state[t]) /\ promise'[t] = PromiseOf(state'[t])
    BY DEF promise
  <1>2. /\ \A t \in S : promise[t] \in {"OPEN", "RETRACTED", "WITHHELD"} /\ promise'[t] = "UNKNOWN"
        /\ \A t \in D : promise[t] = "OPEN" /\ promise'[t] = "DELIVERED"
        /\ \A t \in Tokens \ (S \cup D) : promise'[t] = promise[t]
    BY <1>1, PromiseCases DEF QueuedState
  <1>3. promise' = [t \in Tokens |-> IF t \in S THEN "UNKNOWN" ELSE IF t \in D THEN "DELIVERED" ELSE promise[t]]
    <2>1. promise' = [t \in Tokens |-> promise'[t]]
      BY DEF promise
    <2>. QED
      BY <1>2, <2>1
  <1>4. UNCHANGED <<transferred, handed>> /\ transferred = Handled
    BY DEF transferred, Handled
  <1>5. CASE S # {}
    <2>1. Contract!GiveUp
      BY <1>2, <1>3, <1>4, <1>5 DEF Contract!GiveUp
    <2>. QED
      BY <2>1 DEF TokenStep, Contract!Next
  <1>6. CASE S = {} /\ D # {}
    <2>1. promise' = [t \in Tokens |-> IF t \in D THEN "DELIVERED" ELSE promise[t]]
      BY <1>3, <1>6
    <2>2. Contract!Change(D, {"OPEN"}, "DELIVERED")
      BY <1>2, <1>4, <1>6, <2>1 DEF Contract!Change
    <2>3. Contract!Confirm
      BY <1>4, <2>2 DEF Contract!Confirm
    <2>. QED
      BY <2>3 DEF TokenStep, Contract!Next
  <1>7. CASE S = {} /\ D = {}
    <2>1. promise' = promise
      BY <1>3, <1>7 DEF promise
    <2>. QED
      BY <1>4, <2>1 DEF TokenStep, Contract!Next
  <1>. QED
    BY <1>5, <1>6, <1>7

\* _send_stanza on a token of the queue, which the server cannot have handled.
LEMMA SendPromise ==
    ASSUME SessionInv, NEW t \in Queued, SendStanza(t), UNCHANGED <<handled, handed>>
    PROVE  TokenStep
  <1>0. TypeOK /\ PlaceInv /\ Transmission
    BY DEF SessionInv, IInv
  <1>1. t \in Tokens /\ state[t] \in QueuedState /\ t \notin transferred
    BY <1>0, PlaceTypes DEF PlaceInv, Queued, Fetched, Transmission, Handled, transferred
  <1>2. promise[t] = PromiseOf(state[t])
    BY <1>1 DEF promise
  <1>3. ASSUME NEW s \in {"DROPPED", "FAILED"}, state[t] # "ABORTED", state' = [state EXCEPT ![t] = s]
        PROVE  TokenStep
    <2>1. CASE state[t] \in {"ACTIVE", "SENT"}
      <3>1. Contract!Change({t}, {"OPEN"}, "WITHHELD")
        <4>1. \A from : promise[t] \in from => Contract!Change({t}, from, PromiseOf(s))
          BY <1>0, <1>1, <1>3, PromiseChanged
        <4>2. promise[t] \in {"OPEN"} /\ PromiseOf(s) = "WITHHELD"
          BY <1>2, <1>3, <2>1, PromiseCases
        <4>. QED
          BY <4>1, <4>2
      <3>2. Contract!Withhold
        BY <1>1, <3>1 DEF Contract!Withhold
      <3>. QED
        BY <3>2 DEF TokenStep, Contract!Next
    <2>2. CASE state[t] \in {"DROPPED", "FAILED"}
      <3>1. \A u \in Tokens : PromiseOf(state'[u]) = PromiseOf(state[u])
        BY <1>0, <1>1, <1>3, <2>2, PromiseCases DEF TypeOK
      <3>2. promise' = promise
        BY <3>1 DEF promise
      <3>. QED
        BY <3>2 DEF TokenStep, Contract!Next, transferred
    <2>. QED
      BY <1>1, <1>3, <2>1, <2>2 DEF QueuedState
  <1>4. ASSUME state[t] # "ABORTED", state' = [state EXCEPT ![t] = "SENT"] PROVE TokenStep
    <2>1. CASE state[t] \in {"DROPPED", "FAILED"}
      <3>1. Contract!Change({t}, {"WITHHELD"}, "OPEN")
        <4>1. \A from : promise[t] \in from => Contract!Change({t}, from, PromiseOf("SENT"))
          BY <1>0, <1>1, <1>4, PromiseChanged
        <4>2. promise[t] \in {"WITHHELD"} /\ PromiseOf("SENT") = "OPEN"
          BY <1>2, <2>1, PromiseCases
        <4>. QED
          BY <4>1, <4>2
      <3>2. Contract!Retry
        BY <1>1, <3>1 DEF Contract!Retry
      <3>. QED
        BY <3>2 DEF TokenStep, Contract!Next
    <2>2. CASE state[t] \in {"ACTIVE", "SENT"}
      <3>1. \A u \in Tokens : PromiseOf(state'[u]) = PromiseOf(state[u])
        BY <1>0, <1>1, <1>4, <2>2, PromiseCases DEF TypeOK
      <3>2. promise' = promise
        BY <3>1 DEF promise
      <3>. QED
        BY <3>2 DEF TokenStep, Contract!Next, transferred
    <2>. QED
      BY <1>1, <1>4, <2>1, <2>2 DEF QueuedState
  <1>5. ASSUME state' = [state EXCEPT ![t] = "SENT_WITHOUT_SM"] PROVE TokenStep
    <2>1. state'[t] = "SENT_WITHOUT_SM" /\ \A u \in Tokens \ {t} : state'[u] = state[u]
      BY <1>0, <1>1, <1>5 DEF TypeOK
    <2>2. /\ {t} \subseteq Tokens /\ {} \subseteq Handled \cap Tokens /\ {t} \cap {} = {}
          /\ \A u \in {t} : state[u] \in QueuedState /\ state'[u] \in {"SENT_WITHOUT_SM", "DISCONNECTED"}
          /\ \A u \in {} : state[u] = "SENT" /\ state'[u] = "ACKED"
          /\ \A u \in Tokens \ ({t} \cup {}) : state'[u] = state[u]
      BY <1>1, <2>1
    <2>3. \A S, D : /\ S \subseteq Tokens /\ D \subseteq Handled \cap Tokens /\ S \cap D = {}
                    /\ \A u \in S : state[u] \in QueuedState /\ state'[u] \in {"SENT_WITHOUT_SM", "DISCONNECTED"}
                    /\ \A u \in D : state[u] = "SENT" /\ state'[u] = "ACKED"
                    /\ \A u \in Tokens \ (S \cup D) : state'[u] = state[u]
                    => TokenStep
      BY <1>0, VerdictsGiven
    <2>. QED
      BY <2>2, <2>3, Zenon
  <1>6. CASE UNCHANGED state
    BY <1>6, PromisesKept
  <1>. QED
    BY <1>3, <1>4, <1>5, <1>6, Zenon DEF SendStanza, Aborted

\* sm_ack with a counter that covers no more than the server has handled.
LEMMA AckPromise ==
    ASSUME SessionInv, NEW h \in Counter, AckUpTo(h), ToDrop(h) <= Len(unacked),
           \A i \in 1..ToDrop(h) : unacked[i] \in Handled, UNCHANGED <<handled, handed>>
    PROVE  TokenStep
  <1> DEFINE D == {unacked[i] : i \in 1..ToDrop(h)}
  <1>1. TypeOK /\ PlaceInv
    BY DEF SessionInv, IInv
  <1>2. state' = SetAll(state, D, "ACKED")
    BY DEF AckUpTo
  <1>3. D \subseteq Unacked
    BY <1>1, AckRange, PlaceTypes, ElementsOfSplit DEF PlaceInv, AtMostOnePlace, Unacked
  <1>4. D \subseteq Handled
    OBVIOUS
  <1>5. Unacked \subseteq Tokens /\ \A t \in Unacked : state[t] = "SENT"
    BY <1>1, PlaceTypes, ElementsOfEmpty DEF PlaceInv, UnackedIsSent, Unacked
  <1>. HIDE DEF D
  <1>6. /\ {} \subseteq Tokens /\ D \subseteq Handled \cap Tokens /\ {} \cap D = {}
        /\ \A t \in {} : state[t] \in QueuedState /\ state'[t] \in {"SENT_WITHOUT_SM", "DISCONNECTED"}
        /\ \A t \in D : state[t] = "SENT" /\ state'[t] = "ACKED"
        /\ \A t \in Tokens \ ({} \cup D) : state'[t] = state[t]
    BY <1>2, <1>3, <1>4, <1>5 DEF SetAll
  <1>. QED
    BY <1>1, <1>6, VerdictsGiven

\* _destroy_stream_state: the unacked tokens and the queue q are given up.
LEMMA DestroyPromise ==
    ASSUME TypeOK, PlaceInv, NEW q \in Seq(Tokens), DestroyState(q),
           \A t \in ToSet(q) : state[t] \in QueuedState, UNCHANGED <<handled, handed>>
    PROVE  TokenStep
  <1> DEFINE S == ToSet(q) \cup Unacked
  <1>1. \A t \in Unacked : state[t] = "SENT"
    BY ElementsOfEmpty DEF PlaceInv, UnackedIsSent, Unacked
  <1>2. S \subseteq Tokens
    BY PlaceTypes, ElementsInSet DEF Unacked
  <1>3. \A t \in Tokens : state'[t] = IF t \in Unacked THEN "SENT_WITHOUT_SM"
                                      ELSE IF t \in ToSet(q) THEN "DISCONNECTED" ELSE state[t]
    BY DEF DestroyState, SetAll, SMOff, Abandoned, Unacked
  <1>4. /\ {} \subseteq Handled \cap Tokens /\ S \cap {} = {}
        /\ \A t \in S : state[t] \in QueuedState /\ state'[t] \in {"SENT_WITHOUT_SM", "DISCONNECTED"}
        /\ \A t \in {} : state[t] = "SENT" /\ state'[t] = "ACKED"
        /\ \A t \in Tokens \ (S \cup {}) : state'[t] = state[t]
    BY <1>1, <1>2, <1>3 DEF QueuedState
  <1>. HIDE DEF S
  <1>. QED
    BY <1>2, <1>4, VerdictsGiven

LEMMA CleanupPromise ==
    ASSUME TypeOK, PlaceInv, NEW q \in Seq(Tokens), NEW why, Cleanup(q, why),
           \A t \in ToSet(q) : state[t] \in QueuedState, UNCHANGED <<handled, handed>>
    PROVE  TokenStep
  <1>1. UNCHANGED state \/ DestroyState(q)
    BY Zenon DEF Cleanup
  <1>. QED
    BY <1>1, PromisesKept, DestroyPromise

LEMMA TerminatePromise ==
    ASSUME TypeOK, ControlInv, PlaceInv, NEW why, Terminate(why),
           broker = "bulk" => active = <<>> /\ conn # "open", UNCHANGED <<handled, handed>>
    PROVE  TokenStep
  <1>1. UNCHANGED state \/ Cleanup(afut \o active, why)
    BY Zenon DEF Terminate, LockFree, Rescued, Drain
  <1>. QED
    BY <1>1, PromisesKept, CleanupPromise, RescuedQueue

\* A refused resumption: what the counter that came with the refusal covers has
\* been handled, the rest is given up.
LEMMA RefusalPromise ==
    ASSUME SessionInv, ResumeRefused, UNCHANGED <<handled, handed>>
    PROVE  TokenStep
  <1>0. TypeOK /\ PlaceInv /\ Outbound
    BY DEF SessionInv, IInv
  <1>a. /\ ToSet(active) \subseteq Tokens /\ \A t \in ToSet(active) : state[t] \in QueuedState
        /\ Unacked \subseteq Tokens /\ \A t \in Unacked : state[t] = "SENT"
        /\ ToSet(active) \cap Unacked = {}
    BY <1>0, PlaceTypes, ElementsOfEmpty DEF PlaceInv, AtMostOnePlace, UnackedIsSent, Unacked, Queued
  <1> DEFINE known   == rsop.h # NoCounter
             n       == IF known THEN ToDrop(rsop.h) ELSE 0
             acked   == {unacked[i] : i \in 1..n}
             rest    == ToSet(unacked) \ acked
             verdict == IF known THEN "DISCONNECTED" ELSE "SENT_WITHOUT_SM"
             S       == ToSet(active) \cup rest
  <1>1. /\ n <= Len(unacked)
        /\ state' = SetAll(SetAll(SetAll(state, acked, "ACKED"), rest, verdict),
                           ToSet(active), "DISCONNECTED")
    BY Zenon DEF ResumeRefused, SMOff
  <1>2. acked \subseteq Unacked /\ acked \subseteq Handled
    <2>1. CASE known
      <3>1. rsop.h \in Counter /\ n = ToDrop(rsop.h) /\ Exact(rsop.h)
        BY <1>0, <2>1 DEF TypeOK, Outbound
      <3>2. ToDrop(rsop.h) \in Nat /\ Len(unacked) \in Nat
        BY <1>0, <3>1, DropType
      <3>3. \A i \in 1..n : unacked[i] \in Handled
        BY <3>1, <3>2 DEF Exact
      <3>4. acked \subseteq ToSet(unacked)
        BY <1>0, <1>1, <3>1, AckRange, PlaceTypes, ElementsOfSplit DEF PlaceInv, AtMostOnePlace
      <3>. QED
        BY <3>3, <3>4 DEF Unacked
    <2>2. CASE ~known
      BY <2>2
    <2>. QED
      BY <2>1, <2>2
  <1>3. verdict \in {"DISCONNECTED", "SENT_WITHOUT_SM"} /\ rest \subseteq Unacked /\ rest \cap acked = {}
    BY DEF Unacked
  <1>4. Unacked \subseteq rest \cup acked
    BY DEF Unacked
  <1>. HIDE DEF acked, n, verdict, rest
  <1>5. \A t \in Tokens : state'[t] = IF t \in ToSet(active) THEN "DISCONNECTED"
                                       ELSE IF t \in rest THEN verdict
                                       ELSE IF t \in acked THEN "ACKED" ELSE state[t]
    BY <1>1 DEF SetAll
  <1>6. /\ S \subseteq Tokens /\ acked \subseteq Handled \cap Tokens /\ S \cap acked = {}
        /\ \A t \in S : state[t] \in QueuedState /\ state'[t] \in {"SENT_WITHOUT_SM", "DISCONNECTED"}
        /\ \A t \in acked : state[t] = "SENT" /\ state'[t] = "ACKED"
        /\ \A t \in Tokens \ (S \cup acked) : state'[t] = state[t]
    BY <1>a, <1>2, <1>3, <1>5 DEF QueuedState
  <1>. HIDE DEF S
  <1>. QED
    BY <1>0, <1>6, VerdictsGiven

LEMMA NothingDispatched ==
    ASSUME SessionTypeOK, Outputs, io'.app = <<>>
    PROVE  UNCHANGED handed
  <1>1. handed \o <<>> = handed
    BY DEF SessionTypeOK
  <1>2. BindResult \notin ToSet(io'.app)
    BY ElementsOfEmpty
  <1>. QED
    BY <1>1, <1>2 DEF Outputs

LEMMA ClientPromise ==
    ASSUME SessionInv, Client(ClientStep)
    PROVE  TokenStep
  <1>0. /\ TypeOK /\ ControlInv /\ PlaceInv /\ SessionTypeOK
        /\ Transmission /\ Outbound /\ Acks /\ Enabling /\ Resuming
    BY DEF SessionInv, IInv
  <1>a. Outputs /\ ClientStep /\ UNCHANGED <<s2c, handled>>
    BY DEF Client, serverVars
  <1>b. ASSUME io'.app = <<>> PROVE UNCHANGED <<handled, handed>>
    BY <1>0, <1>a, <1>b, NothingDispatched
  <1>c. ASSUME UNCHANGED state PROVE TokenStep
    BY <1>a, <1>c, PromisesKept
  <1>1. ASSUME NEW t \in Tokens, Enqueue(t) PROVE TokenStep
    <2>1. state[t] = "NEW" /\ state' = [state EXCEPT ![t] = "ACTIVE"] /\ io'.app = <<>>
      BY <1>1 DEF Enqueue, Silent, Emit
    <2>2. promise[t] = "NEW"
      BY <2>1, PromiseCases DEF promise
    <2>3. Contract!Change({t}, {"NEW"}, "OPEN")
      BY <1>0, <1>b, <2>1, <2>2, PromiseChanged, PromiseCases
    <2>. QED
      BY <2>3 DEF TokenStep, Contract!Next, Contract!Accept
  <1>2. ASSUME NEW t \in Tokens, Abort(t) PROVE TokenStep
    <2>1. state[t] = "ACTIVE" /\ state' = [state EXCEPT ![t] = "ABORTED"] /\ io'.app = <<>>
      BY <1>2 DEF Abort, Silent, Emit
    <2>2. promise[t] = "OPEN"
      BY <2>1, PromiseCases DEF promise
    <2>3. Contract!Change({t}, {"OPEN"}, "RETRACTED")
      BY <1>0, <1>b, <2>1, <2>2, PromiseChanged, PromiseCases
    <2>4. t \notin transferred
      BY <1>0, <2>1 DEF Transmission, Handled, transferred
    <2>. QED
      BY <2>3, <2>4 DEF TokenStep, Contract!Next, Contract!Retract
  <1>3. CASE \/ BrokerStart \/ BrokerNeverRuns \/ BrokerWake \/ BrokerLocks \/ FinalCancelled
             \/ GetActive \/ GetIncoming
             \/ Start \/ Stop \/ StartSMAnswered \/ StartSMDies
             \/ ConnFails \/ PeerEof \/ ConnGone \/ OnClosing
             \/ BatchDone \/ ProcessStanza \/ ProcessRequest
             \/ StartSM \/ ResumeSM \/ ResumeRaises \/ ResumeDies
    BY <1>3, <1>c DEF tokenVars, BrokerStart, BrokerNeverRuns, BrokerWake, BrokerLocks, FinalCancelled,
       GetActive, GetIncoming, Start, Commit, Stop, StartSMAnswered, StartSMDies, ReleaseLock,
       ConnFails, PeerEof, ConnGone, OnClosing, BatchDone, ProcessStanza, ProcessRequest, StartSM,
       ResumeSM, ResumeRaises, ResumeDies
  <1>4. CASE SendFirst
    <2>1. SendStanza(Head(afut)) /\ broker = "first" /\ afut # <<>>
      BY <1>0, <1>4 DEF SendFirst, ControlInv
    <2>2. Head(afut) \in Queued
      BY <1>0, <2>1, PlaceTypes, ElementsOfTail DEF Queued, Fetched
    <2>3. io'.app = <<>>
      BY <2>1 DEF SendStanza, Silent, Emit
    <2>. QED
      BY <1>b, <2>1, <2>2, <2>3, SendPromise
  <1>5. CASE SendNext
    <2>1. SendStanza(Head(active)) /\ active # <<>>
      BY <1>5 DEF SendNext
    <2>2. Head(active) \in Queued
      BY <1>0, <2>1, PlaceTypes, ElementsOfTail DEF Queued
    <2>3. io'.app = <<>>
      BY <2>1 DEF SendStanza, Silent, Emit
    <2>. QED
      BY <1>b, <2>1, <2>2, <2>3, SendPromise
  <1>6. ASSUME NEW why, Terminate(why) PROVE io'.app = <<>>
    BY <1>6 DEF Terminate, Cleanup, Silent, Emit
  <1>7. CASE BatchRaises \/ ProcessRaises \/ BrokerCancelled
    <2>1. PICK why : Terminate(why) /\ (broker = "bulk" => active = <<>> /\ conn # "open")
      BY <1>7 DEF BatchRaises, ProcessRaises, BrokerCancelled
    <2>2. UNCHANGED <<handled, handed>>
      BY <1>b, <1>6, <2>1
    <2>. QED
      BY <1>0, <2>1, <2>2, TerminatePromise
  <1>8. CASE FinalLocked
    <2>1. Cleanup(active, raised) /\ io'.app = <<>>
      BY <1>8 DEF FinalLocked, Cleanup, Emit
    <2>2. active \in Seq(Tokens) /\ \A t \in ToSet(active) : state[t] \in QueuedState
      BY <1>0, PlaceTypes DEF PlaceInv, Queued
    <2>. QED
      BY <1>0, <1>b, <2>1, <2>2, CleanupPromise
  <1>9. CASE ProcessAck
    <2>1. CASE ~smEnabled
      BY <1>9, <2>1, <1>c DEF ProcessAck
    <2>2. CASE smEnabled
      <3> DEFINE h == Head(ifut).h
      <3>1. broker = "incoming" /\ Head(ifut).k = "a" /\ IncomingDone /\ io'.app = <<>>
        BY <1>9 DEF ProcessAck, Silent, Emit
      <3>2. ToDrop(h) <= Len(unacked) /\ AckUpTo(h)
        BY <1>9, <2>2 DEF ProcessAck
      <3>3. Take(Head(ifut)) /\ Head(ifut) \in Element
        BY <1>a, <3>1, TakeEffect DEF Take
      <3>4. h \in Counter /\ Head(ifut) = SMAck(h)
        BY <3>1, <3>3, ElementCases
      <3>. HIDE DEF h
      <3>5. SMAck(h) \in ToSet(Pipe) /\ Running
        BY <1>0, <3>3, <3>4, PipeTaken DEF Take, Busy
      <3>6. link = "sm" /\ sess.on /\ sess.h \in Counter
        BY <1>0, <2>2, <3>5 DEF Enabling, SessionTypeOK, SessionRecord
      <3>7. ToDrop(h) <= ToDrop(sess.h) /\ Exact(sess.h)
        BY <1>0, <2>2, <3>4, <3>5, <3>6 DEF Acks, Outbound
      <3>8. ToDrop(h) \in Nat /\ ToDrop(sess.h) \in Nat /\ Len(unacked) \in Nat
        BY <1>0, <3>4, <3>6, DropType
      <3>9. \A i \in 1..ToDrop(h) : unacked[i] \in Handled
        BY <3>7, <3>8, <3>2 DEF Exact, h
      <3>. QED
        BY <1>b, <3>1, <3>2, <3>4, <3>9, AckPromise DEF h
    <2>. QED
      BY <2>1, <2>2
  <1>10. CASE Resumed
    <2>1. /\ rsop.at = "resumed" /\ ToDrop(rsop.h) <= Len(unacked) /\ AckUpTo(rsop.h) /\ io'.app = <<>>
      BY <1>10 DEF Resumed, Commit, Emit
    <2>2. rsop.h \in Counter /\ Exact(rsop.h)
      BY <1>0, <2>1 DEF ControlInv, Outbound, NoCounter, Counter
    <2>3. ToDrop(rsop.h) \in Nat /\ Len(unacked) \in Nat
      BY <1>0, <2>2, DropType
    <2>4. \A i \in 1..ToDrop(rsop.h) : unacked[i] \in Handled
      BY <2>1, <2>2, <2>3 DEF Exact
    <2>. QED
      BY <1>b, <2>1, <2>2, <2>4, AckPromise
  <1>11. CASE ResumeRefused
    <2>1. io'.app = <<>>
      BY <1>11 DEF ResumeRefused, Emit
    <2>. QED
      BY <1>b, <1>11, <2>1, RefusalPromise
  <1>. QED
    BY <1>a, <1>1, <1>2, <1>3, <1>4, <1>5, <1>7, <1>8, <1>9, <1>10, <1>11 DEF ClientStep, Broker

LEMMA PromiseStep ==
    ASSUME SessionInv, [SessionNext]_sessionVars
    PROVE  TokenStep
  <1>0. SessionTypeOK /\ Transmission
    BY DEF SessionInv
  <1>1. CASE Client(ClientStep)
    BY <1>1, ClientPromise
  <1>2. CASE AskBind
    BY <1>2, PromisesKept DEF AskBind, vars, tokenVars, serverVars
  <1>3. CASE Reconnect
    BY <1>3, PromisesKept DEF Reconnect, Connect, tokenVars
  <1>4. CASE Receive
    <2>1. UNCHANGED handled
      BY <1>0, <1>4, ReceiveCases DEF Fetching, serverVars
    <2>2. Still
      BY <1>0, <1>4, ReceiveEffects DEF SessionInv, IInv, ReceiveQueued, ReceiveUnknown, ReceiveRefused,
         ReceiveEnabled, ReceiveResumed, ReceiveResumeFailed
    <2>. QED
      BY <2>1, <2>2, PromisesKept DEF Still
  <1>5. CASE HandleStanza
    <2>1. PICK t \in Tokens : Reading(Stanza(t)) /\ handled' = Append(handled, t)
      BY <1>5 DEF HandleStanza
    <2>2. t \in InFlight
      BY <1>0, <2>1, FlightHandled
    <2>3. t \notin Handled /\ state[t] \in {"SENT", "SENT_WITHOUT_SM", "DISCONNECTED"}
      BY <1>0, <2>2 DEF Transmission
    <2>4. UNCHANGED <<state, handed>>
      BY <2>1 DEF Reading, ServerStep, vars, tokenVars
    <2>5. promise' = promise /\ promise[t] \in {"OPEN", "UNKNOWN"}
      BY <2>3, <2>4, PromiseCases DEF promise
    <2>6. transferred' = transferred \cup {t} /\ t \in Tokens \ transferred
      BY <1>0, <2>1, <2>3, ElementsOfAppend DEF SessionTypeOK, Handled, transferred
    <2>. QED
      BY <2>4, <2>5, <2>6 DEF TokenStep, Contract!Next, Contract!Transfer
  <1>6. CASE Server /\ UNCHANGED handled
    BY <1>6, ServerFrame, PromisesKept DEF vars, tokenVars
  <1>7. CASE UNCHANGED sessionVars
    BY <1>7, PromisesKept DEF sessionVars, vars, tokenVars, serverVars
  <1>. QED
    BY <1>1, <1>2, <1>3, <1>4, <1>5, <1>6, <1>7
    DEF SessionNext, Server, HandleBind, HandleRequest, HandleAck, HandleEnable, RefuseEnable,
        HandleResume, RefuseResume, SendInbound, RequestAck, serverVars

LEMMA InitContract == SessionInit => Contract!Init
  <1>. SUFFICES ASSUME SessionInit PROVE Contract!Init
    OBVIOUS
  <1>1. promise = [t \in Tokens |-> "NEW"]
    BY PromiseCases DEF SessionInit, Init, promise
  <1>2. transferred = {}
    BY ElementsOfEmpty DEF SessionInit, transferred
  <1>. QED
    BY <1>1, <1>2 DEF Contract!Init

\* In every session, whatever is lost and however early the server sends, the
\* tokens tell the truth: a stanza is ACKED only after the server has handled
\* it, and stays so; it is not handled twice, nor while its token says that it
\* was aborted, dropped or failed.
THEOREM SessionImplementsContract == SessionSpec => ImplementsContract
  <1>1. SessionInv /\ [SessionNext]_sessionVars => [Contract!Next]_<<promise, transferred>>
    BY PromiseStep DEF TokenStep
  <1>. QED
    BY <1>1, InitContract, SessionInductive, PTL DEF SessionSpec, ImplementsContract, Contract!Spec
=============================================================================
