------------------------------ MODULE IBBProofs ------------------------------
(***************************************************************************)
(* Proofs about IBB, for any block size, limits, modulus, number of        *)
(* retries and bytes written: what the peer receives is a prefix of what   *)
(* was written, and all of it when the session ends without an exception.  *)
(*                                                                         *)
(* The inductive invariant has one part per direction. It is stated for    *)
(* the sending transport s, the receiving one t, the channel q to t, on    *)
(* which blocks and requests travel, and the channel r to s, on which the  *)
(* replies come back, so that a step of one end is a change of s in one    *)
(* direction and of t in the other.                                        *)
(***************************************************************************)
EXTENDS IBB, TLAPS

IsRequest(m) == m.kind \in {"open", "close", "iq"}
IsReply(m) == m.kind \in {"ok", "wait", "error"}
IsData(m) == m.kind \in {"iq", "message"}

Unasked(q) == \A i \in DOMAIN q : ~IsRequest(q[i])
Unreplied(r) == \A i \in DOMAIN r : ~IsReply(r[i])

\* What the protocol of t received, and how much.
Data(t) == t.got \o t.input
Amount(t) == Len(Data(t))

\* One request is under way at a time, and none while the task needs none.
Requests(s, q, r) ==
    /\ \A i, j \in DOMAIN q : IsRequest(q[i]) /\ IsRequest(q[j]) => i = j
    /\ \A i, j \in DOMAIN r : IsReply(r[i]) /\ IsReply(r[j]) => i = j
    /\ Unasked(q) \/ Unreplied(r)
    /\ s.task \in {"waiting", "sleeping"} => Unasked(q) /\ Unreplied(r)
    /\ s.task = "sending" /\ mode = "message" => Unasked(q) /\ Unreplied(r)
    /\ s.task = "sending" => \A i \in DOMAIN q : IsRequest(q[i]) => q[i].kind = "iq"
    /\ \A i \in DOMAIN q : IsData(q[i]) => q[i].kind = mode /\ s.task # "none"

\* After W bytes the sequence numbers may have wrapped.
Exact(s) == mode = "iq" \/ s.written <= W

Flow(s, t) ==
    /\ ~t.paused => t.input = <<>>
    /\ s.sent <= s.written
    /\ s.task = "sending" => s.cut >= 1 /\ s.sent + s.cut <= s.written
    /\ s.task = "sleeping" => mode = "iq" /\ s.sent < s.written
    /\ Exact(s) => Data(t) = Upto(Amount(t)) /\ Amount(t) <= s.written

\* The bytes of m are those after the first n.
Spans(m, n) == Len(m.bytes) >= 1 /\ m.bytes = [j \in 1..Len(m.bytes) |-> n + j]

\* Blocks sent as IQs: the one under way is the next one, and the reply says so.
Blocks(s, t, q, r) == mode = "iq" =>
    /\ \A i \in DOMAIN q : q[i].kind = "iq" =>
          /\ Spans(q[i], Amount(t)) /\ Amount(t) + Len(q[i].bytes) <= s.written
          /\ s.task = "sending" => Amount(t) = s.sent /\ Len(q[i].bytes) = s.cut
    /\ s.task \in {"waiting", "sleeping"} => Amount(t) = s.sent
    /\ s.task = "sending" => \A i \in DOMAIN r :
          /\ r[i].kind = "ok" => Amount(t) = s.sent + s.cut
          /\ r[i].kind = "wait" => Amount(t) = s.sent
    /\ s.task \in {"closing", "ended", "over"} /\ s.err = "none" =>
          Amount(t) = s.written /\ s.closing

\* The number of blocks a sequence number stands for, when pos bytes are done.
Count(seq, pos) == IF pos = W /\ seq = 0 THEN W ELSE seq

\* What the next block will be, and where it starts, while there may be one.
Alive(s) == s.task \in {"waiting", "sending"}
NextSeq(s) == Count(s.seqOut, s.sent) + (IF s.task = "sending" THEN 1 ELSE 0)
NextStart(s) == s.sent + (IF s.task = "sending" THEN s.cut ELSE 0)
Expected(t) == Count(t.seqIn, Amount(t))

Start(m) == m.bytes[1] - 1
Stop(m) == Start(m) + Len(m.bytes)

\* Block m is followed by one with number seq that starts at pos.
Before(m, seq, pos) == m.seq < seq /\ Stop(m) <= pos /\ (seq = m.seq + 1 => pos = Stop(m))

\* Blocks sent as messages: in order, and those that are missing leave a gap in the
\* numbers as well.
Messages(s, t, q) == mode = "message" /\ s.written <= W =>
    /\ Expected(t) <= Amount(t)
    /\ Count(s.seqOut, s.sent) <= s.sent
    /\ \A i \in DOMAIN q : q[i].kind = "message" =>
          /\ Spans(q[i], Start(q[i])) /\ Start(q[i]) >= Amount(t) /\ Stop(q[i]) <= s.written
          /\ q[i].seq >= Expected(t) /\ (q[i].seq = Expected(t) => Start(q[i]) = Amount(t))
          /\ Alive(s) => Before(q[i], NextSeq(s), NextStart(s))
    /\ \A i, j \in DOMAIN q : i < j /\ q[i].kind = "message" /\ q[j].kind = "message" =>
          Before(q[i], q[j].seq, Start(q[j]))
    /\ Alive(s) => /\ Expected(t) <= NextSeq(s) /\ Amount(t) <= NextStart(s)
                   /\ Expected(t) = NextSeq(s) => Amount(t) = NextStart(s)

Direction(s, t, q, r) ==
    Requests(s, q, r) /\ Flow(s, t) /\ Blocks(s, t, q, r) /\ Messages(s, t, q)

DirectionInv == \A e \in End : Direction(end[e], end[Peer(e)], net[Peer(e)], net[e])

\* How far the session has come: who has a transport, and what may be under way.
OpeningInv ==
    /\ opening # "done" => end["opener"] = NoTransport
    /\ \A e \in End : end[e].task = "none" => end[e] = NoTransport
    /\ opening = "no" => end["acceptor"] = NoTransport
    /\ \A i \in DOMAIN net["opener"] : net["opener"][i].kind # "open"
    /\ \A i \in DOMAIN net["acceptor"] : net["acceptor"][i].kind = "open" =>
          opening \in {"asked", "failed"} /\ end["acceptor"] = NoTransport
    /\ end["acceptor"].task = "none" => Unasked(net["opener"]) /\ Unreplied(net["acceptor"])
    /\ opening \in {"no", "answered"} => Unasked(net["acceptor"]) /\ Unreplied(net["opener"])

Inv == TypeOK /\ DirectionInv /\ OpeningInv

-----------------------------------------------------------------------------
(* Channels: what is left of one, and what is added to it *)

\* Dropping what comes first, or anything that does not matter, keeps the order.
Narrows(q, q2) == \E d \in Nat : \A i \in DOMAIN q2 :
    IsRequest(q2[i]) \/ IsData(q2[i]) => i + d \in DOMAIN q /\ q2[i] = q[i + d]
Forgets(r, r2) == \E d \in Nat : \A i \in DOMAIN r2 :
    IsReply(r2[i]) => i + d \in DOMAIN r /\ r2[i] = r[i + d]

Silent(x) == \A i \in DOMAIN x : ~IsRequest(x[i]) /\ ~IsData(x[i])

\* The kinds of stanzas exclude each other.
LEMMA Kinds ==
    ASSUME NEW m \in Stanza
    PROVE  /\ IsReply(m) => ~IsRequest(m) /\ ~IsData(m)
           /\ m.kind = "iq" => IsRequest(m) /\ IsData(m)
           /\ m.kind = "message" => IsData(m) /\ ~IsRequest(m) /\ ~IsReply(m)
           /\ IsRequest(m) \/ IsReply(m) \/ IsData(m)
           /\ IsData(m) => m.seq \in 0..W - 1 /\ m.bytes \in Seq(Nat)
  BY DEF Stanza, IsRequest, IsReply, IsData

LEMMA SimpleStanza ==
    ASSUME NEW kind \in {"open", "close", "ok", "wait", "error"}
    PROVE  Simple(kind) \in Stanza /\ Simple(kind).kind = kind /\ <<Simple(kind)>> \in Seq(Stanza)
  BY DEF Simple, Stanza

\* The elements of a concatenation and of a tail, by position.
LEMMA ConcatAt ==
    ASSUME NEW S, NEW q \in Seq(S), NEW x \in Seq(S)
    PROVE  /\ q \o x \in Seq(S) /\ Len(q \o x) = Len(q) + Len(x)
           /\ \A i \in DOMAIN (q \o x) :
                \/ i \in DOMAIN q /\ (q \o x)[i] = q[i]
                \/ i \notin DOMAIN q /\ i - Len(q) \in DOMAIN x /\ (q \o x)[i] = x[i - Len(q)]
  OBVIOUS

LEMMA TailAt ==
    ASSUME NEW S, NEW q \in Seq(S), q # <<>>
    PROVE  /\ Tail(q) \in Seq(S) /\ Head(q) \in S /\ 1 \in DOMAIN q /\ q[1] = Head(q)
           /\ \A i \in DOMAIN Tail(q) : i + 1 \in DOMAIN q /\ Tail(q)[i] = q[i + 1]
  OBVIOUS

LEMMA Unchanged ==
    ASSUME NEW q \in Seq(Stanza)
    PROVE  Narrows(q, q) /\ Forgets(q, q) /\ Narrows(q, <<>>) /\ Forgets(q, <<>>)
  <1>1. \A i \in DOMAIN q : i + 0 \in DOMAIN q /\ q[i] = q[i + 0]
    OBVIOUS
  <1>2. \A i \in DOMAIN <<>> : FALSE
    OBVIOUS
  <1> QED
    BY <1>1, <1>2 DEF Narrows, Forgets

LEMMA TailLess ==
    ASSUME NEW q \in Seq(Stanza), q # <<>>
    PROVE  Narrows(q, Tail(q)) /\ Forgets(q, Tail(q)) /\ Tail(q) \in Seq(Stanza)
  BY TailAt DEF Narrows, Forgets

LEMMA RepliesAdded ==
    ASSUME NEW q \in Seq(Stanza), NEW x \in Seq(Stanza), Silent(x)
    PROVE  Narrows(q, q \o x) /\ q \o x \in Seq(Stanza)
  <1>1. \A i \in DOMAIN (q \o x) :
            IsRequest((q \o x)[i]) \/ IsData((q \o x)[i]) => i + 0 \in DOMAIN q /\ (q \o x)[i] = q[i + 0]
    BY ConcatAt DEF Silent
  <1> QED
    BY <1>1, ConcatAt DEF Narrows

LEMMA RequestsAdded ==
    ASSUME NEW r \in Seq(Stanza), NEW x \in Seq(Stanza), Unreplied(x)
    PROVE  Forgets(r, r \o x) /\ r \o x \in Seq(Stanza)
  <1>1. \A i \in DOMAIN (r \o x) :
            IsReply((r \o x)[i]) => i + 0 \in DOMAIN r /\ (r \o x)[i] = r[i + 0]
    BY ConcatAt DEF Unreplied
  <1> QED
    BY <1>1, ConcatAt DEF Forgets

\* What is quiet stays so when something is dropped.
LEMMA StaysQuiet ==
    ASSUME NEW q \in Seq(Stanza), NEW q2 \in Seq(Stanza)
    PROVE  /\ Narrows(q, q2) /\ Unasked(q) => Unasked(q2)
           /\ Forgets(q, q2) /\ Unreplied(q) => Unreplied(q2)
  BY DEF Narrows, Forgets, Unasked, Unreplied

-----------------------------------------------------------------------------
(* A direction, and what may happen to it *)

LEMMA Fields ==
    ASSUME NEW s \in Transport
    PROVE  /\ s.written \in Nat /\ s.sent \in Nat /\ s.cut \in Nat
           /\ s.seqOut \in 0..W - 1 /\ s.seqIn \in 0..W - 1
           /\ s.input \in Seq(Nat) /\ s.got \in Seq(Nat)
           /\ Data(s) \in Seq(Nat) /\ Amount(s) \in Nat /\ Amount(s) = Len(Data(s))
  BY DEF Transport, Data, Amount

\* Whatever is lost or received without effect.
LEMMA DirectionNarrows ==
    ASSUME NEW s \in Transport, NEW t \in Transport,
           NEW q \in Seq(Stanza), NEW r \in Seq(Stanza),
           NEW q2 \in Seq(Stanza), NEW r2 \in Seq(Stanza),
           Direction(s, t, q, r), Narrows(q, q2), Forgets(r, r2)
    PROVE  Direction(s, t, q2, r2)
  <1>1. PICK d \in Nat : \A i \in DOMAIN q2 :
            IsRequest(q2[i]) \/ IsData(q2[i]) => i + d \in DOMAIN q /\ q2[i] = q[i + d]
    BY DEF Narrows
  <1>2. PICK c \in Nat : \A i \in DOMAIN r2 :
            IsReply(r2[i]) => i + c \in DOMAIN r /\ r2[i] = r[i + c]
    BY DEF Forgets
  <1>3. Requests(s, q2, r2)
    <2>1. \A i, j \in DOMAIN q2 : IsRequest(q2[i]) /\ IsRequest(q2[j]) => i = j
      <3> SUFFICES ASSUME NEW i \in DOMAIN q2, NEW j \in DOMAIN q2,
                          IsRequest(q2[i]), IsRequest(q2[j])
                   PROVE  i = j
        OBVIOUS
      <3>1. i + d = j + d
        BY <1>1 DEF Direction, Requests
      <3> QED
        BY <3>1
    <2>2. \A i, j \in DOMAIN r2 : IsReply(r2[i]) /\ IsReply(r2[j]) => i = j
      <3> SUFFICES ASSUME NEW i \in DOMAIN r2, NEW j \in DOMAIN r2,
                          IsReply(r2[i]), IsReply(r2[j])
                   PROVE  i = j
        OBVIOUS
      <3>1. i + c = j + c
        BY <1>2 DEF Direction, Requests
      <3> QED
        BY <3>1
    <2>3. (Unasked(q) => Unasked(q2)) /\ (Unreplied(r) => Unreplied(r2))
      BY StaysQuiet
    <2>4. s.task = "sending" => \A i \in DOMAIN q2 : IsRequest(q2[i]) => q2[i].kind = "iq"
      BY <1>1 DEF Direction, Requests
    <2>5. \A i \in DOMAIN q2 : IsData(q2[i]) => q2[i].kind = mode /\ s.task # "none"
      BY <1>1 DEF Direction, Requests
    <2> QED
      BY <2>1, <2>2, <2>3, <2>4, <2>5 DEF Direction, Requests
  <1>4. Blocks(s, t, q2, r2)
    <2>1. \A i \in DOMAIN q2 : q2[i].kind = "iq" => i + d \in DOMAIN q /\ q2[i] = q[i + d]
      BY <1>1 DEF IsRequest
    <2>2. \A i \in DOMAIN r2 : r2[i].kind \in {"ok", "wait"} => i + c \in DOMAIN r /\ r2[i] = r[i + c]
      BY <1>2 DEF IsReply
    <2> QED
      BY <2>1, <2>2 DEF Direction, Blocks
  <1>5. Messages(s, t, q2)
    <2>1. \A i \in DOMAIN q2 : q2[i].kind = "message" => i + d \in DOMAIN q /\ q2[i] = q[i + d]
      BY <1>1 DEF IsData
    <2> SUFFICES ASSUME mode = "message" /\ s.written <= W
                 PROVE  Messages(s, t, q2)
      BY DEF Messages
    <2>2. \A i, j \in DOMAIN q2 : i < j /\ q2[i].kind = "message" /\ q2[j].kind = "message" =>
              Before(q2[i], q2[j].seq, Start(q2[j]))
      <3> SUFFICES ASSUME NEW i \in DOMAIN q2, NEW j \in DOMAIN q2, i < j,
                          q2[i].kind = "message", q2[j].kind = "message"
                   PROVE  Before(q2[i], q2[j].seq, Start(q2[j]))
        OBVIOUS
      <3>1. i + d < j + d
        OBVIOUS
      <3> QED
        BY <2>1, <3>1 DEF Direction, Messages
    <2> QED
      BY <2>1, <2>2 DEF Direction, Messages
  <1> QED
    BY <1>3, <1>4, <1>5 DEF Direction

\* What a direction depends on at each end.
SenderSame(s, s2) ==
    /\ s2.task = s.task /\ s2.err = s.err /\ s2.written = s.written /\ s2.sent = s.sent
    /\ s2.cut = s.cut /\ s2.seqOut = s.seqOut /\ s2.closing = s.closing

ReceiverSame(t, t2) ==
    /\ Data(t2) = Data(t) /\ t2.seqIn = t.seqIn
    /\ ~t.paused => t.input = <<>>
    /\ ~t2.paused => t2.input = <<>>

LEMMA DirectionSame ==
    ASSUME NEW s \in Transport, NEW t \in Transport, NEW s2 \in Transport, NEW t2 \in Transport,
           NEW q \in Seq(Stanza), NEW r \in Seq(Stanza),
           Direction(s, t, q, r), SenderSame(s, s2), ReceiverSame(t, t2)
    PROVE  Direction(s2, t2, q, r)
  <1>1. Amount(t2) = Amount(t) /\ Expected(t2) = Expected(t)
    BY DEF Amount, ReceiverSame, Expected
  <1>2. /\ NextSeq(s2) = NextSeq(s) /\ NextStart(s2) = NextStart(s) /\ (Alive(s2) <=> Alive(s))
        /\ (Exact(s2) <=> Exact(s))
    BY DEF SenderSame, NextSeq, NextStart, Alive, Exact
  <1>3. Requests(s2, q, r)
    BY DEF Direction, Requests, SenderSame
  <1>4. Flow(s2, t2)
    BY <1>1, <1>2 DEF Direction, Flow, SenderSame, ReceiverSame
  <1>5. Blocks(s2, t2, q, r)
    BY <1>1 DEF Direction, Blocks, SenderSame
  <1>6. Messages(s2, t2, q)
    BY <1>1, <1>2 DEF Direction, Messages, SenderSame
  <1> QED
    BY <1>3, <1>4, <1>5, <1>6 DEF Direction

\* The write task ends, whatever it was doing. It does so without an error only after
\* it closed the session.
Stops(s, s2) ==
    /\ s2.task \in {"ended", "over"} /\ s.task # "none"
    /\ s2.written = s.written /\ s2.sent = s.sent /\ s2.seqOut = s.seqOut /\ s2.closing = s.closing
    /\ s2.err = "none" => s.err = "none" /\ s.task \in {"closing", "ended", "over"}

LEMMA SenderStops ==
    ASSUME NEW s \in Transport, NEW t \in Transport, NEW s2 \in Transport,
           NEW q \in Seq(Stanza), NEW r \in Seq(Stanza),
           Direction(s, t, q, r), Stops(s, s2)
    PROVE  Direction(s2, t, q, r)
  <1>1. Requests(s2, q, r)
    BY DEF Direction, Requests, Stops
  <1>2. Flow(s2, t)
    BY DEF Direction, Flow, Stops, Exact
  <1>3. Blocks(s2, t, q, r)
    BY DEF Direction, Blocks, Stops
  <1>4. Messages(s2, t, q)
    BY DEF Direction, Messages, Stops, Alive
  <1> QED
    BY <1>1, <1>2, <1>3, <1>4 DEF Direction

\* The application writes, or closes: it cannot once it has closed.
Extends(s, s2) ==
    /\ s2.task = s.task /\ s2.err = s.err /\ s2.sent = s.sent /\ s2.cut = s.cut
    /\ s2.seqOut = s.seqOut /\ s2.written >= s.written
    /\ ~s.closing /\ s.task # "over"

LEMMA SenderExtends ==
    ASSUME NEW s \in Transport, NEW t \in Transport, NEW s2 \in Transport,
           NEW q \in Seq(Stanza), NEW r \in Seq(Stanza),
           Direction(s, t, q, r), Extends(s, s2)
    PROVE  Direction(s2, t, q, r)
  <1>1. Requests(s2, q, r)
    BY DEF Direction, Requests, Extends
  <1>2. Exact(s2) => Exact(s)
    BY Fields, SeqAssumption DEF Exact, Extends
  <1>3. Flow(s2, t)
    BY SMTT(60), <1>2, Fields DEF Direction, Flow, Extends
  <1>5. Blocks(s2, t, q, r)
    <2>1. \A i \in DOMAIN q : q[i].kind = "iq" => Len(q[i].bytes) \in Nat
      BY Kinds
    <2> QED
      BY SMTT(60), <2>1, Fields DEF Direction, Blocks, Extends
  <1>6. Messages(s2, t, q)
    <2> SUFFICES ASSUME mode = "message", s2.written <= W PROVE Messages(s2, t, q)
      BY DEF Messages
    <2>1. s.written <= W
      BY Fields, SeqAssumption DEF Extends
    <2>2. NextSeq(s2) = NextSeq(s) /\ NextStart(s2) = NextStart(s) /\ (Alive(s2) <=> Alive(s))
      BY DEF Extends, NextSeq, NextStart, Alive
    <2>3. \A i \in DOMAIN q : q[i].kind = "message" => (Stop(q[i]) <= s.written => Stop(q[i]) <= s2.written)
      <3> SUFFICES ASSUME NEW i \in DOMAIN q, q[i].kind = "message", Stop(q[i]) <= s.written
                   PROVE  Stop(q[i]) <= s2.written
        OBVIOUS
      <3>1. q[i].bytes \in Seq(Nat) /\ Len(q[i].bytes) >= 1
        BY SMTT(60), <2>1, Kinds DEF Direction, Messages, Spans
      <3>2. Stop(q[i]) \in Int
        BY <3>1 DEF Stop, Start
      <3> QED
        BY <3>2, Fields DEF Extends
    <2> QED
      BY <2>1, <2>2, <2>3 DEF Direction, Messages, Extends
  <1> QED
    BY <1>1, <1>3, <1>5, <1>6 DEF Direction

\* A request that is no block is sent while nothing is under way.
LEMMA RequestSent ==
    ASSUME NEW s \in Transport, NEW t \in Transport,
           NEW q \in Seq(Stanza), NEW r \in Seq(Stanza), NEW kind \in {"open", "close"},
           Direction(s, t, q, r), Unasked(q), Unreplied(r),
           s.task \notin {"waiting", "sleeping", "sending"}
    PROVE  Direction(s, t, q \o <<Simple(kind)>>, r)
  <1> DEFINE x == <<Simple(kind)>>
             q2 == q \o x
  <1>1. /\ x \in Seq(Stanza) /\ Len(x) = 1 /\ x[1] = Simple(kind)
        /\ ~IsData(Simple(kind)) /\ Simple(kind).kind = kind
    BY SimpleStanza DEF Simple, IsData
  <1> HIDE DEF x
  <1>2. \A i \in DOMAIN q2 : \/ i \in DOMAIN q /\ q2[i] = q[i]
                             \/ i = Len(q) + 1 /\ q2[i] = Simple(kind)
    BY <1>1, ConcatAt
  <1>3. Len(q) \in Nat /\ q2 \in Seq(Stanza)
    BY <1>1, ConcatAt
  <1> HIDE DEF q2
  <1>4. Requests(s, q2, r)
    BY <1>1, <1>2 DEF Direction, Requests, Unasked
  <1>5. Blocks(s, t, q2, r)
    BY <1>1, <1>2 DEF Direction, Blocks
  <1>6. Messages(s, t, q2)
    <2>1. \A i \in DOMAIN q2 : q2[i].kind = "message" => i \in DOMAIN q /\ q2[i] = q[i]
      BY <1>1, <1>2
    <2> QED
      BY <2>1 DEF Direction, Messages
  <1> QED
    BY <1>4, <1>5, <1>6 DEF Direction, q2, x

\* The transport is created.
LEMMA Born ==
    ASSUME NEW t \in Transport, NEW q \in Seq(Stanza), NEW r \in Seq(Stanza),
           Direction(NoTransport, t, q, r), Unasked(q), Unreplied(r)
    PROVE  Direction(Created, t, q, r)
  <1>1. /\ NoTransport.written = 0 /\ NoTransport.sent = 0 /\ NoTransport.seqOut = 0
        /\ NoTransport.task = "none"
        /\ Created.written = 0 /\ Created.sent = 0 /\ Created.seqOut = 0
        /\ Created.task = "waiting"
    BY DEF Created, NoTransport
  <1>2. Amount(t) \in Nat /\ Exact(NoTransport)
    BY <1>1, SeqAssumption DEF Amount, Data, Transport, Exact
  <1>3. Amount(t) = 0
    BY <1>1, <1>2 DEF Direction, Flow
  <1>4. \A i \in DOMAIN q : ~IsData(q[i])
    BY <1>1 DEF Direction, Requests
  <1>5. Requests(Created, q, r)
    BY <1>1, <1>4 DEF Direction, Requests
  <1>6. Flow(Created, t)
    BY <1>1, <1>2, <1>3 DEF Direction, Flow, Exact
  <1>7. Blocks(Created, t, q, r)
    BY <1>1, <1>3, <1>4 DEF Direction, Blocks, IsData
  <1>8. Messages(Created, t, q)
    <2> SUFFICES ASSUME mode = "message" PROVE Messages(Created, t, q)
      BY DEF Messages
    <2>1. NoTransport.written <= W
      BY <1>1, SeqAssumption
    <2>2. Expected(t) <= 0
      BY <1>3, <2>1 DEF Direction, Messages
    <2>3. Expected(t) = 0
      BY <2>2, SeqAssumption DEF Expected, Count, Transport
    <2>4. Count(0, 0) = 0
      BY SeqAssumption DEF Count
    <2> QED
      BY <1>1, <1>3, <1>4, <2>3, <2>4 DEF Messages, NextSeq, NextStart, IsData
  <1> QED
    BY <1>5, <1>6, <1>7, <1>8 DEF Direction

-----------------------------------------------------------------------------
(* What the write task does when nothing is under way *)

\* What s and s2 have in common while the task decides what to do next.
Decides(s, s2) ==
    /\ s2.written = s.written /\ s2.sent = s.sent
    /\ s2.seqOut = s.seqOut /\ s2.closing = s.closing

Idle(s) == [s EXCEPT !.task = "waiting"]

LEMMA IdleFields ==
    ASSUME NEW s \in Transport
    PROVE  /\ Idle(s) \in Transport /\ Idle(s).task = "waiting" /\ Idle(s).cut = s.cut
           /\ Decides(s, Idle(s)) /\ Idle(s).err = s.err
  BY DEF Idle, Transport, Task, Decides

\* It waits for something to do, or for the peer to have room.
LEMMA Rests ==
    ASSUME NEW u \in Transport, NEW t \in Transport, NEW s2 \in Transport,
           NEW q \in Seq(Stanza), NEW r \in Seq(Stanza),
           Direction(u, t, q, r), u.task = "waiting", Decides(u, s2),
           s2.task \in {"waiting", "sleeping"},
           s2.task = "sleeping" => mode = "iq" /\ u.sent < u.written
    PROVE  Direction(s2, t, q, r)
  <1>1. Requests(s2, q, r)
    BY DEF Direction, Requests
  <1>2. Flow(s2, t)
    BY DEF Direction, Flow, Decides, Exact
  <1>3. Blocks(s2, t, q, r)
    BY DEF Direction, Blocks, Decides
  <1>4. Messages(s2, t, q)
    BY DEF Direction, Messages, Decides, Alive, NextSeq, NextStart
  <1> QED
    BY <1>1, <1>2, <1>3, <1>4 DEF Direction

\* It closes the session, because it is done or because it failed.
LEMMA Closes ==
    ASSUME NEW s \in Transport, NEW t \in Transport, NEW s2 \in Transport,
           NEW q \in Seq(Stanza), NEW r \in Seq(Stanza),
           Direction(s, t, q, r), Unasked(q), Unreplied(r), s.task # "none",
           Decides(s, s2), s2.task = "closing",
           s2.err = "none" => s.task = "waiting" /\ s.sent = s.written /\ s.closing
    PROVE  Direction(s2, t, q \o <<Simple("close")>>, r)
  <1>1. Requests(s2, q, r)
    BY DEF Direction, Requests
  <1>2. Flow(s2, t)
    BY DEF Direction, Flow, Decides, Exact
  <1>3. Blocks(s2, t, q, r)
    BY DEF Direction, Blocks, Decides, Unasked, IsRequest
  <1>4. Messages(s2, t, q)
    BY DEF Direction, Messages, Decides, Alive
  <1> QED
    BY <1>1, <1>2, <1>3, <1>4, RequestSent DEF Direction

\* The block a task that is sending has sent.
Current(s) == [kind |-> mode, seq |-> s.seqOut, bytes |-> [i \in 1..s.cut |-> s.sent + i]]

LEMMA CurrentStanza ==
    ASSUME NEW s \in Transport, mode \in {"iq", "message"}
    PROVE  /\ Current(s) \in Stanza /\ <<Current(s)>> \in Seq(Stanza)
           /\ Current(s).kind = mode /\ Current(s).seq = s.seqOut
           /\ Len(Current(s).bytes) = s.cut
           /\ s.cut >= 1 => Start(Current(s)) = s.sent /\ Stop(Current(s)) = s.sent + s.cut
                            /\ Spans(Current(s), s.sent)
  <1> DEFINE b == [i \in 1..s.cut |-> s.sent + i]
  <1>1. s.sent \in Nat /\ s.cut \in Nat /\ s.seqOut \in 0..W - 1
    BY Fields
  <1>2. b \in Seq(Nat) /\ Len(b) = s.cut
    BY <1>1
  <1>3. s.cut >= 1 => b[1] = s.sent + 1
    BY <1>1
  <1>4. b = [j \in 1..Len(b) |-> s.sent + j]
    BY <1>1, <1>2
  <1>5. Current(s) = [kind |-> mode, seq |-> s.seqOut, bytes |-> b]
    BY DEF Current
  <1> HIDE DEF b
  <1>6. Current(s).kind = mode /\ Current(s).seq = s.seqOut /\ Current(s).bytes = b
    BY <1>5
  <1>7. Current(s) \in Stanza
    BY <1>1, <1>2, <1>5 DEF Stanza
  <1> QED
    BY <1>1, <1>2, <1>3, <1>4, <1>6, <1>7 DEF Start, Stop, Spans

\* It sends the next block.
LEMMA Sends ==
    ASSUME mode \in {"iq", "message"},
           NEW u \in Transport, NEW t \in Transport, NEW s2 \in Transport,
           NEW q \in Seq(Stanza), NEW r \in Seq(Stanza),
           Direction(u, t, q, r), Unasked(q), Unreplied(r), u.task = "waiting",
           Decides(u, s2), s2.task = "sending", s2.cut >= 1, u.sent + s2.cut <= u.written
    PROVE  Direction(s2, t, q \o <<Current(s2)>>, r)
  <1> DEFINE m == Current(s2)
             x == <<m>>
             q2 == q \o x
  <1>1. /\ m \in Stanza /\ x \in Seq(Stanza) /\ m.kind = mode /\ m.seq = u.seqOut
        /\ Len(m.bytes) = s2.cut /\ Start(m) = u.sent /\ Stop(m) = u.sent + s2.cut
        /\ Spans(m, u.sent)
    BY CurrentStanza DEF Decides
  <1>2. Len(x) = 1 /\ x[1] = m
    OBVIOUS
  <1>3. /\ u.sent \in Nat /\ u.written \in Nat /\ s2.cut \in Nat /\ u.seqOut \in 0..W - 1
        /\ Amount(t) \in Nat /\ W \in Nat \ {0}
        /\ s2.sent = u.sent /\ s2.written = u.written /\ s2.seqOut = u.seqOut
    BY Fields, SeqAssumption DEF Decides
  <1> HIDE DEF m, x
  <1>4. \A i \in DOMAIN q2 : \/ i \in DOMAIN q /\ q2[i] = q[i]
                             \/ i = Len(q) + 1 /\ i \notin DOMAIN q /\ q2[i] = m
    BY <1>1, <1>2, ConcatAt
  <1>5. Len(q) \in Nat /\ q2 \in Seq(Stanza)
    BY <1>1, ConcatAt
  <1>6. \A i \in DOMAIN q : i <= Len(q)
    OBVIOUS
  <1> HIDE DEF q2
  <1>7. Requests(s2, q2, r)
    <2>1. \A i \in DOMAIN q2 : IsRequest(q2[i]) => q2[i] = m /\ i = Len(q) + 1
      BY <1>4 DEF Unasked
    <2>2. IsRequest(m) => mode = "iq" /\ m.kind = "iq"
      BY <1>1 DEF IsRequest
    <2>3. \A i \in DOMAIN q2 : IsData(q2[i]) => q2[i].kind = mode
      BY <1>1, <1>4 DEF Direction, Requests
    <2>4. mode = "message" => Unasked(q2)
      BY <2>1, <2>2 DEF Unasked
    <2> QED
      BY <2>1, <2>2, <2>3, <2>4 DEF Direction, Requests
  <1>8. Flow(s2, t)
    BY <1>3 DEF Direction, Flow, Exact
  <1>9. Blocks(s2, t, q2, r)
    <2> SUFFICES ASSUME mode = "iq" PROVE Blocks(s2, t, q2, r)
      BY DEF Blocks
    <2>1. \A i \in DOMAIN q2 : q2[i].kind = "iq" => q2[i] = m
      BY <1>4 DEF Unasked, IsRequest
    <2>2. Amount(t) = u.sent
      BY DEF Direction, Blocks
    <2>3. \A i \in DOMAIN r : r[i].kind # "ok" /\ r[i].kind # "wait"
      BY DEF Unreplied, IsReply
    <2> QED
      BY <1>1, <1>3, <2>1, <2>2, <2>3 DEF Blocks
  <1>10. Messages(s2, t, q2)
    <2> SUFFICES ASSUME mode = "message", u.written <= W PROVE Messages(s2, t, q2)
      BY <1>3 DEF Messages
    <2>1. /\ Count(u.seqOut, u.sent) = u.seqOut
          /\ NextSeq(u) = u.seqOut /\ NextStart(u) = u.sent
          /\ NextSeq(s2) = u.seqOut + 1 /\ NextStart(s2) = u.sent + s2.cut
          /\ Alive(u) /\ Alive(s2)
      BY SMTT(60), <1>3 DEF Count, NextSeq, NextStart, Alive
    <2>2. Expected(t) \in Nat
      BY <1>3, Fields DEF Expected, Count
    <2>3. /\ Expected(t) <= Amount(t) /\ Expected(t) <= u.seqOut /\ Amount(t) <= u.sent
          /\ Expected(t) = u.seqOut => Amount(t) = u.sent
          /\ u.seqOut <= u.sent
      BY <2>1 DEF Direction, Messages
    <2>4. \A i \in DOMAIN q : q[i].kind = "message" =>
             /\ Spans(q[i], Start(q[i])) /\ Start(q[i]) >= Amount(t) /\ Stop(q[i]) <= u.written
             /\ q[i].seq >= Expected(t) /\ (q[i].seq = Expected(t) => Start(q[i]) = Amount(t))
             /\ Before(q[i], u.seqOut, u.sent)
      BY <2>1 DEF Direction, Messages
    <2>5. \A i \in DOMAIN q : q[i].kind = "message" => Before(q[i], u.seqOut + 1, u.sent + s2.cut)
      <3> SUFFICES ASSUME NEW i \in DOMAIN q, q[i].kind = "message"
                   PROVE  Before(q[i], u.seqOut + 1, u.sent + s2.cut)
        OBVIOUS
      <3>1. q[i] \in Stanza /\ IsData(q[i])
        BY DEF IsData
      <3>2. q[i].seq \in Nat /\ q[i].bytes \in Seq(Nat)
        BY <3>1, Kinds, <1>3
      <3>3. Len(q[i].bytes) >= 1 /\ Before(q[i], u.seqOut, u.sent)
        BY <2>4 DEF Spans
      <3>4. Stop(q[i]) \in Int
        BY <3>2, <3>3 DEF Stop, Start
      <3>5. q[i].seq < u.seqOut /\ Stop(q[i]) <= u.sent
        BY <3>3 DEF Before
      <3>6. Stop(q[i]) <= u.sent + s2.cut
        BY <3>4, <3>5, <1>3
      <3>7. q[i].seq < u.seqOut + 1 /\ u.seqOut + 1 # q[i].seq + 1
        BY <3>2, <3>5, <1>3
      <3> QED
        BY <3>6, <3>7 DEF Before
    <2>6. \A i \in DOMAIN q2 : q2[i].kind = "message" =>
             /\ Spans(q2[i], Start(q2[i])) /\ Start(q2[i]) >= Amount(t) /\ Stop(q2[i]) <= u.written
             /\ q2[i].seq >= Expected(t) /\ (q2[i].seq = Expected(t) => Start(q2[i]) = Amount(t))
             /\ Before(q2[i], u.seqOut + 1, u.sent + s2.cut)
      <3> SUFFICES ASSUME NEW i \in DOMAIN q2, q2[i].kind = "message"
                   PROVE  /\ Spans(q2[i], Start(q2[i])) /\ Start(q2[i]) >= Amount(t)
                          /\ Stop(q2[i]) <= u.written /\ q2[i].seq >= Expected(t)
                          /\ q2[i].seq = Expected(t) => Start(q2[i]) = Amount(t)
                          /\ Before(q2[i], u.seqOut + 1, u.sent + s2.cut)
        OBVIOUS
      <3>1. CASE i \in DOMAIN q /\ q2[i] = q[i]
        BY <3>1, <2>4, <2>5
      <3>2. CASE q2[i] = m
        BY <3>2, <1>1, <1>3, <2>2, <2>3 DEF Before
      <3> QED
        BY <3>1, <3>2, <1>4
    <2>7. \A i, j \in DOMAIN q2 : i < j /\ q2[i].kind = "message" /\ q2[j].kind = "message" =>
             Before(q2[i], q2[j].seq, Start(q2[j]))
      <3> SUFFICES ASSUME NEW i \in DOMAIN q2, NEW j \in DOMAIN q2, i < j,
                          q2[i].kind = "message", q2[j].kind = "message"
                   PROVE  Before(q2[i], q2[j].seq, Start(q2[j]))
        OBVIOUS
      <3>1. CASE j \in DOMAIN q /\ q2[j] = q[j]
        <4>1. i \in DOMAIN q /\ q2[i] = q[i]
          BY <3>1, <1>4, <1>5, <1>6
        <4> QED
          BY <3>1, <4>1 DEF Direction, Messages
      <3>2. CASE j = Len(q) + 1 /\ q2[j] = m
        <4>1. i \in DOMAIN q /\ q2[i] = q[i]
          BY <3>2, <1>4, <1>5
        <4> QED
          BY <3>2, <4>1, <1>1, <2>4
      <3> QED
        BY <3>1, <3>2, <1>4
    <2> QED
      BY <1>3, <2>1, <2>2, <2>3, <2>6, <2>7 DEF Messages
  <1> QED
    BY <1>7, <1>8, <1>9, <1>10 DEF Direction, m, x, q2

\* Where the loop leads to.
LEMMA LoopFields ==
    ASSUME NEW s \in Transport, s.sent <= s.written
    PROVE  /\ Loop(s) \in Transport /\ Decides(s, Loop(s)) /\ Loop(s).err = s.err
           /\ Loop(s).seqIn = s.seqIn /\ Loop(s).paused = s.paused
           /\ Loop(s).input = s.input /\ Loop(s).got = s.got
           /\ \/ /\ Loop(s).task = "sending"
                 /\ Loop(s).cut >= 1 /\ s.sent + Loop(s).cut <= s.written
              \/ Loop(s).task = "closing" /\ s.sent = s.written /\ s.closing
              \/ Loop(s).task = "waiting"
  <1> DEFINE left == s.written - s.sent
             full == s.full /\ left >= Low
             cut == IF left < Block THEN left ELSE Block
  <1>1. left \in Nat /\ full \in BOOLEAN /\ cut \in Nat /\ (left > 0 => cut >= 1 /\ cut <= left)
    BY BlockAssumption, LimitsAssumption DEF Transport
  <1>2. CASE left > 0
    <2> DEFINE y == [s EXCEPT !.full = full, !.task = "sending", !.cut = cut]
    <2>1. Loop(s) = y
      BY <1>2 DEF Loop, TakeBlock, Transport
    <2>2. y \in Transport
      BY <1>1 DEF Transport, Task
    <2>3. /\ Decides(s, y) /\ y.err = s.err /\ y.seqIn = s.seqIn /\ y.paused = s.paused
          /\ y.input = s.input /\ y.got = s.got /\ y.task = "sending" /\ y.cut = cut
      BY DEF Decides, Transport
    <2>4. cut >= 1 /\ s.sent + cut <= s.written
      BY <1>1, <1>2, Fields
    <2> HIDE DEF y, cut
    <2> QED
      BY <2>1, <2>2, <2>3, <2>4
  <1>3. CASE left = 0 /\ s.closing
    <2> DEFINE y == [s EXCEPT !.full = full, !.task = "closing", !.cut = 0]
    <2>1. Loop(s) = y
      BY <1>3 DEF Loop, Transport
    <2>2. y \in Transport
      BY <1>1 DEF Transport, Task
    <2>3. /\ Decides(s, y) /\ y.err = s.err /\ y.seqIn = s.seqIn /\ y.paused = s.paused
          /\ y.input = s.input /\ y.got = s.got /\ y.task = "closing"
      BY DEF Decides, Transport
    <2>4. s.sent = s.written
      BY <1>1, <1>3, Fields
    <2> HIDE DEF y
    <2> QED
      BY <2>1, <2>2, <2>3, <2>4, <1>3
  <1>4. CASE left = 0 /\ ~s.closing
    <2> DEFINE y == [s EXCEPT !.full = full, !.task = "waiting", !.canWrite = FALSE, !.cut = 0]
    <2>1. Loop(s) = y
      BY <1>4 DEF Loop, Transport
    <2>2. y \in Transport
      BY <1>1 DEF Transport, Task
    <2>3. /\ Decides(s, y) /\ y.err = s.err /\ y.seqIn = s.seqIn /\ y.paused = s.paused
          /\ y.input = s.input /\ y.got = s.got /\ y.task = "waiting"
      BY DEF Decides, Transport
    <2> HIDE DEF y
    <2> QED
      BY <2>1, <2>2, <2>3
  <1> QED
    BY <1>1, <1>2, <1>3, <1>4

LEMMA TakeBlockFields ==
    ASSUME NEW s \in Transport, s.sent < s.written
    PROVE  /\ TakeBlock(s) \in Transport /\ Decides(s, TakeBlock(s))
           /\ TakeBlock(s).seqIn = s.seqIn /\ TakeBlock(s).paused = s.paused
           /\ TakeBlock(s).input = s.input /\ TakeBlock(s).got = s.got
           /\ TakeBlock(s).task = "sending"
           /\ TakeBlock(s).cut >= 1 /\ s.sent + TakeBlock(s).cut <= s.written
  <1> DEFINE left == s.written - s.sent
             cut == IF left < Block THEN left ELSE Block
             y == [s EXCEPT !.task = "sending", !.cut = cut]
  <1>1. cut \in Nat /\ cut >= 1 /\ s.sent + cut <= s.written
    BY BlockAssumption, Fields
  <1>2. TakeBlock(s) = y
    BY DEF TakeBlock, Transport
  <1> HIDE DEF cut
  <1>3. y \in Transport
    BY <1>1 DEF Transport, Task
  <1>4. /\ Decides(s, y) /\ y.seqIn = s.seqIn /\ y.paused = s.paused
        /\ y.input = s.input /\ y.got = s.got /\ y.task = "sending" /\ y.cut = cut
    BY DEF Decides, Transport
  <1> HIDE DEF y
  <1> QED
    BY <1>1, <1>2, <1>3, <1>4

LEMMA SentFields ==
    ASSUME mode \in {"iq", "message"}, NEW s \in Transport
    PROVE  /\ Sent(s) \in Seq(Stanza) /\ Unreplied(Sent(s))
           /\ s.task = "sending" => Sent(s) = <<Current(s)>>
           /\ s.task = "closing" => Sent(s) = <<Simple("close")>>
           /\ s.task \notin {"sending", "closing"} => Sent(s) = <<>>
  <1>1. CASE s.task = "sending"
    <2>1. Sent(s) = <<Current(s)>>
      BY <1>1 DEF Sent, Current
    <2>2. Current(s) \in Stanza /\ <<Current(s)>> \in Seq(Stanza) /\ ~IsReply(Current(s))
      BY CurrentStanza DEF IsReply
    <2>3. Unreplied(<<Current(s)>>)
      BY <2>2 DEF Unreplied
    <2> QED
      BY <1>1, <2>1, <2>2, <2>3
  <1>2. CASE s.task = "closing"
    <2>1. Sent(s) = <<Simple("close")>>
      BY <1>2 DEF Sent
    <2>2. <<Simple("close")>> \in Seq(Stanza) /\ ~IsReply(Simple("close"))
      BY SimpleStanza DEF Simple, IsReply
    <2>3. Unreplied(<<Simple("close")>>)
      BY <2>2 DEF Unreplied
    <2> QED
      BY <1>2, <2>1, <2>2, <2>3
  <1>3. CASE s.task \notin {"sending", "closing"}
    <2>1. Sent(s) = <<>>
      BY <1>3 DEF Sent
    <2>2. <<>> \in Seq(Stanza) /\ Unreplied(<<>>)
      BY DEF Unreplied
    <2> QED
      BY <1>3, <2>1, <2>2
  <1> QED
    BY <1>1, <1>2, <1>3

LEMMA NothingAdded ==
    ASSUME NEW q \in Seq(Stanza)
    PROVE  q \o <<>> = q
  OBVIOUS

\* The other direction does not notice what the write task does.
Untouched(s, s2) ==
    /\ s2.seqIn = s.seqIn /\ s2.paused = s.paused
    /\ s2.input = s.input /\ s2.got = s.got

\* The loop goes on from a turn that is over.
LEMMA LoopRuns ==
    ASSUME mode \in {"iq", "message"},
           NEW s \in Transport, NEW t \in Transport,
           NEW q \in Seq(Stanza), NEW r \in Seq(Stanza),
           Direction(Idle(s), t, q, r), Unasked(q), Unreplied(r)
    PROVE  /\ Loop(s) \in Transport /\ Untouched(s, Loop(s)) /\ Loop(s).task # "none"
           /\ Direction(Loop(s), t, q \o Sent(Loop(s)), r)
  <1>1. /\ Idle(s) \in Transport /\ Idle(s).task = "waiting" /\ Decides(s, Idle(s))
    BY IdleFields
  <1>2. s.sent <= s.written
    BY <1>1 DEF Direction, Flow, Decides
  <1> DEFINE y == Loop(s)
  <1>3. /\ y \in Transport /\ Decides(s, y) /\ Untouched(s, y)
        /\ \/ y.task = "sending" /\ y.cut >= 1 /\ s.sent + y.cut <= s.written
           \/ y.task = "closing" /\ s.sent = s.written /\ s.closing
           \/ y.task = "waiting"
    BY <1>2, LoopFields DEF Untouched
  <1> HIDE DEF y
  <1>4. Decides(Idle(s), y)
    BY <1>1, <1>3 DEF Decides
  <1>5. CASE y.task = "sending"
    <2>1. Idle(s).sent + y.cut <= Idle(s).written /\ y.cut >= 1
      BY <1>1, <1>3, <1>5 DEF Decides
    <2>2. Direction(y, t, q \o <<Current(y)>>, r)
      BY <1>1, <1>3, <1>4, <1>5, <2>1, Sends
    <2> QED
      BY <1>3, <1>5, <2>2, SentFields DEF y
  <1>6. CASE y.task = "closing"
    <2>1. Idle(s).sent = Idle(s).written /\ Idle(s).closing
      BY <1>1, <1>3, <1>6 DEF Decides
    <2>2. Direction(y, t, q \o <<Simple("close")>>, r)
      BY <1>1, <1>3, <1>4, <1>6, <2>1, Closes
    <2> QED
      BY <1>3, <1>6, <2>2, SentFields DEF y
  <1>7. CASE y.task = "waiting"
    <2>1. y.task \in {"waiting", "sleeping"} /\ y.task # "sleeping"
      BY <1>7
    <2>2. Direction(y, t, q, r)
      BY <1>1, <1>3, <1>4, <2>1, Rests
    <2> QED
      BY <1>3, <1>7, <2>2, SentFields, NothingAdded DEF y
  <1> QED
    BY <1>3, <1>5, <1>6, <1>7

LEMMA SmallModulo ==
    ASSUME NEW a \in Nat, NEW b \in Nat \ {0}, a < b
    PROVE  a % b = a
  OBVIOUS

\* A turn is over, in message mode or because the peer has acknowledged the block.
Advanced(s) == [s EXCEPT !.sent = @ + s.cut, !.seqOut = (@ + 1) % W, !.retries = 0]

LEMMA AdvancedFields ==
    ASSUME NEW s \in Transport
    PROVE  /\ Advanced(s) \in Transport /\ Untouched(s, Advanced(s))
           /\ Idle(Advanced(s)) \in Transport /\ Idle(Advanced(s)).task = "waiting"
           /\ Idle(Advanced(s)).sent = s.sent + s.cut
           /\ Idle(Advanced(s)).seqOut = (s.seqOut + 1) % W
           /\ Idle(Advanced(s)).written = s.written /\ Idle(Advanced(s)).closing = s.closing
  <1> DEFINE y == Advanced(s)
  <1>1. s.sent + s.cut \in Nat /\ (s.seqOut + 1) % W \in 0..W - 1 /\ 0 \in 0..MaxRetries
    BY Fields, SeqAssumption, RetriesAssumption
  <1>2. y \in Transport
    BY <1>1 DEF Advanced, Transport
  <1>3. /\ y.sent = s.sent + s.cut /\ y.seqOut = (s.seqOut + 1) % W
        /\ y.written = s.written /\ y.closing = s.closing /\ Untouched(s, y)
    BY DEF Advanced, Transport, Untouched
  <1> HIDE DEF y
  <1>4. Idle(y) \in Transport /\ Idle(y).task = "waiting" /\ Decides(y, Idle(y))
    BY <1>2, IdleFields
  <1> QED
    BY <1>2, <1>3, <1>4 DEF Decides, y

LEMMA Advances ==
    ASSUME mode \in {"iq", "message"},
           NEW s \in Transport, NEW t \in Transport,
           NEW q \in Seq(Stanza), NEW r \in Seq(Stanza),
           Direction(s, t, q, r), Unasked(q), Unreplied(r), s.task = "sending",
           mode = "iq" => Amount(t) = s.sent + s.cut
    PROVE  Direction(Idle(Advanced(s)), t, q, r)
  <1> DEFINE u == Idle(Advanced(s))
  <1>1. /\ u \in Transport /\ u.task = "waiting" /\ u.sent = s.sent + s.cut
        /\ u.seqOut = (s.seqOut + 1) % W /\ u.written = s.written /\ u.closing = s.closing
    BY AdvancedFields
  <1>2. /\ s.sent \in Nat /\ s.cut \in Nat /\ s.written \in Nat /\ s.seqOut \in 0..W - 1
        /\ Amount(t) \in Nat /\ W \in Nat \ {0}
    BY Fields, SeqAssumption
  <1>3. s.cut >= 1 /\ s.sent + s.cut <= s.written
    BY DEF Direction, Flow
  <1> HIDE DEF u
  <1>4. Requests(u, q, r)
    BY <1>1 DEF Direction, Requests
  <1>5. Flow(u, t)
    BY <1>1, <1>3 DEF Direction, Flow, Exact
  <1>6. Blocks(u, t, q, r)
    BY <1>1 DEF Direction, Blocks, Unasked, IsRequest
  <1>7. Messages(u, t, q)
    <2> SUFFICES ASSUME mode = "message", s.written <= W PROVE Messages(u, t, q)
      BY <1>1 DEF Messages
    <2>1. s.sent < W
      BY <1>2, <1>3
    <2>2. Count(s.seqOut, s.sent) = s.seqOut /\ s.seqOut <= s.sent
      BY <1>2, <2>1 DEF Direction, Messages, Count
    <2>3. Count(u.seqOut, u.sent) = s.seqOut + 1
      <3>1. CASE s.seqOut + 1 < W
        <4>1. u.seqOut = s.seqOut + 1
          BY <1>1, <1>2, <3>1, SmallModulo
        <4> QED
          BY <4>1, <1>2 DEF Count
      <3>2. CASE s.seqOut + 1 = W
        <4>1. u.seqOut = 0
          BY <1>1, <1>2, <3>2
        <4>2. s.sent + s.cut = W
          BY <1>2, <1>3, <2>2, <3>2
        <4>3. u.sent = W
          BY <4>2, <1>1
        <4> QED
          BY <4>1, <4>3, <3>2 DEF Count
      <3> QED
        BY <1>2, <3>1, <3>2
    <2>4. /\ Alive(u) /\ NextSeq(u) = s.seqOut + 1 /\ NextStart(u) = s.sent + s.cut
          /\ Alive(s) /\ NextSeq(s) = s.seqOut + 1 /\ NextStart(s) = s.sent + s.cut
      BY <1>1, <1>2, <2>2, <2>3 DEF Alive, NextSeq, NextStart
    <2>5. Count(u.seqOut, u.sent) <= u.sent
      BY <1>1, <1>2, <1>3, <2>2, <2>3
    <2> QED
      BY <1>1, <2>4, <2>5 DEF Direction, Messages
  <1> QED
    BY <1>4, <1>5, <1>6, <1>7 DEF Direction, u

\* The peer did not take the block: the task waits, and sends it again.
LEMMA Retries ==
    ASSUME NEW s \in Transport, NEW t \in Transport, NEW u \in Transport,
           NEW q \in Seq(Stanza), NEW r \in Seq(Stanza),
           Direction(s, t, q, r), Unasked(q), Unreplied(r), mode = "iq",
           \/ s.task = "sending" /\ Amount(t) = s.sent
           \/ s.task \in {"waiting", "sleeping"},
           Decides(s, u), u.task = "waiting"
    PROVE  Direction(u, t, q, r)
  <1>1. Requests(u, q, r)
    BY DEF Direction, Requests
  <1>2. Flow(u, t)
    BY DEF Direction, Flow, Decides, Exact
  <1>3. Blocks(u, t, q, r)
    BY DEF Direction, Blocks, Decides, Unasked, IsRequest
  <1>4. Messages(u, t, q)
    BY DEF Messages
  <1> QED
    BY <1>1, <1>2, <1>3, <1>4 DEF Direction

-----------------------------------------------------------------------------
(* What the receiver of a request, or of a block, makes of it *)

\* The request under way arrives, or goes no further.
LEMMA RequestTaken ==
    ASSUME NEW s \in Transport, NEW t \in Transport,
           NEW q \in Seq(Stanza), NEW r \in Seq(Stanza),
           Direction(s, t, q, r), q # <<>>, IsRequest(Head(q))
    PROVE  /\ Direction(s, t, Tail(q), r) /\ Unasked(Tail(q)) /\ Unreplied(r)
           /\ s.task \notin {"waiting", "sleeping"}
           /\ s.task = "sending" =>
                /\ mode # "message" /\ Head(q).kind = "iq"
                /\ mode = "iq" => Amount(t) = s.sent /\ Len(Head(q).bytes) = s.cut
  <1>1. /\ Tail(q) \in Seq(Stanza) /\ 1 \in DOMAIN q /\ q[1] = Head(q)
        /\ \A i \in DOMAIN Tail(q) : i + 1 \in DOMAIN q /\ Tail(q)[i] = q[i + 1] /\ i + 1 # 1
    BY TailAt
  <1>2. Direction(s, t, Tail(q), r)
    BY <1>1, TailLess, Unchanged, DirectionNarrows
  <1>3. ~Unasked(q)
    BY <1>1 DEF Unasked
  <1>4. Unreplied(r) /\ s.task \notin {"waiting", "sleeping"}
    BY <1>3 DEF Direction, Requests
  <1>5. Unasked(Tail(q))
    <2> SUFFICES ASSUME NEW i \in DOMAIN Tail(q), IsRequest(Tail(q)[i]) PROVE FALSE
      BY DEF Unasked
    <2> QED
      BY <1>1 DEF Direction, Requests
  <1>6. s.task = "sending" => mode # "message" /\ Head(q).kind = "iq"
    BY <1>1, <1>3 DEF Direction, Requests
  <1>7. s.task = "sending" /\ mode = "iq" => Amount(t) = s.sent /\ Len(Head(q).bytes) = s.cut
    BY <1>1, <1>6 DEF Direction, Blocks
  <1> QED
    BY <1>2, <1>4, <1>5, <1>6, <1>7

LEMMA ReplyAdded ==
    ASSUME NEW s \in Transport, NEW t \in Transport,
           NEW q \in Seq(Stanza), NEW r \in Seq(Stanza), NEW kind \in {"ok", "wait", "error"},
           Direction(s, t, q, r), Unasked(q), Unreplied(r),
           s.task \notin {"waiting", "sleeping"},
           s.task = "sending" => mode # "message",
           s.task = "sending" /\ kind = "ok" /\ mode = "iq" => Amount(t) = s.sent + s.cut,
           s.task = "sending" /\ kind = "wait" /\ mode = "iq" => Amount(t) = s.sent
    PROVE  Direction(s, t, q, r \o <<Simple(kind)>>)
  <1> DEFINE x == <<Simple(kind)>>
             r2 == r \o x
  <1>1. x \in Seq(Stanza) /\ Len(x) = 1 /\ x[1] = Simple(kind) /\ Simple(kind).kind = kind
    BY SimpleStanza DEF Simple
  <1> HIDE DEF x
  <1>2. \A i \in DOMAIN r2 : \/ i \in DOMAIN r /\ r2[i] = r[i]
                             \/ i = Len(r) + 1 /\ r2[i] = Simple(kind)
    BY <1>1, ConcatAt
  <1> HIDE DEF r2
  <1>3. \A i \in DOMAIN r2 : IsReply(r2[i]) => i = Len(r) + 1 /\ r2[i] = Simple(kind)
    BY <1>2 DEF Unreplied
  <1>4. Requests(s, q, r2)
    BY <1>3 DEF Direction, Requests
  <1>5. \A i \in DOMAIN r2 : r2[i].kind \in {"ok", "wait"} => r2[i].kind = kind
    BY <1>1, <1>3 DEF IsReply
  <1>6. Blocks(s, t, q, r2)
    BY <1>5 DEF Direction, Blocks
  <1> QED
    BY <1>4, <1>6 DEF Direction, x, r2

\* A request is answered by the peer, or by a server.
LEMMA RequestAnswered ==
    ASSUME NEW s \in Transport, NEW t \in Transport,
           NEW q \in Seq(Stanza), NEW r \in Seq(Stanza), NEW kind \in {"ok", "wait", "error"},
           Direction(s, t, q, r), q # <<>>, IsRequest(Head(q)),
           kind = "ok" => Head(q).kind # "iq"
    PROVE  Direction(s, t, Tail(q), r \o <<Simple(kind)>>)
  <1>1. Tail(q) \in Seq(Stanza)
    BY TailLess
  <1> QED
    BY <1>1, RequestTaken, ReplyAdded

LEMMA ConcatCounts ==
    ASSUME NEW n \in Nat, NEW k \in Nat,
           NEW a \in Seq(Nat), Len(a) = n, \A i \in 1..n : a[i] = i,
           NEW b \in Seq(Nat), Len(b) = k, \A i \in 1..k : b[i] = n + i,
           NEW c \in Seq(Nat), Len(c) = n + k, \A i \in 1..n + k : c[i] = i
    PROVE  a \o b = c
  BY SMTT(60)

LEMMA UptoAppends ==
    ASSUME NEW n \in Nat, NEW k \in Nat
    PROVE  Upto(n) \o [j \in 1..k |-> n + j] = Upto(n + k)
  <1> DEFINE a == Upto(n)
             b == [j \in 1..k |-> n + j]
             c == Upto(n + k)
  <1>1. a \in Seq(Nat) /\ Len(a) = n /\ \A i \in 1..n : a[i] = i
    BY DEF Upto
  <1>2. b \in Seq(Nat) /\ Len(b) = k /\ \A i \in 1..k : b[i] = n + i
    OBVIOUS
  <1>3. c \in Seq(Nat) /\ Len(c) = n + k /\ \A i \in 1..n + k : c[i] = i
    BY DEF Upto
  <1> HIDE DEF a, b, c
  <1>4. a \o b = c
    BY SMTT(60), <1>1, <1>2, <1>3, ConcatCounts
  <1> QED
    BY <1>4 DEF a, b, c

LEMMA ConcatAssoc ==
    ASSUME NEW a \in Seq(Nat), NEW b \in Seq(Nat), NEW c \in Seq(Nat)
    PROVE  (a \o b) \o c = a \o (b \o c)
  OBVIOUS

LEMMA AcceptFields ==
    ASSUME NEW t \in Transport, NEW bytes \in Seq(Nat), ~t.paused => t.input = <<>>
    PROVE  /\ Accept(t, bytes) \in Transport /\ SenderSame(t, Accept(t, bytes))
           /\ Data(Accept(t, bytes)) = Data(t) \o bytes
           /\ Amount(Accept(t, bytes)) = Amount(t) + Len(bytes)
           /\ Accept(t, bytes).seqIn = (t.seqIn + 1) % W
           /\ ~Accept(t, bytes).paused => Accept(t, bytes).input = <<>>
  <1>1. /\ t.got \in Seq(Nat) /\ t.input \in Seq(Nat) /\ (t.seqIn + 1) % W \in 0..W - 1
    BY Fields, SeqAssumption
  <1>2. t.got \o bytes \in Seq(Nat) /\ t.input \o bytes \in Seq(Nat)
    BY <1>1
  <1>3. (t.got \o t.input) \o bytes = t.got \o (t.input \o bytes)
    BY <1>1, ConcatAssoc
  <1>4. t.input = <<>> => (t.got \o t.input) \o bytes = (t.got \o bytes) \o t.input
    BY <1>1, <1>2
  <1>5. Len((t.got \o t.input) \o bytes) = Len(t.got \o t.input) + Len(bytes)
    BY <1>1
  <1>6. CASE t.paused
    <2> DEFINE y == [t EXCEPT !.seqIn = (@ + 1) % W, !.input = @ \o bytes]
    <2>1. Accept(t, bytes) = y
      BY <1>6 DEF Accept, Transport
    <2>2. y \in Transport
      BY <1>1, <1>2 DEF Transport
    <2>3. /\ SenderSame(t, y) /\ y.seqIn = (t.seqIn + 1) % W /\ y.got = t.got
          /\ y.input = t.input \o bytes /\ y.paused = t.paused
      BY DEF SenderSame, Transport
    <2> HIDE DEF y
    <2> QED
      BY <1>3, <1>5, <1>6, <2>1, <2>2, <2>3 DEF Data, Amount
  <1>7. CASE ~t.paused
    <2> DEFINE y == [t EXCEPT !.seqIn = (@ + 1) % W, !.got = @ \o bytes]
    <2>1. Accept(t, bytes) = y
      BY <1>7 DEF Accept, Transport
    <2>2. y \in Transport
      BY <1>1, <1>2 DEF Transport
    <2>3. /\ SenderSame(t, y) /\ y.seqIn = (t.seqIn + 1) % W /\ y.got = t.got \o bytes
          /\ y.input = t.input /\ y.paused = t.paused
      BY DEF SenderSame, Transport
    <2> HIDE DEF y
    <2> QED
      BY <1>4, <1>5, <1>7, <2>1, <2>2, <2>3 DEF Data, Amount
  <1> QED
    BY <1>6, <1>7

\* The next block is what follows the data.
LEMMA DataGrows ==
    ASSUME NEW t \in Transport, NEW m \in Stanza, IsData(m),
           Data(t) = Upto(Amount(t)), Spans(m, Amount(t))
    PROVE  Data(t) \o m.bytes = Upto(Amount(t) + Len(m.bytes))
  <1>1. Amount(t) \in Nat /\ Len(m.bytes) \in Nat
    BY Fields, Kinds
  <1>2. m.bytes = [j \in 1..Len(m.bytes) |-> Amount(t) + j]
    BY DEF Spans
  <1> QED
    BY <1>1, <1>2, UptoAppends

\* A block that came as an IQ is accepted and acknowledged.
LEMMA TakesIQ ==
    ASSUME NEW s \in Transport, NEW t \in Transport,
           NEW q \in Seq(Stanza), NEW r \in Seq(Stanza),
           Direction(s, t, q, r), q # <<>>, Head(q).kind = "iq"
    PROVE  Direction(s, Accept(t, Head(q).bytes), Tail(q), r \o <<Simple("ok")>>)
  <1> DEFINE m == Head(q)
             t2 == Accept(t, m.bytes)
  <1>1. /\ Tail(q) \in Seq(Stanza) /\ 1 \in DOMAIN q /\ q[1] = m /\ m \in Stanza
    BY TailAt
  <1>2. IsRequest(m) /\ IsData(m) /\ m.bytes \in Seq(Nat) /\ Len(m.bytes) \in Nat
    BY <1>1, Kinds
  <1>3. /\ Direction(s, t, Tail(q), r) /\ Unasked(Tail(q)) /\ Unreplied(r)
        /\ s.task \notin {"waiting", "sleeping"}
        /\ s.task = "sending" => Amount(t) = s.sent /\ Len(m.bytes) = s.cut
        /\ s.task = "sending" => mode # "message"
    BY SMTT(60), <1>2, RequestTaken, <1>1 DEF Direction, Requests
  <1>4. mode = "iq"
    BY <1>1, <1>2 DEF Direction, Requests
  <1>5. Spans(m, Amount(t)) /\ Amount(t) + Len(m.bytes) <= s.written /\ Len(m.bytes) >= 1
    BY <1>1, <1>4 DEF Direction, Blocks, Spans
  <1>6. Data(t) = Upto(Amount(t)) /\ (~t.paused => t.input = <<>>)
    BY <1>4 DEF Direction, Flow, Exact
  <1>7. /\ t2 \in Transport /\ Data(t2) = Data(t) \o m.bytes
        /\ Amount(t2) = Amount(t) + Len(m.bytes) /\ (~t2.paused => t2.input = <<>>)
    BY <1>2, <1>6, AcceptFields
  <1>8. Data(t2) = Upto(Amount(t2)) /\ Amount(t2) <= s.written
    BY <1>1, <1>2, <1>5, <1>6, <1>7, DataGrows
  <1>9. Amount(t) \in Nat /\ s.written \in Nat
    BY Fields
  <1> HIDE DEF t2, m
  <1>10. Requests(s, Tail(q), r)
    BY <1>3 DEF Direction
  <1>11. Flow(s, t2)
    BY <1>7, <1>8 DEF Direction, Flow
  <1>12. Blocks(s, t2, Tail(q), r)
    <2>1. \A i \in DOMAIN Tail(q) : Tail(q)[i].kind # "iq"
      BY <1>3 DEF Unasked, IsRequest
    <2>2. \A i \in DOMAIN r : r[i].kind # "ok" /\ r[i].kind # "wait"
      BY <1>3 DEF Unreplied, IsReply
    <2>3. ~(s.task \in {"closing", "ended", "over"} /\ s.err = "none")
      <3> SUFFICES ASSUME s.task \in {"closing", "ended", "over"}, s.err = "none" PROVE FALSE
        OBVIOUS
      <3>1. Amount(t) = s.written
        BY <1>4 DEF Direction, Blocks
      <3> QED
        BY <1>2, <1>5, <1>9, <3>1
    <2> QED
      BY <1>3, <2>1, <2>2, <2>3 DEF Blocks
  <1>13. Messages(s, t2, Tail(q))
    BY <1>4 DEF Messages
  <1>14. Direction(s, t2, Tail(q), r)
    BY <1>10, <1>11, <1>12, <1>13 DEF Direction
  <1>15. s.task = "sending" => Amount(t2) = s.sent + s.cut
    BY <1>3, <1>7
  <1>16. Direction(s, t2, Tail(q), r \o <<Simple("ok")>>)
    BY <1>1, <1>3, <1>7, <1>14, <1>15, ReplyAdded
  <1> QED
    BY <1>16 DEF t2, m

\* A block that came as a message is accepted.
LEMMA TakesMessage ==
    ASSUME NEW s \in Transport, NEW t \in Transport,
           NEW q \in Seq(Stanza), NEW r \in Seq(Stanza),
           Direction(s, t, q, r), q # <<>>, Head(q).kind = "message", Head(q).seq = t.seqIn
    PROVE  Direction(s, Accept(t, Head(q).bytes), Tail(q), r)
  <1> DEFINE m == Head(q)
             t2 == Accept(t, m.bytes)
             p == Tail(q)
  <1>1. /\ p \in Seq(Stanza) /\ 1 \in DOMAIN q /\ q[1] = m /\ m \in Stanza
        /\ \A i \in DOMAIN p : i + 1 \in DOMAIN q /\ p[i] = q[i + 1] /\ 1 < i + 1
    BY TailAt
  <1>2. IsData(m) /\ m.kind = "message" /\ m.seq \in 0..W - 1 /\ m.bytes \in Seq(Nat) /\ Len(m.bytes) \in Nat
    BY <1>1, Kinds
  <1>3. mode = "message"
    BY <1>1, <1>2 DEF Direction, Requests
  <1>4. ~t.paused => t.input = <<>>
    BY DEF Direction, Flow
  <1>5. /\ t2 \in Transport /\ Data(t2) = Data(t) \o m.bytes
        /\ Amount(t2) = Amount(t) + Len(m.bytes) /\ (~t2.paused => t2.input = <<>>)
        /\ t2.seqIn = (t.seqIn + 1) % W
    BY <1>2, <1>4, AcceptFields
  <1>6. /\ Amount(t) \in Nat /\ s.written \in Nat /\ t.seqIn \in 0..W - 1 /\ W \in Nat \ {0}
        /\ s.seqOut \in 0..W - 1 /\ s.sent \in Nat
    BY Fields, SeqAssumption
  <1>7. m.seq = t.seqIn
    OBVIOUS
  <1>8. Direction(s, t, p, r)
    BY TailLess, Unchanged, DirectionNarrows
  <1> HIDE DEF t2, m, p
  <1>9. Requests(s, p, r)
    BY <1>8 DEF Direction
  <1>10. CASE s.written > W
    <2>1. Flow(s, t2)
      BY <1>3, <1>5, <1>6, <1>8, <1>10 DEF Direction, Flow, Exact
    <2>2. Messages(s, t2, p)
      BY <1>6, <1>10 DEF Messages
    <2>3. Blocks(s, t2, p, r)
      BY <1>3 DEF Blocks
    <2> QED
      BY <1>9, <2>1, <2>2, <2>3 DEF Direction, m, p, t2
  <1>11. CASE s.written <= W
    <2>1. /\ Data(t) = Upto(Amount(t))
      BY <1>8, <1>11 DEF Direction, Flow, Exact
    <2>2. /\ Spans(m, Start(m)) /\ Start(m) >= Amount(t) /\ Stop(m) <= s.written
          /\ m.seq >= Expected(t) /\ (m.seq = Expected(t) => Start(m) = Amount(t))
          /\ Expected(t) <= Amount(t)
      BY <1>1, <1>2, <1>3, <1>11 DEF Direction, Messages
    <2>3. Len(m.bytes) >= 1 /\ Start(m) \in Int /\ Stop(m) = Start(m) + Len(m.bytes)
      <3>1. Len(m.bytes) >= 1
        BY <2>2 DEF Spans
      <3> QED
        BY <3>1, <1>2 DEF Start, Stop
    <2>4. Amount(t) < W
      BY <1>2, <1>6, <1>11, <2>2, <2>3
    <2>5. Expected(t) = t.seqIn
      BY <1>6, <2>4 DEF Expected, Count
    <2>6. Start(m) = Amount(t) /\ Spans(m, Amount(t)) /\ Amount(t2) = Stop(m) /\ t.seqIn <= Amount(t)
      BY <1>5, <1>7, <2>2, <2>3, <2>5
    <2>7. Data(t2) = Upto(Amount(t2)) /\ Amount(t2) <= s.written
      BY <1>1, <1>2, <1>5, <2>1, <2>2, <2>6, DataGrows
    <2>8. Flow(s, t2)
      BY <1>5, <1>8, <2>7 DEF Direction, Flow
    <2>9. Expected(t2) = t.seqIn + 1
      <3>1. CASE t.seqIn + 1 < W
        <4>1. t2.seqIn = t.seqIn + 1
          BY <1>5, <1>6, <3>1, SmallModulo
        <4> QED
          BY <4>1, <1>6 DEF Expected, Count
      <3>2. CASE t.seqIn + 1 = W
        <4>1. t2.seqIn = 0
          BY <1>5, <1>6, <3>2
        <4>2. Amount(t2) = W
          BY <1>2, <1>5, <1>6, <1>11, <2>3, <2>6, <2>7, <3>2
        <4> QED
          BY <4>1, <4>2, <3>2 DEF Expected, Count
      <3> QED
        BY <1>6, <3>1, <3>2
    <2>10. Messages(s, t2, p)
      <3>1. Expected(t2) <= Amount(t2)
        BY <1>2, <1>5, <1>6, <2>3, <2>6, <2>9
      <3>2. \A i \in DOMAIN p : p[i].kind = "message" => Before(m, p[i].seq, Start(p[i]))
        <4> SUFFICES ASSUME NEW i \in DOMAIN p, p[i].kind = "message"
                     PROVE  Before(m, p[i].seq, Start(p[i]))
          OBVIOUS
        <4>1. 1 < i + 1 /\ 1 \in DOMAIN q /\ i + 1 \in DOMAIN q /\ q[1] = m /\ q[i + 1] = p[i]
          BY <1>1
        <4> QED
          BY <4>1, <1>2, <1>3, <1>11 DEF Direction, Messages
      <3>3. \A i \in DOMAIN p : p[i].kind = "message" =>
               /\ p[i].seq >= Expected(t2) /\ Start(p[i]) >= Amount(t2)
               /\ p[i].seq = Expected(t2) => Start(p[i]) = Amount(t2)
        <4> SUFFICES ASSUME NEW i \in DOMAIN p, p[i].kind = "message"
                     PROVE  /\ p[i].seq >= Expected(t2) /\ Start(p[i]) >= Amount(t2)
                            /\ p[i].seq = Expected(t2) => Start(p[i]) = Amount(t2)
          OBVIOUS
        <4>1. Before(m, p[i].seq, Start(p[i]))
          BY <3>2
        <4>2. p[i].seq \in Nat
          BY <1>1, Kinds, <1>6 DEF IsData
        <4> QED
          BY <4>1, <4>2, <1>6, <1>7, <2>6, <2>9 DEF Before
      <3>4. Alive(s) => Before(m, NextSeq(s), NextStart(s))
        BY <1>1, <1>2, <1>3, <1>11 DEF Direction, Messages
      <3>5. NextSeq(s) \in Nat
        BY <1>6 DEF NextSeq, Count
      <3>6. Alive(s) => /\ Expected(t2) <= NextSeq(s) /\ Amount(t2) <= NextStart(s)
                        /\ Expected(t2) = NextSeq(s) => Amount(t2) = NextStart(s)
        BY <3>4, <3>5, <1>6, <1>7, <2>6, <2>9 DEF Before
      <3> QED
        BY <1>3, <1>8, <1>11, <3>1, <3>3, <3>6 DEF Direction, Messages
    <2>11. Blocks(s, t2, p, r)
      BY <1>3 DEF Blocks
    <2> QED
      BY <1>9, <2>8, <2>10, <2>11 DEF Direction, m, p, t2
  <1> QED
    BY <1>6, <1>10, <1>11

-----------------------------------------------------------------------------
(* Steps *)

LEMMA Parties ==
    ASSUME Inv, NEW e \in End
    PROVE  /\ Peer(e) \in End /\ Peer(e) # e /\ Peer(Peer(e)) = e
           /\ \A x \in End : x = e \/ x = Peer(e)
           /\ end[e] \in Transport /\ end[Peer(e)] \in Transport
           /\ net[e] \in Seq(Stanza) /\ net[Peer(e)] \in Seq(Stanza)
           /\ Direction(end[e], end[Peer(e)], net[Peer(e)], net[e])
           /\ Direction(end[Peer(e)], end[e], net[e], net[Peer(e)])
           /\ mode \in {"iq", "message"}
           /\ ~end[e].paused => end[e].input = <<>>
  <1>1. Peer(e) \in End /\ Peer(e) # e /\ Peer(Peer(e)) = e /\ \A x \in End : x = e \/ x = Peer(e)
    BY DEF Peer, End
  <1>2. /\ end[e] \in Transport /\ end[Peer(e)] \in Transport
        /\ net[e] \in Seq(Stanza) /\ net[Peer(e)] \in Seq(Stanza) /\ mode \in {"iq", "message"}
    BY <1>1 DEF Inv, TypeOK
  <1>3. /\ Direction(end[e], end[Peer(e)], net[Peer(e)], net[e])
        /\ Direction(end[Peer(e)], end[e], net[e], net[Peer(e)])
    BY <1>1 DEF Inv, DirectionInv
  <1>4. ~end[e].paused => end[e].input = <<>>
    BY <1>3 DEF Direction, Flow
  <1> QED
    BY <1>1, <1>2, <1>3, <1>4

LEMMA SameMode ==
    ASSUME NEW s, NEW t, NEW q, NEW r, mode' = mode, Direction(s, t, q, r)
    PROVE  Direction(s, t, q, r)'
  BY DEF Direction, Requests, Flow, Blocks, Messages, Exact

\* One end moves: its transport becomes s2, a is left on the way to it, b to its peer.
Moves(e, s2, a, b) ==
    /\ end' = [end EXCEPT ![e] = s2]
    /\ net' = [net EXCEPT ![e] = a, ![Peer(e)] = b]
    /\ mode' = mode

LEMMA MovesKeepDirections ==
    ASSUME Inv, NEW e \in End, NEW s2 \in Transport, NEW a \in Seq(Stanza), NEW b \in Seq(Stanza),
           Moves(e, s2, a, b),
           Direction(s2, end[Peer(e)], b, a), Direction(end[Peer(e)], s2, a, b)
    PROVE  /\ end' \in [End -> Transport] /\ net' \in [End -> Seq(Stanza)]
           /\ mode' \in {"iq", "message"} /\ DirectionInv'
  <1> DEFINE p == Peer(e)
  <1>1. p \in End /\ p # e /\ Peer(p) = e /\ \A x \in End : x = e \/ x = p
    BY Parties
  <1>2. /\ end' \in [End -> Transport] /\ net' \in [End -> Seq(Stanza)]
        /\ mode' \in {"iq", "message"}
    BY <1>1 DEF Inv, TypeOK, Moves
  <1>3. end'[e] = s2 /\ end'[p] = end[p] /\ net'[e] = a /\ net'[p] = b /\ mode' = mode
    BY <1>1 DEF Inv, TypeOK, Moves
  <1>4. Direction(end[e], end[p], net[p], net[e])'
    BY <1>1, <1>3, SameMode
  <1>5. Direction(end[p], end[e], net[e], net[p])'
    BY <1>1, <1>3, SameMode
  <1> QED
    BY <1>1, <1>2, <1>4, <1>5 DEF DirectionInv

\* No request to open is new.
Opens(q) == \E i \in DOMAIN q : q[i].kind = "open"

LEMMA OpeningParts ==
    ASSUME OpeningInv
    PROVE  /\ opening # "done" => end["opener"] = NoTransport
           /\ \A e \in End : end[e].task = "none" => end[e] = NoTransport
           /\ opening = "no" => end["acceptor"] = NoTransport
           /\ ~Opens(net["opener"])
           /\ Opens(net["acceptor"]) =>
                opening \in {"asked", "failed"} /\ end["acceptor"] = NoTransport
           /\ end["acceptor"].task = "none" => Unasked(net["opener"]) /\ Unreplied(net["acceptor"])
           /\ opening \in {"no", "answered"} => Unasked(net["acceptor"]) /\ Unreplied(net["opener"])
  BY DEF OpeningInv, Opens

LEMMA OpeningWhole ==
    ASSUME NEW o, NEW s, NEW t, NEW q, NEW r,
           opening' = o, end'["opener"] = s, end'["acceptor"] = t,
           net'["opener"] = q, net'["acceptor"] = r,
           o # "done" => s = NoTransport,
           s.task = "none" => s = NoTransport,
           t.task = "none" => t = NoTransport,
           o = "no" => t = NoTransport,
           ~Opens(q),
           Opens(r) => o \in {"asked", "failed"} /\ t = NoTransport,
           t.task = "none" => Unasked(q) /\ Unreplied(r),
           o \in {"no", "answered"} => Unasked(r) /\ Unreplied(q)
    PROVE  OpeningInv'
  <1>1. \A e \in End : end'[e].task = "none" => end'[e] = NoTransport
    BY DEF End
  <1>2. \A i \in DOMAIN net'["opener"] : net'["opener"][i].kind # "open"
    BY DEF Opens
  <1>3. \A i \in DOMAIN net'["acceptor"] : net'["acceptor"][i].kind = "open" =>
            o \in {"asked", "failed"} /\ t = NoTransport
    BY DEF Opens
  <1>4. /\ Unasked(net["opener"])' <=> Unasked(q)
        /\ Unasked(net["acceptor"])' <=> Unasked(r)
        /\ Unreplied(net["opener"])' <=> Unreplied(q)
        /\ Unreplied(net["acceptor"])' <=> Unreplied(r)
    BY DEF Unasked, Unreplied
  <1> QED
    BY <1>1, <1>2, <1>3, <1>4 DEF OpeningInv

\* What a step of one end may do without a say in the opening of the session.
LEMMA MovesKeepOpening ==
    ASSUME Inv, NEW e \in End, NEW s2 \in Transport, NEW a \in Seq(Stanza), NEW b \in Seq(Stanza),
           Moves(e, s2, a, b),
           s2 = end[e] \/ (end[e].task # "none" /\ s2.task # "none"),
           Narrows(net[e], a), Forgets(net[e], a),
           Opens(b) => Opens(net[Peer(e)]),
           Unreplied(net[Peer(e)]) => Unreplied(b) \/ ~Unasked(net[e]),
           Unasked(net[Peer(e)]) => Unasked(b) \/ end[e].task # "none",
           opening' = opening \/ (opening = "asked" /\ opening' = "failed")
    PROVE  OpeningInv'
  <1> DEFINE p == Peer(e)
  <1>1. p \in End /\ p # e /\ end[e] \in Transport /\ net[e] \in Seq(Stanza)
    BY Parties
  <1>2. end'[e] = s2 /\ end'[p] = end[p] /\ net'[e] = a /\ net'[p] = b
    BY <1>1 DEF Inv, TypeOK, Moves
  <1>3. (Unasked(net[e]) => Unasked(a)) /\ (Unreplied(net[e]) => Unreplied(a))
    BY <1>1, StaysQuiet
  <1>4. Opens(a) => Opens(net[e])
    BY DEF Narrows, Opens, IsRequest
  <1>5. \A x \in End : end[x].task = "none" => end[x] = NoTransport
    BY OpeningParts DEF Inv
  <1>6. NoTransport.task = "none" /\ (opening' = "done" => opening = "done")
    BY DEF NoTransport
  <1>7. CASE e = "opener"
    <2>1. p = "acceptor"
      BY <1>7 DEF Peer
    <2>2. opening # "done" => s2 = NoTransport
      BY <1>6, <1>7, OpeningParts DEF Inv
    <2> QED
      BY <1>1, <1>2, <1>3, <1>4, <1>5, <1>6, <1>7, <2>1, <2>2, OpeningParts, OpeningWhole DEF Inv
  <1>8. CASE e = "acceptor"
    <2>1. p = "opener"
      BY <1>8 DEF Peer
    <2>2. opening = "no" => s2 = NoTransport
      BY <1>6, <1>8, OpeningParts DEF Inv
    <2> QED
      BY <1>1, <1>2, <1>3, <1>4, <1>5, <1>6, <1>8, <2>1, <2>2, OpeningParts, OpeningWhole DEF Inv
  <1> QED
    BY <1>7, <1>8 DEF End

LEMMA MovesKeepInv ==
    ASSUME Inv, NEW e \in End, NEW s2 \in Transport, NEW a \in Seq(Stanza), NEW b \in Seq(Stanza),
           Moves(e, s2, a, b),
           Direction(s2, end[Peer(e)], b, a), Direction(end[Peer(e)], s2, a, b),
           s2 = end[e] \/ (end[e].task # "none" /\ s2.task # "none"),
           Narrows(net[e], a), Forgets(net[e], a),
           Opens(b) => Opens(net[Peer(e)]),
           Unreplied(net[Peer(e)]) => Unreplied(b) \/ ~Unasked(net[e]),
           Unasked(net[Peer(e)]) => Unasked(b) \/ end[e].task # "none",
           opening' = opening \/ (opening = "asked" /\ opening' = "failed"),
           expected' \in {expected, "no"}, destroyed' \in 0..MaxDestroyed
    PROVE  Inv'
  <1>1. /\ end' \in [End -> Transport] /\ net' \in [End -> Seq(Stanza)]
        /\ mode' \in {"iq", "message"} /\ DirectionInv'
    BY MovesKeepDirections
  <1>2. OpeningInv'
    BY MovesKeepOpening
  <1>3. TypeOK'
    BY <1>1 DEF Inv, TypeOK
  <1> QED
    BY <1>1, <1>2, <1>3 DEF Inv

\* The end that receives, in the eyes of the one that sends.
LEMMA UntouchedSame ==
    ASSUME NEW s \in Transport, NEW s2 \in Transport, Untouched(s, s2), ~s.paused => s.input = <<>>
    PROVE  ReceiverSame(s, s2)
  BY DEF Untouched, ReceiverSame, Data

LEMMA OpensAdded ==
    ASSUME NEW q \in Seq(Stanza), NEW x \in Seq(Stanza), ~Opens(x)
    PROVE  Opens(q \o x) => Opens(q)
  BY ConcatAt DEF Opens

LEMMA SentOpensNothing ==
    ASSUME mode \in {"iq", "message"}, NEW s \in Transport
    PROVE  ~Opens(Sent(s))
  <1>1. CASE s.task = "sending"
    <2>1. Sent(s) = <<Current(s)>> /\ Current(s).kind = mode
      BY <1>1, SentFields, CurrentStanza
    <2> QED
      BY <2>1 DEF Opens
  <1>2. CASE s.task = "closing"
    <2>1. Sent(s) = <<Simple("close")>> /\ Simple("close").kind = "close"
      BY <1>2, SentFields DEF Simple
    <2> QED
      BY <2>1 DEF Opens
  <1>3. CASE s.task \notin {"sending", "closing"}
    BY <1>3, SentFields DEF Opens
  <1> QED
    BY <1>1, <1>2, <1>3

LEMMA AskedAdded ==
    ASSUME NEW q \in Seq(Stanza), NEW x \in Seq(Stanza)
    PROVE  /\ Unasked(q) /\ Unasked(x) => Unasked(q \o x)
           /\ Unreplied(q) /\ Unreplied(x) => Unreplied(q \o x)
  BY ConcatAt DEF Unasked, Unreplied

\* One end changes, and nothing is sent.
LEMMA OnlyKeepsInv ==
    ASSUME Inv, NEW e \in End, NEW s2 \in Transport, Only(e, s2),
           end[e].task # "none", s2.task # "none",
           Direction(s2, end[Peer(e)], net[Peer(e)], net[e]), ReceiverSame(end[e], s2)
    PROVE  Inv'
  <1> DEFINE p == Peer(e)
             a == net[e]
             b == net[p]
  <1>1. /\ p \in End /\ p # e /\ end[e] \in Transport /\ end[p] \in Transport
        /\ a \in Seq(Stanza) /\ b \in Seq(Stanza) /\ Direction(end[p], end[e], a, b)
    BY Parties
  <1>2. Moves(e, s2, a, b)
    BY <1>1 DEF Only, Moves, Inv, TypeOK
  <1>3. SenderSame(end[p], end[p])
    BY DEF SenderSame
  <1>4. Direction(end[p], s2, a, b)
    BY <1>1, <1>3, DirectionSame
  <1>5. Narrows(a, a) /\ Forgets(a, a)
    BY <1>1, Unchanged
  <1>6. opening' = opening /\ expected' \in {expected, "no"} /\ destroyed' \in 0..MaxDestroyed
    BY DEF Only, Inv, TypeOK
  <1> QED
    BY <1>1, <1>2, <1>4, <1>5, <1>6, MovesKeepInv

\* The write task goes on to its next await.
LEMMA TaskKeepsInv ==
    ASSUME Inv, NEW e \in End, NEW s2 \in Transport, RunTask(e, s2),
           end[e].task # "none", s2.task # "none",
           Direction(s2, end[Peer(e)], net[Peer(e)] \o Sent(s2), net[e]), Untouched(end[e], s2)
    PROVE  Inv'
  <1> DEFINE p == Peer(e)
             a == net[e]
             b == net[p] \o Sent(s2)
  <1>1. /\ p \in End /\ p # e /\ end[e] \in Transport /\ end[p] \in Transport
        /\ a \in Seq(Stanza) /\ net[p] \in Seq(Stanza) /\ Direction(end[p], end[e], a, net[p])
        /\ mode \in {"iq", "message"} /\ (~end[e].paused => end[e].input = <<>>)
    BY Parties
  <1>2. /\ Sent(s2) \in Seq(Stanza) /\ Unreplied(Sent(s2)) /\ ~Opens(Sent(s2))
    <2>1. Sent(s2) \in Seq(Stanza) /\ Unreplied(Sent(s2))
      BY <1>1, SentFields
    <2>2. ~Opens(Sent(s2))
      BY <1>1, SentOpensNothing
    <2> QED
      BY <2>1, <2>2
  <1>3. b \in Seq(Stanza) /\ Forgets(net[p], b) /\ Narrows(a, a) /\ Forgets(a, a)
    BY <1>1, <1>2, RequestsAdded, Unchanged
  <1>4. Opens(b) => Opens(net[p])
    BY <1>1, <1>2, OpensAdded
  <1>5. Unreplied(net[p]) => Unreplied(b)
    BY <1>1, <1>2, AskedAdded
  <1>6. Moves(e, s2, a, b)
    BY <1>1 DEF RunTask, Moves, Inv, TypeOK
  <1>7. SenderSame(end[p], end[p]) /\ ReceiverSame(end[e], s2)
    BY <1>1, UntouchedSame DEF SenderSame
  <1>8. Direction(end[p], end[e], a, b)
    BY <1>1, <1>3, DirectionNarrows
  <1>9. opening' = opening /\ expected' \in {expected, "no"} /\ destroyed' \in 0..MaxDestroyed
    BY DEF RunTask, Inv, TypeOK
  <1> HIDE DEF b
  <1>10. Direction(end[p], s2, a, b)
    BY <1>1, <1>3, <1>7, <1>8, DirectionSame
  <1>11. Direction(s2, end[p], b, a)
    BY DEF b
  <1> QED
    BY <1>1, <1>3, <1>4, <1>5, <1>6, <1>9, <1>10, <1>11, MovesKeepInv

LEMMA WakeStep ==
    ASSUME Inv, NEW e \in End, Wake(e)
    PROVE  Inv'
  <1> DEFINE s == end[e]
             t == end[Peer(e)]
             q == net[Peer(e)]
             r == net[e]
  <1>1. /\ s \in Transport /\ t \in Transport /\ q \in Seq(Stanza) /\ r \in Seq(Stanza)
        /\ Direction(s, t, q, r) /\ mode \in {"iq", "message"}
    BY Parties
  <1>2. s.task = "waiting" /\ RunTask(e, Loop(s))
    BY DEF Wake
  <1> HIDE DEF s, t, q, r
  <1>3. Unasked(q) /\ Unreplied(r)
    BY <1>1, <1>2 DEF Direction, Requests
  <1>4. Idle(s) \in Transport /\ Idle(s).task = "waiting" /\ Decides(s, Idle(s))
    BY <1>1, IdleFields
  <1>5. Direction(Idle(s), t, q, r)
    BY <1>1, <1>2, <1>4, Rests
  <1>6. /\ Loop(s) \in Transport /\ Untouched(s, Loop(s)) /\ Loop(s).task # "none"
        /\ Direction(Loop(s), t, q \o Sent(Loop(s)), r)
    BY <1>1, <1>3, <1>5, LoopRuns
  <1> QED
    BY <1>2, <1>6, TaskKeepsInv DEF s, t, q, r

LEMMA RetryStep ==
    ASSUME Inv, NEW e \in End, Retry(e)
    PROVE  Inv'
  <1> DEFINE s == end[e]
             t == end[Peer(e)]
             q == net[Peer(e)]
             r == net[e]
             y == TakeBlock(s)
  <1>1. /\ s \in Transport /\ t \in Transport /\ q \in Seq(Stanza) /\ r \in Seq(Stanza)
        /\ Direction(s, t, q, r) /\ mode \in {"iq", "message"}
    BY Parties
  <1>2. s.task = "sleeping" /\ RunTask(e, y)
    BY DEF Retry
  <1> HIDE DEF s, t, q, r
  <1>3. Unasked(q) /\ Unreplied(r) /\ mode = "iq" /\ s.sent < s.written
    BY <1>1, <1>2 DEF Direction, Requests, Flow
  <1>4. Idle(s) \in Transport /\ Idle(s).task = "waiting" /\ Decides(s, Idle(s))
    BY <1>1, IdleFields
  <1>5. Direction(Idle(s), t, q, r)
    BY <1>1, <1>2, <1>3, <1>4, Retries
  <1>6. /\ y \in Transport /\ Decides(s, y) /\ Untouched(s, y) /\ y.task = "sending"
        /\ y.cut >= 1 /\ s.sent + y.cut <= s.written
    BY <1>1, <1>3, TakeBlockFields DEF Untouched
  <1> HIDE DEF y
  <1>7. Decides(Idle(s), y) /\ Idle(s).sent + y.cut <= Idle(s).written
    BY <1>4, <1>6 DEF Decides
  <1>8. Direction(y, t, q \o <<Current(y)>>, r)
    BY <1>1, <1>3, <1>4, <1>5, <1>6, <1>7, Sends
  <1>9. Sent(y) = <<Current(y)>>
    BY <1>1, <1>6, SentFields
  <1> QED
    BY <1>2, <1>6, <1>8, <1>9, TaskKeepsInv DEF s, t, q, r

LEMMA MessageSentStep ==
    ASSUME Inv, NEW e \in End, MessageSent(e)
    PROVE  Inv'
  <1> DEFINE s == end[e]
             t == end[Peer(e)]
             q == net[Peer(e)]
             r == net[e]
             y == Loop(Advanced(s))
  <1>1. /\ s \in Transport /\ t \in Transport /\ q \in Seq(Stanza) /\ r \in Seq(Stanza)
        /\ Direction(s, t, q, r) /\ mode \in {"iq", "message"}
    BY Parties
  <1>2. mode = "message" /\ s.task = "sending" /\ RunTask(e, y)
    BY DEF MessageSent, BlockDone, Advanced
  <1> HIDE DEF s, t, q, r
  <1>3. Unasked(q) /\ Unreplied(r)
    BY <1>1, <1>2 DEF Direction, Requests
  <1>4. Direction(Idle(Advanced(s)), t, q, r)
    BY <1>1, <1>2, <1>3, Advances
  <1>5. Advanced(s) \in Transport /\ Untouched(s, Advanced(s))
    BY <1>1, AdvancedFields
  <1>6. /\ y \in Transport /\ Untouched(Advanced(s), y) /\ y.task # "none"
        /\ Direction(y, t, q \o Sent(y), r)
    BY <1>1, <1>3, <1>4, <1>5, LoopRuns
  <1>7. Untouched(s, y)
    BY <1>5, <1>6 DEF Untouched
  <1> QED
    BY <1>2, <1>6, <1>7, TaskKeepsInv DEF s, t, q, r

LEMMA HandleCloseStep ==
    ASSUME Inv, NEW e \in End, HandleClose(e)
    PROVE  Inv'
  <1> DEFINE s == end[e]
             y == [s EXCEPT !.task = "over"]
  <1>1. /\ s \in Transport /\ end[Peer(e)] \in Transport
        /\ net[Peer(e)] \in Seq(Stanza) /\ net[e] \in Seq(Stanza)
        /\ Direction(s, end[Peer(e)], net[Peer(e)], net[e]) /\ (~s.paused => s.input = <<>>)
    BY Parties
  <1>2. s.task = "ended" /\ Only(e, y)
    BY DEF HandleClose, Only, Inv, TypeOK
  <1>3. y \in Transport /\ y.task = "over"
    BY <1>1 DEF Transport, Task
  <1>4. Stops(s, y) /\ Untouched(s, y)
    BY <1>1, <1>2 DEF Stops, Untouched, Transport
  <1> HIDE DEF s, y
  <1>5. Direction(y, end[Peer(e)], net[Peer(e)], net[e]) /\ ReceiverSame(s, y)
    BY <1>1, <1>3, <1>4, SenderStops, UntouchedSame
  <1> QED
    BY <1>2, <1>3, <1>5, OnlyKeepsInv DEF s

\* The application writes or closes: what changes is on its side only.
LEMMA ExtendsKeepsInv ==
    ASSUME Inv, NEW e \in End, NEW s2 \in Transport, Only(e, s2), end[e].task # "none",
           Extends(end[e], s2), Untouched(end[e], s2)
    PROVE  Inv'
  <1>1. /\ end[e] \in Transport /\ end[Peer(e)] \in Transport
        /\ net[Peer(e)] \in Seq(Stanza) /\ net[e] \in Seq(Stanza)
        /\ Direction(end[e], end[Peer(e)], net[Peer(e)], net[e])
        /\ (~end[e].paused => end[e].input = <<>>)
    BY Parties
  <1>2. Direction(s2, end[Peer(e)], net[Peer(e)], net[e]) /\ ReceiverSame(end[e], s2)
    BY <1>1, SenderExtends, UntouchedSame
  <1>3. s2.task # "none"
    BY DEF Extends
  <1> QED
    BY <1>2, <1>3, OnlyKeepsInv

LEMMA WriteStep ==
    ASSUME Inv, NEW e \in End, NEW n \in 1..MaxBytes[e], Write(e, n)
    PROVE  Inv'
  <1> DEFINE s == end[e]
             full == s.full \/ s.written + n - s.sent >= High
             sum == s.written + n
             y == [s EXCEPT !.written = sum, !.canWrite = TRUE, !.full = full]
  <1>1. s \in Transport /\ n \in Nat
    BY Parties, BoundsAssumption
  <1>2. s.task # "none" /\ ~s.closing /\ s.task # "over" /\ Only(e, y)
    BY <1>1 DEF Write, IsClosing, Transport
  <1>3. full \in BOOLEAN /\ sum \in Nat /\ sum >= s.written
    BY SMTT(60), <1>1, Fields DEF Transport
  <1> HIDE DEF full, sum
  <1>4. y \in Transport
    BY <1>1, <1>3 DEF Transport
  <1>5. Extends(s, y) /\ Untouched(s, y)
    BY <1>1, <1>2, <1>3 DEF Extends, Untouched, Transport
  <1> HIDE DEF s, y
  <1> QED
    BY <1>2, <1>4, <1>5, ExtendsKeepsInv DEF s

LEMMA CloseStep ==
    ASSUME Inv, NEW e \in End, Close(e)
    PROVE  Inv'
  <1> DEFINE s == end[e]
             y == [s EXCEPT !.closing = TRUE, !.canWrite = TRUE]
  <1>1. s \in Transport
    BY Parties
  <1>2. s.task # "none" /\ ~s.closing /\ s.task # "over" /\ Only(e, y)
    BY DEF Close, IsClosing
  <1>3. y \in Transport
    BY <1>1 DEF Transport
  <1>4. Extends(s, y) /\ Untouched(s, y)
    BY <1>1, <1>2 DEF Extends, Untouched, Transport
  <1> HIDE DEF s, y
  <1> QED
    BY <1>2, <1>3, <1>4, ExtendsKeepsInv DEF s

\* Ending the task of a session, whatever ends it.
LEMMA CancelFields ==
    ASSUME NEW s \in Transport
    PROVE  /\ Cancel(s) \in Transport /\ Untouched(s, Cancel(s))
           /\ Cancel(s) = s \/ Stops(s, Cancel(s))
  <1>1. CASE Running(s)
    <2> DEFINE err == IF s.task = "closing" /\ s.err # "none" THEN s.err ELSE "cancelled"
               y == [s EXCEPT !.task = "ended", !.cut = 0, !.err = err]
    <2>1. Cancel(s) = y
      BY <1>1 DEF Cancel, Transport
    <2>2. err \in Failure /\ err # "none"
      BY DEF Transport, Failure
    <2> HIDE DEF err
    <2>3. y \in Transport
      BY <2>2 DEF Transport, Task
    <2>4. Stops(s, y) /\ Untouched(s, y)
      BY <1>1, <2>2 DEF Stops, Untouched, Transport, Running, Known
    <2> HIDE DEF y
    <2> QED
      BY <2>1, <2>3, <2>4
  <1>2. CASE ~Running(s)
    BY <1>2 DEF Cancel, Untouched
  <1> QED
    BY <1>1, <1>2

LEMMA StreamLostFields ==
    ASSUME NEW s \in Transport, NEW s2 \in StreamLost(s)
    PROVE  s2 \in Transport /\ Untouched(s, s2) /\ (s2 = s \/ Stops(s, s2))
  <1>1. CASE s2 = Cancel(s)
    BY <1>1, CancelFields
  <1>2. CASE s2 = Broken(s) /\ s.task \in {"sending", "closing"}
    <2> DEFINE err == IF s.err = "none" THEN "connection" ELSE s.err
               y == [s EXCEPT !.task = "ended", !.cut = 0, !.err = err]
    <2>1. s2 = y
      BY <1>2 DEF Broken, Transport
    <2>2. err \in Failure /\ err # "none"
      BY DEF Transport, Failure
    <2> HIDE DEF err
    <2>3. y \in Transport
      BY <2>2 DEF Transport, Task
    <2>4. Stops(s, y) /\ Untouched(s, y)
      BY <1>2, <2>2 DEF Stops, Untouched, Transport
    <2> HIDE DEF y
    <2> QED
      BY <2>1, <2>3, <2>4
  <1>3. CASE s2 = s
    BY <1>3 DEF Untouched
  <1>4. \/ s2 = Cancel(s) \/ s2 = s
        \/ s2 = Broken(s) /\ s.task \in {"sending", "closing"}
    BY DEF StreamLost
  <1> QED
    BY <1>1, <1>2, <1>3, <1>4

\* A direction whose sender stopped, or did not.
LEMMA StopsOrNot ==
    ASSUME NEW s \in Transport, NEW t \in Transport, NEW s2 \in Transport,
           NEW q \in Seq(Stanza), NEW r \in Seq(Stanza),
           Direction(s, t, q, r), s2 = s \/ Stops(s, s2)
    PROVE  /\ Direction(s2, t, q, r)
           /\ s2 = s \/ (s.task # "none" /\ s2.task # "none")
  BY SenderStops DEF Stops

LEMMA AbortSessionStep ==
    ASSUME Inv, NEW e \in End, AbortSession(e)
    PROVE  Inv'
  <1> DEFINE s == end[e]
             y == Cancel(s)
  <1>1. /\ s \in Transport /\ end[Peer(e)] \in Transport
        /\ net[Peer(e)] \in Seq(Stanza) /\ net[e] \in Seq(Stanza)
        /\ Direction(s, end[Peer(e)], net[Peer(e)], net[e]) /\ (~s.paused => s.input = <<>>)
    BY Parties
  <1>2. s.task # "none" /\ Only(e, y)
    BY DEF AbortSession, Running, Known
  <1>3. y \in Transport /\ Untouched(s, y) /\ (y = s \/ Stops(s, y))
    BY <1>1, CancelFields
  <1> HIDE DEF s, y
  <1>4. Direction(y, end[Peer(e)], net[Peer(e)], net[e]) /\ ReceiverSame(s, y) /\ y.task # "none"
    BY <1>1, <1>2, <1>3, StopsOrNot, UntouchedSame
  <1> QED
    BY <1>2, <1>3, <1>4, OnlyKeepsInv DEF s

LEMMA PauseReadingStep ==
    ASSUME Inv, NEW e \in End, PauseReading(e)
    PROVE  Inv'
  <1> DEFINE s == end[e]
             y == [s EXCEPT !.paused = TRUE]
  <1>1. /\ s \in Transport /\ end[Peer(e)] \in Transport
        /\ net[Peer(e)] \in Seq(Stanza) /\ net[e] \in Seq(Stanza)
        /\ Direction(s, end[Peer(e)], net[Peer(e)], net[e]) /\ (~s.paused => s.input = <<>>)
    BY Parties
  <1>2. s.task # "none" /\ Only(e, y)
    BY DEF PauseReading
  <1>3. y \in Transport
    BY <1>1 DEF Transport
  <1>4. SenderSame(s, y) /\ ReceiverSame(s, y)
    BY <1>1 DEF SenderSame, ReceiverSame, Data, Transport
  <1>5. ReceiverSame(end[Peer(e)], end[Peer(e)])
    BY <1>1 DEF ReceiverSame, Direction, Flow
  <1> HIDE DEF s, y
  <1>6. Direction(y, end[Peer(e)], net[Peer(e)], net[e]) /\ y.task # "none"
    BY <1>1, <1>2, <1>3, <1>4, <1>5, DirectionSame DEF SenderSame
  <1> QED
    BY <1>2, <1>3, <1>4, <1>6, OnlyKeepsInv DEF s

LEMMA ResumeReadingStep ==
    ASSUME Inv, NEW e \in End, ResumeReading(e)
    PROVE  Inv'
  <1> DEFINE s == end[e]
             y == [s EXCEPT !.paused = FALSE, !.got = @ \o s.input, !.input = <<>>]
  <1>1. /\ s \in Transport /\ end[Peer(e)] \in Transport
        /\ net[Peer(e)] \in Seq(Stanza) /\ net[e] \in Seq(Stanza)
        /\ Direction(s, end[Peer(e)], net[Peer(e)], net[e]) /\ (~s.paused => s.input = <<>>)
    BY Parties
  <1>2. s.paused /\ Only(e, y)
    BY DEF ResumeReading
  <1>3. s.task # "none"
    <2>1. s.task = "none" => s = NoTransport
      BY OpeningParts DEF Inv
    <2> QED
      BY <1>2, <2>1 DEF NoTransport
  <1>4. s.got \in Seq(Nat) /\ s.input \in Seq(Nat) /\ s.got \o s.input \in Seq(Nat) /\ <<>> \in Seq(Nat)
    BY <1>1, Fields
  <1>5. y \in Transport
    BY <1>1, <1>4 DEF Transport
  <1>6. y.got = s.got \o s.input /\ y.input = <<>> /\ y.seqIn = s.seqIn
    BY <1>1 DEF Transport
  <1>7. SenderSame(s, y)
    BY <1>1 DEF SenderSame, Transport
  <1>8. (s.got \o s.input) \o <<>> = s.got \o s.input
    BY <1>4
  <1> HIDE DEF y
  <1>9. ReceiverSame(s, y)
    BY <1>1, <1>6, <1>8 DEF ReceiverSame, Data
  <1>10. ReceiverSame(end[Peer(e)], end[Peer(e)])
    BY <1>1 DEF ReceiverSame, Direction, Flow
  <1> HIDE DEF s
  <1>11. Direction(y, end[Peer(e)], net[Peer(e)], net[e]) /\ y.task # "none"
    BY <1>1, <1>3, <1>5, <1>7, <1>10, DirectionSame DEF SenderSame
  <1> QED
    BY <1>2, <1>3, <1>5, <1>9, <1>11, OnlyKeepsInv DEF s

\* One end took the first stanza, became s2, and sent out.
LEMMA HandledKeepsInv ==
    ASSUME Inv, NEW e \in End, NEW s2 \in Transport, NEW out \in Seq(Stanza),
           net[e] # <<>>, Handled(e, s2, out), opening' = opening, expected' = expected,
           Direction(s2, end[Peer(e)], net[Peer(e)] \o out, Tail(net[e])),
           Direction(end[Peer(e)], s2, Tail(net[e]), net[Peer(e)] \o out),
           s2 = end[e] \/ (end[e].task # "none" /\ s2.task # "none"),
           ~Opens(out), Unreplied(out) \/ ~Unasked(net[e]),
           Unasked(out) \/ end[e].task # "none"
    PROVE  Inv'
  <1> DEFINE p == Peer(e)
             a == Tail(net[e])
             b == net[p] \o out
  <1>1. /\ p \in End /\ p # e /\ net[e] \in Seq(Stanza) /\ net[p] \in Seq(Stanza)
    BY Parties
  <1>2. a \in Seq(Stanza) /\ Narrows(net[e], a) /\ Forgets(net[e], a)
    BY <1>1, TailLess
  <1>3. b \in Seq(Stanza) /\ (Opens(b) => Opens(net[p]))
    BY <1>1, OpensAdded, ConcatAt
  <1>4. /\ Unreplied(net[p]) => Unreplied(b) \/ ~Unasked(net[e])
        /\ Unasked(net[p]) => Unasked(b) \/ end[e].task # "none"
    BY <1>1, AskedAdded
  <1>5. Moves(e, s2, a, b)
    BY <1>1 DEF Handled, Moves, Inv, TypeOK
  <1>6. expected' \in {expected, "no"} /\ destroyed' \in 0..MaxDestroyed
    BY DEF Handled, Inv, TypeOK
  <1> HIDE DEF a, b
  <1>7. Direction(s2, end[p], b, a) /\ Direction(end[p], s2, a, b)
    BY DEF a, b
  <1> QED
    BY <1>2, <1>3, <1>4, <1>5, <1>6, <1>7, MovesKeepInv

LEMMA Reply ==
    ASSUME NEW kind \in {"ok", "wait", "error"}
    PROVE  /\ Answered(kind) = <<Simple(kind)>> /\ Answered(kind) \in Seq(Stanza)
           /\ Silent(Answered(kind)) /\ ~Opens(Answered(kind)) /\ Unasked(Answered(kind))
  <1>1. /\ Answered(kind) = <<Simple(kind)>> /\ <<Simple(kind)>> \in Seq(Stanza)
        /\ ~IsRequest(Simple(kind)) /\ ~IsData(Simple(kind)) /\ Simple(kind).kind # "open"
    BY SimpleStanza DEF Answered, Simple, IsRequest, IsData
  <1> QED
    BY <1>1 DEF Silent, Opens, Unasked

\* The end that answers a request: its own direction goes on as before.
LEMMA AnswersKeepInv ==
    ASSUME Inv, NEW e \in End, NEW s2 \in Transport, NEW kind \in {"ok", "wait", "error"},
           net[e] # <<>>, IsRequest(Head(net[e])),
           Handled(e, s2, Answered(kind)), opening' = opening, expected' = expected,
           s2 = end[e] \/ (end[e].task # "none" /\ s2.task # "none"),
           Direction(s2, end[Peer(e)], net[Peer(e)], net[e]),
           Direction(end[Peer(e)], s2, Tail(net[e]), net[Peer(e)] \o <<Simple(kind)>>)
    PROVE  Inv'
  <1> DEFINE p == Peer(e)
             out == Answered(kind)
             a == Tail(net[e])
             b == net[p] \o out
  <1>1. /\ p \in End /\ p # e /\ net[e] \in Seq(Stanza) /\ net[p] \in Seq(Stanza)
        /\ end[p] \in Transport
    BY Parties
  <1>2. /\ out = <<Simple(kind)>> /\ out \in Seq(Stanza)
        /\ Silent(out) /\ ~Opens(out) /\ Unasked(out)
    BY Reply
  <1>3. ~Unasked(net[e])
    BY <1>1, TailAt DEF Unasked
  <1> HIDE DEF out
  <1>4. /\ b \in Seq(Stanza) /\ Narrows(net[p], b) /\ a \in Seq(Stanza) /\ Forgets(net[e], a)
    BY <1>1, <1>2, RepliesAdded, TailLess
  <1>5. Direction(s2, end[p], b, a)
    BY <1>1, <1>4, DirectionNarrows
  <1>6. Direction(end[p], s2, a, b)
    BY <1>2
  <1> QED
    BY <1>2, <1>3, <1>5, <1>6, HandledKeepsInv DEF out

LEMMA HandlePeerCloseStep ==
    ASSUME Inv, NEW e \in End, net[e] # <<>>, Head(net[e]).kind = "close", HandlePeerClose(e)
    PROVE  Inv'
  <1> DEFINE p == Peer(e)
             s == end[e]
             t == end[p]
             s2 == Cancel(s)
             kind == IF Known(s) THEN "ok" ELSE "error"
  <1>1. /\ s \in Transport /\ t \in Transport /\ net[e] \in Seq(Stanza) /\ net[p] \in Seq(Stanza)
        /\ Direction(s, t, net[p], net[e]) /\ Direction(t, s, net[e], net[p])
        /\ (~s.paused => s.input = <<>>)
    BY Parties
  <1>2. kind \in {"ok", "wait", "error"} /\ Handled(e, s2, Answered(kind))
        /\ opening' = opening /\ expected' = expected
    BY DEF HandlePeerClose
  <1>3. s2 \in Transport /\ Untouched(s, s2) /\ (s2 = s \/ Stops(s, s2))
    BY <1>1, CancelFields
  <1> HIDE DEF s, t, s2, kind
  <1>4. /\ Direction(s2, t, net[p], net[e]) /\ (s2 = s \/ (s.task # "none" /\ s2.task # "none"))
    BY <1>1, <1>3, StopsOrNot
  <1>5. IsRequest(Head(net[e])) /\ Head(net[e]).kind # "iq"
    BY DEF IsRequest
  <1>6. /\ Tail(net[e]) \in Seq(Stanza) /\ net[p] \o <<Simple(kind)>> \in Seq(Stanza)
    BY <1>1, <1>2, TailLess, SimpleStanza, ConcatAt
  <1>7. Direction(t, s, Tail(net[e]), net[p] \o <<Simple(kind)>>)
    BY <1>1, <1>2, <1>5, RequestAnswered
  <1>8. ReceiverSame(s, s2) /\ SenderSame(t, t)
    BY <1>1, <1>3, UntouchedSame DEF SenderSame
  <1>9. Direction(t, s2, Tail(net[e]), net[p] \o <<Simple(kind)>>)
    BY <1>1, <1>3, <1>6, <1>7, <1>8, DirectionSame
  <1> QED
    BY <1>2, <1>3, <1>4, <1>5, <1>9, AnswersKeepInv DEF s, t

\* The end that accepts a block.
LEMMA AcceptKeeps ==
    ASSUME Inv, NEW e \in End, NEW bytes \in Seq(Nat), Known(end[e])
    PROVE  /\ Accept(end[e], bytes) \in Transport
           /\ end[e].task # "none" /\ Accept(end[e], bytes).task # "none"
           /\ Direction(Accept(end[e], bytes), end[Peer(e)], net[Peer(e)], net[e])
  <1> DEFINE p == Peer(e)
             s == end[e]
             t == end[p]
             s2 == Accept(s, bytes)
  <1>1. /\ s \in Transport /\ t \in Transport /\ net[e] \in Seq(Stanza) /\ net[p] \in Seq(Stanza)
        /\ Direction(s, t, net[p], net[e]) /\ Direction(t, s, net[e], net[p])
        /\ (~s.paused => s.input = <<>>)
    BY Parties
  <1>2. s2 \in Transport /\ SenderSame(s, s2)
    BY <1>1, AcceptFields
  <1>3. s.task # "none" /\ s2.task # "none"
    BY <1>2 DEF Known, SenderSame
  <1>4. ReceiverSame(t, t)
    BY <1>1 DEF ReceiverSame, Direction, Flow
  <1> HIDE DEF s, t, s2
  <1>5. Direction(s2, t, net[p], net[e])
    BY <1>1, <1>2, <1>4, DirectionSame
  <1> QED
    BY <1>2, <1>3, <1>5 DEF s, t, s2

LEMMA HandleDataStep ==
    ASSUME Inv, NEW e \in End, net[e] # <<>>, Head(net[e]).kind = "iq",
           HandleData(e, Head(net[e]))
    PROVE  Inv'
  <1> DEFINE p == Peer(e)
             s == end[e]
             t == end[p]
             m == Head(net[e])
             good == Known(s) /\ m.seq = s.seqIn
  <1>1. /\ s \in Transport /\ t \in Transport /\ net[e] \in Seq(Stanza) /\ net[p] \in Seq(Stanza)
        /\ Direction(s, t, net[p], net[e]) /\ Direction(t, s, net[e], net[p])
    BY Parties
  <1>2. m \in Stanza /\ IsRequest(m) /\ m.bytes \in Seq(Nat)
    BY <1>1, TailAt, Kinds
  <1>3. CASE good
    <2>1. Handled(e, Accept(s, m.bytes), Answered("ok")) /\ opening' = opening /\ expected' = expected
      BY <1>3 DEF HandleData
    <2>2. /\ Accept(s, m.bytes) \in Transport
          /\ s.task # "none" /\ Accept(s, m.bytes).task # "none"
          /\ Direction(Accept(s, m.bytes), t, net[p], net[e])
      BY <1>2, <1>3, AcceptKeeps
    <2>3. Direction(t, Accept(s, m.bytes), Tail(net[e]), net[p] \o <<Simple("ok")>>)
      BY <1>1, TakesIQ
    <2> QED
      BY <1>2, <2>1, <2>2, <2>3, AnswersKeepInv
  <1>4. CASE ~good
    <2>1. Handled(e, s, Answered("error")) /\ opening' = opening /\ expected' = expected
      BY <1>4 DEF HandleData
    <2>2. Direction(t, s, Tail(net[e]), net[p] \o <<Simple("error")>>)
      BY <1>1, <1>2, RequestAnswered
    <2> QED
      BY <1>1, <1>2, <2>1, <2>2, AnswersKeepInv
  <1> QED
    BY <1>3, <1>4

LEMMA HandleMessageStep ==
    ASSUME Inv, NEW e \in End, net[e] # <<>>, Head(net[e]).kind = "message",
           HandleMessage(e, Head(net[e]))
    PROVE  Inv'
  <1> DEFINE p == Peer(e)
             s == end[e]
             t == end[p]
             m == Head(net[e])
             a == Tail(net[e])
             good == Known(s) /\ m.seq = s.seqIn
             s2 == IF good THEN Accept(s, m.bytes) ELSE s
  <1>1. /\ s \in Transport /\ t \in Transport /\ net[e] \in Seq(Stanza) /\ net[p] \in Seq(Stanza)
        /\ Direction(s, t, net[p], net[e]) /\ Direction(t, s, net[e], net[p])
    BY Parties
  <1>2. m \in Stanza /\ m.bytes \in Seq(Nat)
    BY <1>1, TailAt, Kinds
  <1>3. Handled(e, s2, <<>>) /\ opening' = opening /\ expected' = expected
    BY DEF HandleMessage
  <1>4. a \in Seq(Stanza) /\ Narrows(net[e], a) /\ Forgets(net[e], a)
    BY <1>1, TailLess
  <1>5. /\ s2 \in Transport /\ (s2 = s \/ (s.task # "none" /\ s2.task # "none"))
        /\ Direction(s2, t, net[p], net[e]) /\ Direction(t, s2, a, net[p])
    <2>1. CASE good
      <3>1. /\ Accept(s, m.bytes) \in Transport
            /\ s.task # "none" /\ Accept(s, m.bytes).task # "none"
            /\ Direction(Accept(s, m.bytes), t, net[p], net[e])
        BY <1>2, <2>1, AcceptKeeps
      <3>2. Direction(t, Accept(s, m.bytes), a, net[p])
        BY <1>1, <2>1, TakesMessage
      <3> QED
        BY <2>1, <3>1, <3>2
    <2>2. CASE ~good
      <3>1. Direction(t, s, a, net[p])
        BY <1>1, <1>4, Unchanged, DirectionNarrows
      <3> QED
        BY <1>1, <2>2, <3>1
    <2> QED
      BY <2>1, <2>2
  <1> HIDE DEF s2, a
  <1>6. Direction(s2, t, net[p], a)
    BY <1>1, <1>4, <1>5, Unchanged, DirectionNarrows
  <1>7. net[p] \o <<>> = net[p]
    BY <1>1, NothingAdded
  <1>8. <<>> \in Seq(Stanza) /\ ~Opens(<<>>) /\ Unreplied(<<>>) /\ Unasked(<<>>)
    BY DEF Opens, Unreplied, Unasked
  <1> QED
    BY <1>3, <1>5, <1>6, <1>7, <1>8, HandledKeepsInv DEF a

\* A task that got the reply to its request, which leads to s2.
ReplyLeadsTo(s, s2, t, q, r) ==
    /\ s2 \in Transport /\ Untouched(s, s2) /\ s2.task # "none"
    /\ Direction(s2, t, q \o (IF s2 # s THEN Sent(s2) ELSE <<>>), r)

LEMMA BlockTaken ==
    ASSUME mode \in {"iq", "message"}, NEW s \in Transport, NEW t \in Transport,
           NEW q \in Seq(Stanza), NEW r \in Seq(Stanza),
           Direction(s, t, q, r), Unasked(q), Unreplied(r), s.task = "sending",
           mode = "iq" => Amount(t) = s.sent + s.cut
    PROVE  ReplyLeadsTo(s, BlockDone(s), t, q, r)
  <1> DEFINE v == Advanced(s)
             y == Loop(v)
  <1>1. BlockDone(s) = y
    BY DEF BlockDone, Advanced
  <1>2. /\ v \in Transport /\ Untouched(s, v) /\ v.sent = s.sent + s.cut /\ v.written = s.written
    BY AdvancedFields, IdleFields DEF Decides
  <1>3. s.cut >= 1 /\ s.sent + s.cut <= s.written /\ s.sent \in Nat /\ s.cut \in Nat
    BY Fields DEF Direction, Flow
  <1>4. Direction(Idle(v), t, q, r)
    BY Advances
  <1> HIDE DEF v
  <1>5. /\ y \in Transport /\ Untouched(v, y) /\ y.task # "none"
        /\ Direction(y, t, q \o Sent(y), r) /\ y.sent = v.sent
    BY <1>2, <1>3, <1>4, LoopRuns, LoopFields DEF Decides
  <1>6. Untouched(s, y) /\ y # s
    BY <1>2, <1>3, <1>5 DEF Untouched
  <1> HIDE DEF y
  <1> QED
    BY <1>1, <1>5, <1>6 DEF ReplyLeadsTo

LEMMA TaskGivesUp ==
    ASSUME mode \in {"iq", "message"}, NEW s \in Transport, NEW t \in Transport,
           NEW q \in Seq(Stanza), NEW r \in Seq(Stanza), NEW why \in {"timeout", "stanza"},
           Direction(s, t, q, r), Unasked(q), Unreplied(r), s.task = "sending"
    PROVE  ReplyLeadsTo(s, GiveUp(s, why), t, q, r)
  <1> DEFINE y == [s EXCEPT !.task = "closing", !.err = why, !.cut = 0]
  <1>1. GiveUp(s, why) = y
    BY DEF GiveUp
  <1>2. y \in Transport
    BY DEF Transport, Task, Failure
  <1>3. Decides(s, y) /\ Untouched(s, y) /\ y.task = "closing" /\ y.err # "none"
    BY DEF Decides, Untouched, Transport
  <1> HIDE DEF y
  <1>4. Direction(y, t, q \o <<Simple("close")>>, r)
    BY <1>2, <1>3, Closes
  <1>5. Sent(y) = <<Simple("close")>> /\ y # s
    BY <1>2, <1>3, SentFields
  <1> QED
    BY <1>1, <1>2, <1>3, <1>4, <1>5 DEF ReplyLeadsTo

LEMMA TaskSleeps ==
    ASSUME mode = "iq", NEW s \in Transport, NEW t \in Transport,
           NEW q \in Seq(Stanza), NEW r \in Seq(Stanza), s.retries < MaxRetries,
           Direction(s, t, q, r), Unasked(q), Unreplied(r), s.task = "sending",
           Amount(t) = s.sent
    PROVE  ReplyLeadsTo(s, [s EXCEPT !.task = "sleeping", !.retries = @ + 1, !.cut = 0], t, q, r)
  <1> DEFINE y == [s EXCEPT !.task = "sleeping", !.retries = @ + 1, !.cut = 0]
             u == Idle(s)
  <1>1. s.retries + 1 \in 0..MaxRetries
    <2>1. s.retries \in 0..MaxRetries
      BY DEF Transport
    <2> QED
      BY <2>1, RetriesAssumption
  <1>2. y \in Transport
    BY <1>1 DEF Transport, Task
  <1>3. Decides(s, y) /\ Untouched(s, y) /\ y.task = "sleeping"
    BY DEF Decides, Untouched, Transport
  <1>4. u \in Transport /\ u.task = "waiting" /\ Decides(s, u)
    BY IdleFields
  <1> HIDE DEF u
  <1>5. Direction(u, t, q, r)
    BY <1>4, Retries
  <1>6. s.sent < s.written
    BY Fields DEF Direction, Flow
  <1> HIDE DEF y
  <1>7. Decides(u, y) /\ u.sent < u.written
    BY <1>3, <1>4, <1>6 DEF Decides
  <1>8. Direction(y, t, q, r)
    BY <1>2, <1>3, <1>4, <1>5, <1>7, Rests
  <1>9. Sent(y) = <<>> /\ q \o <<>> = q
    BY <1>2, <1>3, SentFields, NothingAdded
  <1> QED
    BY <1>2, <1>3, <1>8, <1>9 DEF ReplyLeadsTo, y

LEMMA TaskEnds ==
    ASSUME mode \in {"iq", "message"}, NEW s \in Transport, NEW t \in Transport,
           NEW q \in Seq(Stanza), NEW r \in Seq(Stanza), NEW err \in Failure,
           err = "none" => s.err = "none",
           Direction(s, t, q, r), s.task = "closing"
    PROVE  ReplyLeadsTo(s, [s EXCEPT !.task = "ended", !.err = err], t, q, r)
  <1> DEFINE y == [s EXCEPT !.task = "ended", !.err = err]
  <1>1. y \in Transport
    BY DEF Transport, Task
  <1>2. Stops(s, y) /\ Untouched(s, y) /\ y.task = "ended"
    BY DEF Stops, Untouched, Transport
  <1> HIDE DEF y
  <1>3. Direction(y, t, q, r)
    BY <1>1, <1>2, SenderStops
  <1>4. Sent(y) = <<>> /\ q \o <<>> = q
    BY <1>1, <1>2, SentFields, NothingAdded
  <1> QED
    BY <1>1, <1>2, <1>3, <1>4 DEF ReplyLeadsTo, y

LEMMA RepliedLeads ==
    ASSUME mode \in {"iq", "message"}, NEW s \in Transport, NEW t \in Transport,
           NEW q \in Seq(Stanza), NEW r \in Seq(Stanza), NEW reply \in {"ok", "wait", "error"},
           Direction(s, t, q, r), r # <<>>, Head(r).kind = reply
    PROVE  \/ ReplyLeadsTo(s, Replied(s, reply), t, q, Tail(r))
           \/ Replied(s, reply) = s
  <1>1. /\ Tail(r) \in Seq(Stanza) /\ 1 \in DOMAIN r /\ r[1] = Head(r)
        /\ \A i \in DOMAIN Tail(r) : i + 1 \in DOMAIN r /\ Tail(r)[i] = r[i + 1] /\ i + 1 # 1
    BY TailAt
  <1>2. IsReply(r[1])
    BY <1>1 DEF IsReply
  <1>3. Direction(s, t, q, Tail(r))
    BY <1>1, TailLess, Unchanged, DirectionNarrows
  <1>4. Unasked(q) /\ s.task \notin {"waiting", "sleeping"} /\ (s.task = "sending" => mode = "iq")
    BY <1>1, <1>2 DEF Direction, Requests, Unreplied
  <1>5. Unreplied(Tail(r))
    <2> SUFFICES ASSUME NEW i \in DOMAIN Tail(r), IsReply(Tail(r)[i]) PROVE FALSE
      BY DEF Unreplied
    <2> QED
      BY <1>1, <1>2 DEF Direction, Requests
  <1>6. CASE s.task = "sending" /\ reply = "ok"
    <2>1. Amount(t) = s.sent + s.cut
      BY <1>1, <1>4, <1>6 DEF Direction, Blocks
    <2>2. Replied(s, reply) = BlockDone(s)
      BY <1>6 DEF Replied
    <2> QED
      BY <1>1, <1>3, <1>4, <1>5, <1>6, <2>1, <2>2, BlockTaken
  <1>7. CASE s.task = "sending" /\ reply = "wait" /\ s.retries < MaxRetries
    <2>1. Amount(t) = s.sent
      BY <1>1, <1>4, <1>7 DEF Direction, Blocks
    <2>2. Replied(s, reply) = [s EXCEPT !.task = "sleeping", !.retries = @ + 1, !.cut = 0]
      BY <1>7 DEF Replied
    <2>3. mode = "iq" /\ s.retries < MaxRetries /\ s.task = "sending"
      BY <1>4, <1>7
    <2>4. ReplyLeadsTo(s, [s EXCEPT !.task = "sleeping", !.retries = @ + 1, !.cut = 0], t, q, Tail(r))
      BY <1>1, <1>3, <1>4, <1>5, <2>1, <2>3, TaskSleeps
    <2> QED
      BY <2>2, <2>4
  <1>8. CASE s.task = "sending" /\ reply = "wait" /\ ~(s.retries < MaxRetries)
    <2>1. Replied(s, reply) = GiveUp(s, "timeout")
      BY <1>8 DEF Replied
    <2> QED
      BY <1>1, <1>3, <1>4, <1>5, <1>8, <2>1, TaskGivesUp
  <1>9. CASE s.task = "sending" /\ reply = "error"
    <2>1. Replied(s, reply) = GiveUp(s, "stanza")
      BY <1>9 DEF Replied
    <2> QED
      BY <1>1, <1>3, <1>4, <1>5, <1>9, <2>1, TaskGivesUp
  <1>10. CASE s.task = "closing"
    <2> DEFINE err == IF reply # "ok" /\ s.err = "none" THEN "stanza" ELSE s.err
    <2>1. Replied(s, reply) = [s EXCEPT !.task = "ended", !.err = err]
      BY <1>10 DEF Replied
    <2>2. err \in Failure /\ (err = "none" => s.err = "none")
      BY DEF Transport, Failure
    <2> HIDE DEF err
    <2>3. ReplyLeadsTo(s, [s EXCEPT !.task = "ended", !.err = err], t, q, Tail(r))
      BY <1>1, <1>3, <1>10, <2>2, TaskEnds
    <2> QED
      BY <2>1, <2>3
  <1>11. CASE s.task \notin {"sending", "closing"}
    BY <1>11 DEF Replied
  <1> QED
    BY <1>6, <1>7, <1>8, <1>9, <1>10, <1>11

LEMMA HandleReplyStep ==
    ASSUME Inv, NEW e \in End, net[e] # <<>>, NEW reply \in {"ok", "wait", "error"},
           Head(net[e]).kind = reply, ~(e = "opener" /\ opening = "asked"),
           HandleReply(e, reply)
    PROVE  Inv'
  <1> DEFINE p == Peer(e)
             s == end[e]
             t == end[p]
             a == Tail(net[e])
             s2 == Replied(s, reply)
             out == IF s2 # s THEN Sent(s2) ELSE <<>>
             b == net[p] \o out
  <1>1. /\ s \in Transport /\ t \in Transport /\ net[e] \in Seq(Stanza) /\ net[p] \in Seq(Stanza)
        /\ Direction(s, t, net[p], net[e]) /\ Direction(t, s, net[e], net[p])
        /\ mode \in {"iq", "message"} /\ (~s.paused => s.input = <<>>)
    BY Parties
  <1>2. Handled(e, s2, out) /\ opening' = opening /\ expected' = expected
    BY DEF HandleReply
  <1>3. a \in Seq(Stanza) /\ Narrows(net[e], a)
    BY <1>1, TailLess
  <1>4. Direction(s, t, net[p], a)
    BY <1>1, TailLess, Unchanged, DirectionNarrows
  <1>5. ReplyLeadsTo(s, s2, t, net[p], a) \/ s2 = s
    BY <1>1, RepliedLeads
  <1>6. /\ s2 \in Transport /\ Untouched(s, s2) /\ (s2 = s \/ s2.task # "none")
        /\ Direction(s2, t, b, a)
    <2>1. CASE s2 = s
      <3>1. b = net[p]
        BY <1>1, <2>1, NothingAdded
      <3> QED
        BY <1>1, <1>4, <2>1, <3>1 DEF Untouched
    <2>2. CASE ReplyLeadsTo(s, s2, t, net[p], a)
      BY <2>2 DEF ReplyLeadsTo
    <2> QED
      BY <1>5, <2>1, <2>2
  <1>7. s.task = "none" => s2 = s
    BY DEF Replied
  <1>8. /\ out \in Seq(Stanza) /\ Unreplied(out) /\ ~Opens(out) /\ (s2 = s => out = <<>>)
    <2>1. CASE s2 = s
      BY <2>1 DEF Unreplied, Opens
    <2>2. CASE s2 # s
      <3>1. Sent(s2) \in Seq(Stanza) /\ Unreplied(Sent(s2))
        BY <1>1, <1>6, SentFields
      <3>2. ~Opens(Sent(s2))
        BY <1>1, <1>6, SentOpensNothing
      <3> QED
        BY <2>2, <3>1, <3>2
    <2> QED
      BY <2>1, <2>2
  <1>9. Unasked(<<>>)
    BY DEF Unasked
  <1> HIDE DEF s2, out, s, t, a
  <1>10. b \in Seq(Stanza) /\ Forgets(net[p], b)
    BY <1>1, <1>8, RequestsAdded
  <1> HIDE DEF b
  <1>11. Direction(t, s, a, b)
    BY <1>1, <1>3, <1>10, DirectionNarrows
  <1>12. ReceiverSame(s, s2) /\ SenderSame(t, t)
    BY <1>1, <1>6, UntouchedSame DEF SenderSame
  <1>13. Direction(t, s2, a, b)
    BY <1>1, <1>3, <1>6, <1>10, <1>11, <1>12, DirectionSame
  <1>14. s2 = s \/ (s.task # "none" /\ s2.task # "none")
    BY <1>6, <1>7
  <1>15. Unasked(out) \/ s.task # "none"
    BY <1>7, <1>8, <1>9
  <1> QED
    BY <1>2, <1>6, <1>8, <1>13, <1>14, <1>15, HandledKeepsInv DEF s, t, a, b

\* The reply to open_session.
LEMMA OpenRepliedStep ==
    ASSUME Inv, net["opener"] # <<>>, NEW reply \in {"ok", "wait", "error"},
           Head(net["opener"]).kind = reply, opening = "asked", HandleReply("opener", reply)
    PROVE  Inv'
  <1> DEFINE s == end["opener"]
             t == end["acceptor"]
             q == net["acceptor"]
             r == net["opener"]
             r2 == Tail(r)
  <1>1. "opener" \in End /\ Peer("opener") = "acceptor" /\ "acceptor" \in End
    BY DEF End, Peer
  <1>2. /\ s \in Transport /\ t \in Transport /\ q \in Seq(Stanza) /\ r \in Seq(Stanza)
        /\ Direction(s, t, q, r) /\ Direction(t, s, r, q)
    BY <1>1, Parties
  <1>3. Handled("opener", s, <<>>) /\ expected' = expected /\ opening' \in {"answered", "failed"}
    BY DEF HandleReply
  <1>4. /\ r2 \in Seq(Stanza) /\ 1 \in DOMAIN r /\ r[1] = Head(r) /\ Narrows(r, r2) /\ Forgets(r, r2)
        /\ \A i \in DOMAIN r2 : i + 1 \in DOMAIN r /\ r2[i] = r[i + 1] /\ i + 1 # 1
    BY <1>2, TailAt, TailLess
  <1>5. IsReply(r[1])
    BY <1>4 DEF IsReply
  <1>6. Unasked(q) /\ Unreplied(r2)
    <2>1. Unasked(q)
      BY <1>2, <1>4, <1>5 DEF Direction, Requests, Unreplied
    <2>2. ASSUME NEW i \in DOMAIN r2, IsReply(r2[i]) PROVE FALSE
      BY <1>2, <1>4, <1>5, <2>2 DEF Direction, Requests
    <2> QED
      BY <2>1, <2>2 DEF Unreplied
  <1>7. q \o <<>> = q
    BY <1>2, NothingAdded
  <1>8. Moves("opener", s, r2, q)
    BY <1>1, <1>3, <1>7 DEF Handled, Moves, Inv, TypeOK
  <1>9. Direction(s, t, q, r2) /\ Direction(t, s, r2, q)
    BY <1>2, <1>4, Unchanged, DirectionNarrows
  <1>10. /\ end' \in [End -> Transport] /\ net' \in [End -> Seq(Stanza)]
         /\ mode' \in {"iq", "message"} /\ DirectionInv'
    BY <1>1, <1>2, <1>4, <1>8, <1>9, MovesKeepDirections
  <1>11. /\ end'["opener"] = s /\ end'["acceptor"] = t
         /\ net'["opener"] = r2 /\ net'["acceptor"] = q
    BY <1>1, <1>8 DEF Moves, Inv, TypeOK
  <1>12. /\ s = NoTransport /\ (t.task = "none" => t = NoTransport)
         /\ ~Opens(r) /\ (t.task = "none" => Unasked(r) /\ Unreplied(q))
    BY <1>1, OpeningParts DEF Inv
  <1>13. ~Opens(r2) /\ ~Opens(q)
    BY <1>4, <1>6, <1>12 DEF Opens, Narrows, IsRequest, Unasked
  <1>14. Unasked(r) => Unasked(r2)
    BY <1>2, <1>4, StaysQuiet
  <1>15. opening' \in {"no", "asked", "answered", "done", "failed"} /\ opening' # "no"
    BY <1>3
  <1> HIDE DEF s, t, q, r, r2
  <1>16. OpeningInv'
    BY <1>3, <1>6, <1>11, <1>12, <1>13, <1>14, <1>15, OpeningWhole
  <1>17. TypeOK'
    BY <1>3, <1>10, <1>15 DEF Inv, TypeOK, Handled
  <1> QED
    BY <1>10, <1>16, <1>17 DEF Inv

LEMMA HandleOpenStep ==
    ASSUME Inv, NEW e \in End, net[e] # <<>>, Head(net[e]).kind = "open", HandleOpen
    PROVE  Inv'
  <1> DEFINE s == end["opener"]
             t == end["acceptor"]
             q == net["acceptor"]
             r == net["opener"]
             q2 == Tail(q)
  <1>1. "opener" \in End /\ Peer("opener") = "acceptor" /\ "acceptor" \in End /\ Peer("acceptor") = "opener"
    BY DEF End, Peer
  <1>2. /\ s \in Transport /\ t \in Transport /\ q \in Seq(Stanza) /\ r \in Seq(Stanza)
        /\ Direction(s, t, q, r) /\ Direction(t, s, r, q) /\ mode \in {"iq", "message"}
    BY <1>1, Parties
  <1>3. e = "acceptor" /\ q # <<>> /\ Head(q).kind = "open" /\ 1 \in DOMAIN q /\ q[1] = Head(q)
    <2>1. e # "opener"
      <3> SUFFICES ASSUME e = "opener" PROVE FALSE
        OBVIOUS
      <3>1. 1 \in DOMAIN r /\ r[1].kind = "open"
        BY <1>2, TailAt
      <3> QED
        BY <3>1, OpeningParts DEF Inv, Opens
    <2> QED
      BY <1>2, <2>1, TailAt DEF End
  <1>4. Opens(q) /\ IsRequest(Head(q))
    BY <1>3 DEF Opens, IsRequest
  <1>5. /\ opening \in {"asked", "failed"} /\ t = NoTransport /\ s = NoTransport /\ ~Opens(r)
        /\ Unasked(r) /\ Unreplied(q)
    BY <1>4, OpeningParts DEF Inv, NoTransport
  <1>6. PICK t2 \in {t, Created}, kind \in {"ok", "wait", "error"} :
            /\ Handled("acceptor", t2, Answered(kind))
            /\ opening' = opening /\ expected' \in {expected, "no"}
    <2>1. CASE expected = "no" /\ SessionLimit = 0
               /\ Handled("acceptor", t, Answered("error")) /\ UNCHANGED <<opening, expected>>
      BY <2>1
    <2>2. CASE expected = "cancelled"
               /\ Handled("acceptor", Created, Answered("error")) /\ UNCHANGED <<opening, expected>>
      BY <2>2
    <2>3. CASE Handled("acceptor", Created, Answered("ok")) /\ expected' = "no" /\ UNCHANGED opening
      BY <2>3
    <2> QED
      BY <2>1, <2>2, <2>3 DEF HandleOpen
  <1> DEFINE out == Answered(kind)
             r2 == r \o out
  <1>7. /\ out = <<Simple(kind)>> /\ out \in Seq(Stanza) /\ Silent(out) /\ ~Opens(out) /\ Unasked(out)
    BY Reply
  <1>8. t2 \in Transport /\ Created.task = "waiting"
    <2>1. 0 \in 0..W - 1 /\ 0 \in 0..MaxRetries /\ <<>> \in Seq(Nat)
      BY SeqAssumption, RetriesAssumption
    <2>2. Created \in Transport /\ Created.task = "waiting"
      BY <2>1 DEF Created, NoTransport, Transport, Task, Failure
    <2> QED
      BY <1>2, <2>2
  <1>9. /\ q2 \in Seq(Stanza) /\ Narrows(q, q2) /\ Forgets(q, q2) /\ Unasked(q2) /\ Unreplied(q2)
    <2>1. q2 \in Seq(Stanza) /\ Narrows(q, q2) /\ Forgets(q, q2)
      BY <1>2, <1>3, TailLess
    <2>2. Unasked(q2)
      BY <1>2, <1>3, <1>4, RequestTaken
    <2> QED
      BY <1>2, <1>5, <2>1, <2>2, StaysQuiet
  <1>10. Direction(s, t, q2, r \o <<Simple(kind)>>)
    BY <1>2, <1>3, <1>4, RequestAnswered
  <1> HIDE DEF out, q2
  <1>11. r2 \in Seq(Stanza) /\ Narrows(r, r2) /\ Unasked(r2) /\ ~Opens(r2)
    BY <1>2, <1>5, <1>7, RepliesAdded, AskedAdded, OpensAdded
  <1>12. Direction(s, t, q2, r2)
    BY <1>7, <1>10
  <1>13. Direction(t, s, r2, q2)
    BY <1>2, <1>9, <1>11, DirectionNarrows
  <1> HIDE DEF r2
  <1>14. Direction(t2, s, r2, q2)
    BY <1>2, <1>5, <1>9, <1>11, <1>13, Born
  <1>15. ReceiverSame(t, t2) /\ SenderSame(s, s)
    <2>1. ReceiverSame(NoTransport, Created) /\ ReceiverSame(NoTransport, NoTransport)
      BY DEF ReceiverSame, NoTransport, Created, Data
    <2> QED
      BY <1>5, <2>1 DEF SenderSame
  <1>16. Direction(s, t2, q2, r2)
    BY <1>2, <1>8, <1>9, <1>11, <1>12, <1>15, DirectionSame
  <1>17. Moves("acceptor", t2, q2, r2)
    BY <1>1, <1>6 DEF Handled, Moves, Inv, TypeOK, out, q2, r2
  <1>18. /\ end' \in [End -> Transport] /\ net' \in [End -> Seq(Stanza)]
         /\ mode' \in {"iq", "message"} /\ DirectionInv'
    BY <1>1, <1>8, <1>9, <1>11, <1>14, <1>16, <1>17, MovesKeepDirections
  <1>19. /\ end'["opener"] = s /\ end'["acceptor"] = t2
         /\ net'["opener"] = r2 /\ net'["acceptor"] = q2
    BY <1>1, <1>17 DEF Moves, Inv, TypeOK
  <1>20. ~Opens(q2)
    BY <1>9 DEF Opens, Unasked, IsRequest
  <1>21. t2.task = "none" => t2 = NoTransport
    BY <1>5, <1>8
  <1> HIDE DEF s, t, q, r
  <1>22. OpeningInv'
    BY <1>5, <1>6, <1>9, <1>11, <1>19, <1>20, <1>21, OpeningWhole
  <1>23. TypeOK'
    BY <1>6, <1>18 DEF Inv, TypeOK, Handled
  <1> QED
    BY <1>18, <1>22, <1>23 DEF Inv

LEMMA DeliverStep ==
    ASSUME Inv, NEW e \in End, Deliver(e)
    PROVE  Inv'
  <1> DEFINE m == Head(net[e])
  <1>1. net[e] # <<>> /\ m \in Stanza
    BY Parties, TailAt DEF Deliver
  <1>2. CASE m.kind = "open"
    <2>1. HandleOpen
      BY <1>2 DEF Deliver
    <2> QED
      BY <1>1, <1>2, <2>1, HandleOpenStep
  <1>3. CASE m.kind = "close"
    <2>1. HandlePeerClose(e)
      BY <1>3 DEF Deliver
    <2> QED
      BY <1>1, <1>3, <2>1, HandlePeerCloseStep
  <1>4. CASE m.kind = "iq"
    <2>1. HandleData(e, m)
      BY <1>4 DEF Deliver
    <2> QED
      BY <1>1, <1>4, <2>1, HandleDataStep
  <1>5. CASE m.kind = "message"
    <2>1. HandleMessage(e, m)
      BY <1>5 DEF Deliver
    <2> QED
      BY <1>1, <1>5, <2>1, HandleMessageStep
  <1>6. CASE m.kind \in {"ok", "wait", "error"}
    <2>1. HandleReply(e, m.kind)
      BY <1>6 DEF Deliver
    <2>2. CASE e = "opener" /\ opening = "asked"
      BY <1>1, <1>6, <2>1, <2>2, OpenRepliedStep
    <2>3. CASE ~(e = "opener" /\ opening = "asked")
      BY <1>1, <1>6, <2>1, <2>3, HandleReplyStep
    <2> QED
      BY <2>2, <2>3
  <1> QED
    BY <1>1, <1>2, <1>3, <1>4, <1>5, <1>6 DEF Stanza

LEMMA BounceStep ==
    ASSUME Inv, NEW e \in End, Bounce(e)
    PROVE  Inv'
  <1> DEFINE p == Peer(e)
             s == end[e]
             t == end[p]
             m == Head(net[e])
             a == Tail(net[e])
  <1>1. /\ s \in Transport /\ t \in Transport /\ net[e] \in Seq(Stanza) /\ net[p] \in Seq(Stanza)
        /\ Direction(s, t, net[p], net[e]) /\ Direction(t, s, net[e], net[p]) /\ p # e
    BY Parties
  <1>2. net[e] # <<>> /\ m \in Stanza
    BY <1>1, TailAt DEF Bounce
  <1>3. CASE IsRequest(m)
    <2>1. PICK kind \in {"wait", "error"} :
              net' = [net EXCEPT ![e] = Tail(@), ![p] = @ \o Answered(kind)]
      BY <1>3 DEF Bounce, IsRequest
    <2>2. Handled(e, s, Answered(kind)) /\ opening' = opening /\ expected' = expected
      <3>1. end' = [end EXCEPT ![e] = s]
        BY DEF Bounce, Inv, TypeOK
      <3> QED
        BY <2>1, <3>1 DEF Handled, Bounce
    <2>3. Direction(t, s, a, net[p] \o <<Simple(kind)>>)
      BY <1>1, <1>2, <1>3, RequestAnswered
    <2> QED
      BY <1>1, <1>2, <1>3, <2>2, <2>3, AnswersKeepInv
  <1>4. CASE m.kind = "message"
    <2>1. net' = [net EXCEPT ![e] = Tail(@), ![p] = @ \o <<>>]
      BY <1>4 DEF Bounce
    <2>2. Handled(e, s, <<>>) /\ opening' = opening /\ expected' = expected
      <3>1. end' = [end EXCEPT ![e] = s]
        BY DEF Bounce, Inv, TypeOK
      <3> QED
        BY <2>1, <3>1 DEF Handled, Bounce
    <2>3. net[p] \o <<>> = net[p]
      BY <1>1, NothingAdded
    <2>4. a \in Seq(Stanza) /\ Narrows(net[e], a) /\ Forgets(net[e], a)
      BY <1>1, <1>2, TailLess
    <2>5. Direction(s, t, net[p], a) /\ Direction(t, s, a, net[p])
      BY <1>1, <2>4, Unchanged, DirectionNarrows
    <2>6. <<>> \in Seq(Stanza) /\ ~Opens(<<>>) /\ Unreplied(<<>>) /\ Unasked(<<>>)
      BY DEF Opens, Unreplied, Unasked
    <2> QED
      BY <1>1, <1>2, <2>2, <2>3, <2>5, <2>6, HandledKeepsInv
  <1>5. CASE m.kind \in {"ok", "wait", "error"}
    BY <1>5 DEF Bounce
  <1> QED
    BY <1>2, <1>3, <1>4, <1>5 DEF Stanza, IsRequest

LEMMA StreamDestroyedStep ==
    ASSUME Inv, NEW e \in End, StreamDestroyed(e)
    PROVE  Inv'
  <1> DEFINE p == Peer(e)
             s == end[e]
             t == end[p]
             out == Unanswered(e)
             b == net[p] \o out
  <1>1. /\ s \in Transport /\ t \in Transport /\ net[e] \in Seq(Stanza) /\ net[p] \in Seq(Stanza)
        /\ Direction(s, t, net[p], net[e]) /\ Direction(t, s, net[e], net[p])
        /\ p # e /\ (~s.paused => s.input = <<>>) /\ p \in End
    BY Parties
  <1>0. PICK s2 \in StreamLost(s) : end' = [end EXCEPT ![e] = s2]
    BY DEF StreamDestroyed
  <1>2. s2 \in Transport /\ Untouched(s, s2) /\ (s2 = s \/ Stops(s, s2))
    BY <1>1, StreamLostFields
  <1>3. /\ <<>> \in Seq(Stanza) /\ Narrows(net[e], <<>>) /\ Forgets(net[e], <<>>)
        /\ Unasked(<<>>)
    BY <1>1, Unchanged DEF Unasked
  <1>4. \/ out = <<>>
        \/ out = <<Simple("error")>> /\ ~Unasked(net[e])
    BY DEF Unanswered, Unasked, IsRequest
  <1>5. /\ out \in Seq(Stanza) /\ Silent(out) /\ ~Opens(out) /\ Unasked(out)
        /\ Unreplied(out) \/ ~Unasked(net[e])
    <2>1. CASE out = <<>>
      BY <2>1 DEF Silent, Opens, Unasked, Unreplied
    <2>2. CASE out = <<Simple("error")>> /\ ~Unasked(net[e])
      BY <2>2, Reply
    <2> QED
      BY <1>4, <2>1, <2>2
  <1>6. Direction(t, s, <<>>, net[p])
    BY <1>1, <1>3, Unchanged, DirectionNarrows
  <1>7. Direction(t, s, <<>>, b)
    <2>1. CASE out = <<>>
      BY <1>1, <1>6, <2>1, NothingAdded
    <2>2. CASE out = <<Simple("error")>> /\ ~Unasked(net[e])
      <3>1. /\ Unreplied(net[p]) /\ t.task \notin {"waiting", "sleeping"}
            /\ t.task = "sending" => mode # "message"
        BY <1>1, <2>2 DEF Direction, Requests
      <3>2. Direction(t, s, <<>>, net[p] \o <<Simple("error")>>)
        BY <1>1, <1>3, <1>6, <3>1, ReplyAdded
      <3> QED
        BY <2>2, <3>2
    <2> QED
      BY <1>4, <2>1, <2>2
  <1>8. /\ end' = [end EXCEPT ![e] = s2] /\ net' = [net EXCEPT ![e] = <<>>, ![p] = b]
        /\ mode' = mode /\ expected' \in {expected, "no"} /\ destroyed' \in 0..MaxDestroyed
        /\ opening' = opening \/ (opening = "asked" /\ opening' = "failed")
    <2>1. end' = [end EXCEPT ![e] = s2] /\ net' = [net EXCEPT ![e] = <<>>, ![p] = b]
      BY <1>0, <1>1 DEF StreamDestroyed, Inv, TypeOK
    <2>2. destroyed' \in 0..MaxDestroyed
      BY BoundsAssumption DEF StreamDestroyed, Inv, TypeOK
    <2> QED
      BY <2>1, <2>2 DEF StreamDestroyed
  <1> HIDE DEF s, t, out
  <1>9. /\ b \in Seq(Stanza) /\ Narrows(net[p], b) /\ (Opens(b) => Opens(net[p]))
        /\ Unreplied(net[p]) => Unreplied(b) \/ ~Unasked(net[e])
        /\ Unasked(net[p]) => Unasked(b)
    BY <1>1, <1>5, RepliesAdded, OpensAdded, AskedAdded
  <1> HIDE DEF b
  <1>10. Direction(s, t, b, <<>>)
    BY <1>1, <1>3, <1>9, DirectionNarrows
  <1>11. Direction(s2, t, b, <<>>) /\ (s2 = s \/ (s.task # "none" /\ s2.task # "none"))
    BY <1>1, <1>2, <1>3, <1>9, <1>10, StopsOrNot
  <1>12. ReceiverSame(s, s2) /\ SenderSame(t, t)
    BY <1>1, <1>2, UntouchedSame DEF SenderSame
  <1>13. Direction(t, s2, <<>>, b)
    BY <1>1, <1>2, <1>3, <1>7, <1>9, <1>12, DirectionSame
  <1>14. Moves(e, s2, <<>>, b)
    BY <1>8 DEF Moves
  <1> QED
    BY <1>2, <1>3, <1>8, <1>9, <1>11, <1>13, <1>14, MovesKeepInv DEF s, t

LEMMA OpenSessionStep ==
    ASSUME Inv, OpenSession
    PROVE  Inv'
  <1> DEFINE s == end["opener"]
             t == end["acceptor"]
             q == net["acceptor"]
             r == net["opener"]
             x == <<Simple("open")>>
             q2 == q \o x
  <1>1. "opener" \in End /\ Peer("opener") = "acceptor" /\ "acceptor" \in End /\ Peer("acceptor") = "opener"
    BY DEF End, Peer
  <1>2. /\ s \in Transport /\ t \in Transport /\ q \in Seq(Stanza) /\ r \in Seq(Stanza)
        /\ Direction(s, t, q, r) /\ Direction(t, s, r, q)
    BY <1>1, Parties
  <1>3. /\ opening = "no" /\ opening' = "asked" /\ UNCHANGED <<end, mode, expected, destroyed>>
        /\ net' = [net EXCEPT !["acceptor"] = q2]
    <2>1. Append(q, Simple("open")) = q2
      BY <1>2
    <2> QED
      BY <2>1 DEF OpenSession
  <1>4. /\ s = NoTransport /\ t = NoTransport /\ NoTransport.task = "none" /\ ~Opens(r)
        /\ Unasked(q) /\ Unreplied(r) /\ Unasked(r) /\ Unreplied(q)
    BY <1>3, OpeningParts DEF Inv, NoTransport
  <1>5. x \in Seq(Stanza) /\ Unreplied(x)
    <2>1. x \in Seq(Stanza) /\ ~IsReply(Simple("open"))
      BY SimpleStanza DEF Simple, IsReply
    <2> QED
      BY <2>1 DEF Unreplied
  <1>6. Direction(s, t, q \o <<Simple("open")>>, r)
    BY <1>2, <1>4, RequestSent
  <1> HIDE DEF x
  <1>7. q2 \in Seq(Stanza) /\ Forgets(q, q2) /\ Unreplied(q2)
    BY <1>2, <1>4, <1>5, RequestsAdded, AskedAdded
  <1>8. Direction(s, t, q2, r)
    BY <1>6 DEF x
  <1> HIDE DEF q2
  <1>9. Direction(t, s, r, q2)
    BY <1>2, <1>7, Unchanged, DirectionNarrows
  <1>10. Moves("acceptor", t, q2, r)
    BY <1>1, <1>3 DEF Moves, Inv, TypeOK
  <1>11. /\ end' \in [End -> Transport] /\ net' \in [End -> Seq(Stanza)]
         /\ mode' \in {"iq", "message"} /\ DirectionInv'
    BY <1>1, <1>2, <1>7, <1>8, <1>9, <1>10, MovesKeepDirections
  <1>12. /\ end'["opener"] = s /\ end'["acceptor"] = t
         /\ net'["opener"] = r /\ net'["acceptor"] = q2
    BY <1>1, <1>10 DEF Moves, Inv, TypeOK
  <1> HIDE DEF s, t, q, r
  <1>13. OpeningInv'
    BY <1>3, <1>4, <1>7, <1>12, OpeningWhole
  <1>14. TypeOK'
    BY <1>3, <1>11 DEF Inv, TypeOK
  <1> QED
    BY <1>11, <1>13, <1>14 DEF Inv

LEMMA OpenReturnsStep ==
    ASSUME Inv, OpenReturns
    PROVE  Inv'
  <1> DEFINE s == end["opener"]
             t == end["acceptor"]
             q == net["acceptor"]
             r == net["opener"]
  <1>1. "opener" \in End /\ Peer("opener") = "acceptor" /\ "acceptor" \in End
    BY DEF End, Peer
  <1>2. /\ s \in Transport /\ t \in Transport /\ q \in Seq(Stanza) /\ r \in Seq(Stanza)
        /\ Direction(s, t, q, r) /\ Direction(t, s, r, q)
    BY <1>1, Parties
  <1>3. /\ opening = "answered" /\ opening' = "done" /\ end' = [end EXCEPT !["opener"] = Created]
        /\ UNCHANGED <<net, mode, expected, destroyed>>
    BY DEF OpenReturns
  <1>4. s = NoTransport /\ Unasked(q) /\ Unreplied(r) /\ ~Opens(r)
    BY <1>3, OpeningParts DEF Inv
  <1>5. Created \in Transport /\ Created.task = "waiting"
    <2>1. 0 \in 0..W - 1 /\ 0 \in 0..MaxRetries /\ <<>> \in Seq(Nat)
      BY SeqAssumption, RetriesAssumption
    <2> QED
      BY <2>1 DEF Created, NoTransport, Transport, Task, Failure
  <1>6. Direction(Created, t, q, r)
    BY <1>2, <1>4, Born
  <1>7. ReceiverSame(s, Created) /\ SenderSame(t, t)
    <2>1. ReceiverSame(NoTransport, Created)
      BY DEF ReceiverSame, NoTransport, Created, Data
    <2> QED
      BY <1>4, <2>1 DEF SenderSame
  <1>8. Direction(t, Created, r, q)
    BY <1>2, <1>5, <1>7, DirectionSame
  <1>9. Moves("opener", Created, r, q)
    BY <1>1, <1>3 DEF Moves, Inv, TypeOK
  <1>10. /\ end' \in [End -> Transport] /\ net' \in [End -> Seq(Stanza)]
         /\ mode' \in {"iq", "message"} /\ DirectionInv'
    BY <1>1, <1>2, <1>5, <1>6, <1>8, <1>9, MovesKeepDirections
  <1>11. /\ end'["opener"] = Created /\ end'["acceptor"] = t
         /\ net'["opener"] = r /\ net'["acceptor"] = q
    BY <1>1, <1>9 DEF Moves, Inv, TypeOK
  <1>12. ~Opens(q)
    BY <1>4 DEF Opens, Unasked, IsRequest
  <1>13. /\ t.task = "none" => t = NoTransport
         /\ t.task = "none" => Unasked(r) /\ Unreplied(q)
    BY <1>1, OpeningParts DEF Inv
  <1> HIDE DEF s, t, q, r
  <1>14. OpeningInv'
    BY <1>3, <1>4, <1>5, <1>11, <1>12, <1>13, OpeningWhole
  <1>15. TypeOK'
    BY <1>3, <1>10 DEF Inv, TypeOK
  <1> QED
    BY <1>10, <1>14, <1>15 DEF Inv

\* Nothing a direction or the opening depends on.
LEMMA OthersSame ==
    ASSUME Inv, UNCHANGED <<end, net, opening, mode, destroyed>>,
           expected' \in {"no", "waiting", "cancelled"}
    PROVE  Inv'
  <1>1. TypeOK'
    BY DEF Inv, TypeOK
  <1>2. ASSUME NEW e \in End PROVE Direction(end[e], end[Peer(e)], net[Peer(e)], net[e])'
    <2>1. Direction(end[e], end[Peer(e)], net[Peer(e)], net[e])
      BY Parties
    <2> QED
      BY <2>1, SameMode
  <1>3. OpeningInv'
    BY OpeningParts, OpeningWhole DEF Inv, End
  <1> QED
    BY <1>1, <1>2, <1>3 DEF Inv, DirectionInv

LEMMA InitInv == Init => Inv
  <1> SUFFICES ASSUME Init PROVE Inv
    OBVIOUS
  <1>1. NoTransport \in Transport /\ <<>> \in Seq(Stanza)
    <2>1. 0 \in 0..W - 1 /\ 0 \in 0..MaxRetries /\ <<>> \in Seq(Nat)
      BY SeqAssumption, RetriesAssumption
    <2>2. NoTransport \in Transport
      BY <2>1 DEF NoTransport, Transport, Task, Failure
    <2> QED
      BY <2>2
  <1>2. TypeOK
    BY <1>1, ModesAssumption, BoundsAssumption DEF Init, TypeOK
  <1>3. \A e \in End : end[e] = NoTransport /\ net[e] = <<>> /\ Peer(e) \in End
    BY DEF Init, End, Peer
  <1>4. Unasked(<<>>) /\ Unreplied(<<>>)
    BY DEF Unasked, Unreplied
  <1>5. Amount(NoTransport) = 0 /\ Data(NoTransport) = <<>> /\ Expected(NoTransport) = 0
    <2>1. Data(NoTransport) = <<>>
      BY DEF Data, NoTransport
    <2>2. Amount(NoTransport) = 0
      BY <2>1 DEF Amount
    <2> QED
      BY <2>1, <2>2, SeqAssumption DEF Expected, Count, NoTransport
  <1>6. Direction(NoTransport, NoTransport, <<>>, <<>>)
    <2>1. Requests(NoTransport, <<>>, <<>>)
      BY <1>4 DEF Requests, NoTransport
    <2>2. Flow(NoTransport, NoTransport)
      <3>1. Upto(0) = <<>>
        BY DEF Upto
      <3> QED
        BY <1>5, <3>1 DEF Flow, NoTransport
    <2>3. Blocks(NoTransport, NoTransport, <<>>, <<>>)
      BY DEF Blocks, NoTransport
    <2>4. Messages(NoTransport, NoTransport, <<>>)
      BY <1>5, SeqAssumption DEF Messages, NoTransport, Count, Alive
    <2> QED
      BY <2>1, <2>2, <2>3, <2>4 DEF Direction
  <1>7. DirectionInv
    BY <1>3, <1>6 DEF DirectionInv
  <1>8. OpeningInv
    BY <1>3, <1>4 DEF OpeningInv, End
  <1> QED
    BY <1>2, <1>7, <1>8 DEF Inv

LEMMA ApplicationStep ==
    ASSUME Inv, NEW e \in End, Application(e)
    PROVE  Inv'
  <1>1. CASE \E n \in 1..MaxBytes[e] : Write(e, n)
    BY <1>1, WriteStep
  <1>2. CASE Close(e)
    BY <1>2, CloseStep
  <1>3. CASE AbortSession(e)
    BY <1>3, AbortSessionStep
  <1>4. CASE PauseReading(e)
    BY <1>4, PauseReadingStep
  <1>5. CASE ResumeReading(e)
    BY <1>5, ResumeReadingStep
  <1> QED
    BY <1>1, <1>2, <1>3, <1>4, <1>5 DEF Application

LEMMA NextStep == Inv /\ Next => Inv'
  <1> SUFFICES ASSUME Inv, Next PROVE Inv'
    OBVIOUS
  <1>1. CASE \E e \in End : Application(e)
    BY <1>1, ApplicationStep
  <1>2. CASE \E e \in End : WriteTask(e)
    BY <1>2, WakeStep, RetryStep, MessageSentStep DEF WriteTask
  <1>3. CASE \E e \in End : HandleClose(e)
    BY <1>3, HandleCloseStep
  <1>4. CASE \E e \in End : Transit(e)
    BY <1>4, DeliverStep, BounceStep DEF Transit
  <1>5. CASE \E e \in End : StreamDestroyed(e)
    BY <1>5, StreamDestroyedStep
  <1>6. CASE OpenSession
    BY <1>6, OpenSessionStep
  <1>7. CASE OpenReturns
    BY <1>7, OpenReturnsStep
  <1>8. CASE Expect \/ CancelExpected \/ OnDone
    BY <1>8, OthersSame DEF Expect, CancelExpected, OnDone
  <1> QED
    BY <1>1, <1>2, <1>3, <1>4, <1>5, <1>6, <1>7, <1>8 DEF Next

-----------------------------------------------------------------------------
(* Theorems *)

\* One request is under way in each direction at a time; the reply a write task
\* awaits tells how much the peer has; and the messages on their way, with the gaps
\* in their numbers, are what the receiver's next number does not mistake.
THEOREM Invariance == Spec => []Inv
  <1>1. Inv /\ [Next]_vars => Inv'
    <2> SUFFICES ASSUME Inv, [Next]_vars PROVE Inv'
      OBVIOUS
    <2>1. CASE UNCHANGED vars
      BY <2>1, OthersSame DEF vars, Inv, TypeOK
    <2>2. CASE Next
      BY <2>2, NextStep
    <2> QED
      BY <2>1, <2>2
  <1> QED
    BY <1>1, InitInv, PTL DEF Spec

\* Every variable keeps its type, for any bounds.
THEOREM TypeCorrect == Spec => []TypeOK
  <1>1. Inv => TypeOK
    BY DEF Inv
  <1> QED
    BY <1>1, Invariance, PTL

LEMMA UptoPrefix ==
    ASSUME NEW n \in Nat, NEW k \in Nat, k <= n
    PROVE  IsPrefix(Upto(k), Upto(n))
  <1>1. Len(Upto(k)) = k /\ Len(Upto(n)) = n
    BY DEF Upto
  <1>2. SubSeq(Upto(k), 1, k) = SubSeq(Upto(n), 1, k)
    BY DEF Upto
  <1> QED
    BY <1>1, <1>2 DEF IsPrefix

\* The peer receives a prefix of what was written, in order and once, whatever is
\* retried, refused or lost (_process_iq, _process_msg).
THEOREM ReceivedInOrderThm == Spec => []ReceivedInOrder
  <1>1. Inv => ReceivedInOrder
    <2> SUFFICES ASSUME Inv, NEW e \in End, mode = "iq" \/ end[e].written <= W
                 PROVE  IsPrefix(Received(Peer(e)), Upto(end[e].written))
      BY DEF ReceivedInOrder
    <2> DEFINE s == end[e]
               t == end[Peer(e)]
    <2>1. s \in Transport /\ t \in Transport /\ Direction(s, t, net[Peer(e)], net[e])
      BY Parties
    <2>2. Received(Peer(e)) = Data(t)
      BY DEF Received, Data
    <2>3. Data(t) = Upto(Amount(t)) /\ Amount(t) <= s.written
      BY <2>1 DEF Direction, Flow, Exact
    <2>4. Amount(t) \in Nat /\ s.written \in Nat
      BY <2>1, Fields
    <2> QED
      BY <2>2, <2>3, <2>4, UptoPrefix
  <1> QED
    BY <1>1, Invariance, PTL

\* A session that ends by its own close and without an exception has delivered all
\* that was written (_write_task_main and what the peer acknowledged).
THEOREM CleanEndDeliversThm == Spec => []CleanEndDelivers
  <1>1. Inv => CleanEndDelivers
    <2> SUFFICES ASSUME Inv, NEW e \in End, mode = "iq", end[e].task = "over", end[e].err = "none"
                 PROVE  Received(Peer(e)) = Upto(end[e].written)
      BY DEF CleanEndDelivers
    <2> DEFINE s == end[e]
               t == end[Peer(e)]
    <2>1. s \in Transport /\ t \in Transport /\ Direction(s, t, net[Peer(e)], net[e])
      BY Parties
    <2>2. Received(Peer(e)) = Data(t)
      BY DEF Received, Data
    <2>3. Data(t) = Upto(Amount(t)) /\ Amount(t) = s.written
      BY <2>1 DEF Direction, Flow, Exact, Blocks
    <2> QED
      BY <2>2, <2>3
  <1> QED
    BY <1>1, Invariance, PTL
=============================================================================
