--------------------------------- MODULE IBB ---------------------------------
(***************************************************************************)
(* XEP-0047 in-band bytestreams (aioxmpp.ibb.service): the IBBTransport of *)
(* a session at both of its ends, the IBBService that opens and accepts    *)
(* it, and the stanzas on their way between the two.                       *)
(*                                                                         *)
(* An action is the code between two suspension points of a write task or  *)
(* of open_session, an IQ handler, the message filter, a done callback, or *)
(* a call of the application. A byte is its position among those its       *)
(* writer wrote. Not modelled: a second request to open the same session.  *)
(***************************************************************************)
EXTENDS Naturals, SequencesExt

CONSTANTS
    Block,         \* block_size
    Low, High,     \* set_write_buffer_limits
    W,             \* 2^16: sequence numbers wrap
    MaxRetries,    \* max_retries
    SessionLimit,  \* session_limit of the acceptor
    Modes,         \* the stanza types used: a subset of {"iq", "message"}
    Pausers,       \* the ends whose protocol pauses reading
    MaxBytes,      \* bound: bytes an end writes, for each end
    MaxDestroyed   \* bound: how often a client loses its stream

End == {"opener", "acceptor"}

Peer(e) == IF e = "opener" THEN "acceptor" ELSE "opener"

ASSUME BlockAssumption == Block \in Nat \ {0}
\* With a low limit of 0 the code never calls resume_writing.
ASSUME LimitsAssumption == High \in Nat /\ Low \in 1..High
ASSUME SeqAssumption == W \in Nat \ {0}
ASSUME RetriesAssumption == MaxRetries \in Nat
ASSUME SessionLimitAssumption == SessionLimit \in Nat
ASSUME ModesAssumption == Modes \subseteq {"iq", "message"}
ASSUME PausersAssumption == Pausers \subseteq End
ASSUME BoundsAssumption == MaxBytes \in [End -> Nat] /\ MaxDestroyed \in Nat

VARIABLES
    end,       \* the transport at each end (see Transport)
    net,       \* the stanzas on their way to each end
    opening,   \* the opener's open_session
    mode,      \* _stanza_type of the session
    expected,  \* the acceptor's entry in _expected_sessions, and its future
    destroyed  \* streams lost so far

vars == <<end, net, opening, mode, expected, destroyed>>

-----------------------------------------------------------------------------
(* Types *)

\* Where a write task is. "none": no transport; "ended": the task is done, its
\* done callback is due; "over": connection_lost was called.
Task == {"none", "waiting", "sending", "sleeping", "closing", "ended", "over"}

\* The exception a write task ends with.
Failure == {"none", "timeout", "stanza", "connection", "cancelled"}

Transport ==
    [task : Task, err : Failure,
     written : Nat, sent : Nat,   \* _write_buffer: the bytes sent + 1 .. written
     cut : Nat,                   \* len(data) of the block being sent
     retries : 0..MaxRetries,
     seqOut : 0..W - 1, seqIn : 0..W - 1,
     canWrite : BOOLEAN, closing : BOOLEAN,
     full : BOOLEAN,              \* the protocol was told to pause writing
     paused : BOOLEAN,            \* _reading_paused
     input : Seq(Nat),            \* _input_buffer
     got : Seq(Nat)]              \* what the protocol received

NoTransport ==
    [task |-> "none", err |-> "none", written |-> 0, sent |-> 0, cut |-> 0, retries |-> 0,
     seqOut |-> 0, seqIn |-> 0, canWrite |-> FALSE, closing |-> FALSE, full |-> FALSE,
     paused |-> FALSE, input |-> <<>>, got |-> <<>>]

Created == [NoTransport EXCEPT !.task = "waiting"]

Stanza == [kind : {"open", "close", "ok", "wait", "error"}]
          \cup [kind : {"iq", "message"}, seq : 0..W - 1, bytes : Seq(Nat)]

TypeOK ==
    /\ end \in [End -> Transport]
    /\ net \in [End -> Seq(Stanza)]
    /\ opening \in {"no", "asked", "answered", "done", "failed"}
    /\ mode \in {"iq", "message"}
    /\ expected \in {"no", "waiting", "cancelled"}
    /\ destroyed \in 0..MaxDestroyed

Init ==
    /\ end = [e \in End |-> NoTransport]
    /\ net = [e \in End |-> <<>>]
    /\ opening = "no" /\ mode \in Modes /\ expected = "no" /\ destroyed = 0

Simple(kind) == [kind |-> kind]

\* In _sessions.
Known(s) == s.task \notin {"none", "over"}

Running(s) == Known(s) /\ s.task # "ended"

-----------------------------------------------------------------------------
(* The write task *)

\* The operators named Mutant... are plausible mistakes in the definition that
\* follows them. No action uses them; each must break one of the properties.

TakeBlock(s) ==
    LET left == s.written - s.sent
    IN  [s EXCEPT !.task = "sending", !.cut = IF left < Block THEN left ELSE Block]

MutantLoop(s) ==   \* tells the protocol only if more is to be sent
    LET left == s.written - s.sent
    IN  CASE left > 0 -> TakeBlock([s EXCEPT !.full = @ /\ left >= Low])
          [] left = 0 /\ s.closing -> [s EXCEPT !.task = "closing"]
          [] OTHER -> [s EXCEPT !.task = "waiting", !.canWrite = FALSE]

\* The loop of _write_task_main, from the end of a turn to its next await.
Loop(s) ==
    LET left == s.written - s.sent
        told == [s EXCEPT !.full = @ /\ left >= Low]
    IN  CASE left > 0 -> TakeBlock(told)
          [] left = 0 /\ s.closing -> [told EXCEPT !.task = "closing", !.cut = 0]
          [] OTHER -> [told EXCEPT !.task = "waiting", !.canWrite = FALSE, !.cut = 0]

MutantBlockDone(s) ==   \* a closing task has no patience with its buffer
    IF s.closing THEN [s EXCEPT !.task = "closing", !.cut = 0]
    ELSE Loop([s EXCEPT !.sent = @ + s.cut, !.seqOut = (@ + 1) % W, !.retries = 0])

\* The block is sent, and as an IQ acknowledged by the peer.
BlockDone(s) ==
    Loop([s EXCEPT !.sent = @ + s.cut, !.seqOut = (@ + 1) % W, !.retries = 0])

\* Whatever error the loop ends with, the peer is told of the end.
GiveUp(s, why) == [s EXCEPT !.task = "closing", !.err = why, !.cut = 0]

\* The reply to the request the write task awaits.
Replied(s, reply) ==
    CASE s.task = "sending" /\ reply = "ok" -> BlockDone(s)
      [] s.task = "sending" /\ reply = "wait" ->
            IF s.retries < MaxRetries
            THEN [s EXCEPT !.task = "sleeping", !.retries = @ + 1, !.cut = 0]
            ELSE GiveUp(s, "timeout")
      [] s.task = "sending" /\ reply = "error" -> GiveUp(s, "stanza")
      [] s.task = "closing" ->
            [s EXCEPT !.task = "ended",
                      !.err = IF reply # "ok" /\ s.err = "none" THEN "stanza" ELSE @]
      [] OTHER -> s

\* The finally clause of a task that is closing raises its own error.
Cancel(s) ==
    IF Running(s)
    THEN [s EXCEPT !.task = "ended", !.cut = 0,
                   !.err = IF s.task = "closing" /\ s.err # "none" THEN @ ELSE "cancelled"]
    ELSE s

\* What the task sent before it reached the await it is at.
Sent(s) ==
    CASE s.task = "sending" ->
            <<[kind |-> mode, seq |-> s.seqOut, bytes |-> [i \in 1..s.cut |-> s.sent + i]]>>
      [] s.task = "closing" -> <<Simple("close")>>
      [] OTHER -> <<>>

\* The task of e runs until s, its next await.
RunTask(e, s) ==
    /\ end' = [end EXCEPT ![e] = s]
    /\ net' = [net EXCEPT ![Peer(e)] = @ \o Sent(s)]
    /\ UNCHANGED <<opening, mode, expected, destroyed>>

Wake(e) ==
    LET s == end[e]
    IN  /\ s.task = "waiting" /\ s.canWrite
        /\ RunTask(e, Loop(s))

Retry(e) == end[e].task = "sleeping" /\ RunTask(e, TakeBlock(end[e]))

\* The token of a message is done: nobody answers it.
MessageSent(e) ==
    mode = "message" /\ end[e].task = "sending" /\ RunTask(e, BlockDone(end[e]))

\* _handle_close: the service forgets the session, the protocol is told.
HandleClose(e) ==
    /\ end[e].task = "ended"
    /\ end' = [end EXCEPT ![e] = [@ EXCEPT !.task = "over"]]
    /\ UNCHANGED <<net, opening, mode, expected, destroyed>>

-----------------------------------------------------------------------------
(* The application *)

Only(e, s) == end' = [end EXCEPT ![e] = s] /\ UNCHANGED <<net, opening, mode, expected, destroyed>>

IsClosing(s) == s.closing \/ s.task = "over"

Write(e, n) ==
    LET s == end[e]
        buffered == s.written + n - s.sent
    IN  /\ s.task # "none" /\ ~IsClosing(s) /\ s.written + n <= MaxBytes[e]
        /\ Only(e, [s EXCEPT !.written = @ + n, !.canWrite = TRUE,
                             !.full = @ \/ buffered >= High])

MutantClose(e) ==   \* does not wake the writer
    LET s == end[e]
    IN  /\ s.task # "none" /\ ~IsClosing(s)
        /\ Only(e, [s EXCEPT !.closing = TRUE])

Close(e) ==
    LET s == end[e]
    IN  /\ s.task # "none" /\ ~IsClosing(s)
        /\ Only(e, [s EXCEPT !.closing = TRUE, !.canWrite = TRUE])

\* Does nothing on a session that is closing, and does not tell the peer.
AbortSession(e) == Running(end[e]) /\ ~IsClosing(end[e]) /\ Only(e, Cancel(end[e]))

PauseReading(e) ==
    /\ e \in Pausers /\ end[e].task # "none" /\ ~end[e].paused
    /\ Only(e, [end[e] EXCEPT !.paused = TRUE])

\* The buffer is handed over even after the session has ended.
ResumeReading(e) ==
    LET s == end[e]
    IN  s.paused /\ Only(e, [s EXCEPT !.paused = FALSE, !.got = @ \o s.input, !.input = <<>>])

OpenSession ==
    /\ opening = "no" /\ opening' = "asked"
    /\ net' = [net EXCEPT !["acceptor"] = Append(@, Simple("open"))]
    /\ UNCHANGED <<end, mode, expected, destroyed>>

\* client.send returns only when the request is acknowledged by the server as
\* well (Stream Management): stanzas may arrive between the reply and this.
OpenReturns ==
    /\ opening = "answered" /\ opening' = "done"
    /\ end' = [end EXCEPT !["opener"] = Created]
    /\ UNCHANGED <<net, mode, expected, destroyed>>

Expect ==
    /\ expected = "no" /\ end["acceptor"].task = "none" /\ expected' = "waiting"
    /\ UNCHANGED <<end, net, opening, mode, destroyed>>

CancelExpected ==
    /\ expected = "waiting" /\ expected' = "cancelled"
    /\ UNCHANGED <<end, net, opening, mode, destroyed>>

\* on_done, an iteration of the event loop later.
OnDone ==
    /\ expected = "cancelled" /\ expected' = "no"
    /\ UNCHANGED <<end, net, opening, mode, destroyed>>

-----------------------------------------------------------------------------
(* Stanzas that arrive *)

\* e has taken the first stanza from its stream, is now s, and sent those given.
Handled(e, s, out) ==
    /\ end' = [end EXCEPT ![e] = s]
    /\ net' = [net EXCEPT ![e] = Tail(@), ![Peer(e)] = @ \o out]
    /\ UNCHANGED <<mode, destroyed>>

Answered(reply) == <<Simple(reply)>>

\* _handle_open_request. If the future was cancelled just now, set_result fails
\* after the session was registered.
HandleOpen ==
    \/ /\ expected = "no" /\ SessionLimit = 0
       /\ Handled("acceptor", end["acceptor"], Answered("error"))
       /\ UNCHANGED <<opening, expected>>
    \/ /\ expected = "cancelled"
       /\ Handled("acceptor", Created, Answered("error"))
       /\ UNCHANGED <<opening, expected>>
    \/ /\ expected = "waiting" \/ (expected = "no" /\ SessionLimit > 0)
       /\ Handled("acceptor", Created, Answered("ok"))
       /\ expected' = "no" /\ UNCHANGED opening

\* _handle_close_request: whatever this end has not sent yet is dropped.
HandlePeerClose(e) ==
    /\ Handled(e, Cancel(end[e]), Answered(IF Known(end[e]) THEN "ok" ELSE "error"))
    /\ UNCHANGED <<opening, expected>>

Accept(s, bytes) ==
    LET next == [s EXCEPT !.seqIn = (@ + 1) % W]
    IN  IF s.paused THEN [next EXCEPT !.input = @ \o bytes]
        ELSE [next EXCEPT !.got = @ \o bytes]

\* _handle_data, _process_iq
HandleData(e, m) ==
    LET s == end[e]
        good == Known(s) /\ m.seq = s.seqIn
    IN  /\ Handled(e, IF good THEN Accept(s, m.bytes) ELSE s, Answered(IF good THEN "ok" ELSE "error"))
        /\ UNCHANGED <<opening, expected>>

MutantHandleMessage(e, m) ==   \* takes the next message for the missing one
    LET s == end[e]
    IN  /\ Handled(e, IF Known(s) THEN Accept(s, m.bytes) ELSE s, <<>>)
        /\ UNCHANGED <<opening, expected>>

\* _handle_message, _process_msg: nobody is told of a message out of sequence.
HandleMessage(e, m) ==
    LET s == end[e]
    IN  /\ Handled(e, IF Known(s) /\ m.seq = s.seqIn THEN Accept(s, m.bytes) ELSE s, <<>>)
        /\ UNCHANGED <<opening, expected>>

\* The reply goes to open_session until that has returned, then to the task.
HandleReply(e, reply) ==
    IF e = "opener" /\ opening = "asked"
    THEN /\ opening' = (IF reply = "ok" THEN "answered" ELSE "failed")
         /\ Handled(e, end[e], <<>>) /\ UNCHANGED expected
    ELSE LET s == Replied(end[e], reply)
         IN  /\ Handled(e, s, IF s # end[e] THEN Sent(s) ELSE <<>>)
             /\ UNCHANGED <<opening, expected>>

Deliver(e) ==
    /\ net[e] # <<>>
    /\ LET m == Head(net[e])
       IN  CASE m.kind = "open" -> HandleOpen
             [] m.kind = "close" -> HandlePeerClose(e)
             [] m.kind = "iq" -> HandleData(e, m)
             [] m.kind = "message" -> HandleMessage(e, m)
             [] OTHER -> HandleReply(e, m.kind)

\* A server answers a request in place of the peer, or drops a message.
Bounce(e) ==
    /\ net[e] # <<>>
    /\ \E reply \in CASE Head(net[e]).kind = "iq" -> {Answered("wait"), Answered("error")}
                      [] Head(net[e]).kind \in {"open", "close"} -> {Answered("error")}
                      [] Head(net[e]).kind = "message" -> {<<>>}
                      [] OTHER -> {} :
          net' = [net EXCEPT ![e] = Tail(@), ![Peer(e)] = @ \o reply]
    /\ UNCHANGED <<end, opening, mode, expected, destroyed>>

-----------------------------------------------------------------------------
(* The stream of an end is lost, and replaced by a new one *)

Broken(s) == [s EXCEPT !.task = "ended", !.cut = 0,
                       !.err = IF s.err = "none" THEN "connection" ELSE @]

\* What may become of a session. One that is closing is not aborted, but fails if it
\* awaits a reply. The token of a message that was sent and not acknowledged is done
\* (SENT_WITHOUT_SM): the task goes on; that of one still queued fails.
StreamLost(s) ==
    CASE ~s.closing -> {Cancel(s)}
      [] s.closing /\ s.task = "sending" /\ mode = "message" -> {s, Broken(s)}
      [] s.closing /\ (s.task = "closing" \/ (s.task = "sending" /\ mode = "iq")) -> {Broken(s)}
      [] OTHER -> {s}

\* The server answers the request that was on its way to e: there is one at most.
Unanswered(e) ==
    IF \E i \in DOMAIN net[e] : net[e][i].kind \in {"open", "close", "iq"}
    THEN <<Simple("error")>> ELSE <<>>

\* _on_stream_destroyed; whoever awaits a reply of the old stream gets an error. An
\* open_session that has its reply returns, with a session the peer may have dropped.
StreamDestroyed(e) ==
    /\ destroyed < MaxDestroyed /\ destroyed' = destroyed + 1
    /\ \E s \in StreamLost(end[e]) : end' = [end EXCEPT ![e] = s]
    /\ net' = [net EXCEPT ![e] = <<>>, ![Peer(e)] = @ \o Unanswered(e)]
    /\ opening' = IF e = "opener" /\ opening = "asked" THEN "failed" ELSE opening
    /\ expected' = IF e = "acceptor" THEN "no" ELSE expected
    /\ UNCHANGED mode

-----------------------------------------------------------------------------
(* Specification *)

Application(e) ==
    \/ \E n \in 1..MaxBytes[e] : Write(e, n)
    \/ Close(e) \/ AbortSession(e) \/ PauseReading(e) \/ ResumeReading(e)

WriteTask(e) == Wake(e) \/ Retry(e) \/ MessageSent(e)

Transit(e) == Deliver(e) \/ Bounce(e)

Next ==
    \/ \E e \in End : Application(e) \/ WriteTask(e) \/ HandleClose(e) \/ Transit(e)
                      \/ StreamDestroyed(e)
    \/ OpenSession \/ OpenReturns \/ Expect \/ CancelExpected \/ OnDone

\* Tasks and callbacks that are ready run; stanzas arrive or are answered.
Fairness ==
    \A e \in End : WF_vars(WriteTask(e)) /\ WF_vars(HandleClose(e)) /\ WF_vars(Transit(e))

Spec == Init /\ [][Next]_vars /\ Fairness

-----------------------------------------------------------------------------
(* Properties *)

\* What the protocol of e received, and will when it resumes reading.
Received(e) == end[e].got \o end[e].input

Upto(n) == [i \in 1..n |-> i]

\* Neither retries nor lost messages make the peer receive anything but a prefix
\* of what was written, in order and once. After the loss of a message that holds
\* only until the sequence numbers wrap.
ReceivedInOrder ==
    \A e \in End : mode = "iq" \/ end[e].written <= W =>
        IsPrefix(Received(Peer(e)), Upto(end[e].written))

\* A protocol whose session ends without an exception, by its own close and not by
\* the peer's, has had everything it wrote delivered.
CleanEndDelivers ==
    \A e \in End : mode = "iq" /\ end[e].task = "over" /\ end[e].err = "none" =>
        Received(Peer(e)) = Upto(end[e].written)

\* close() comes to an end whatever the peer, the servers and the streams do
\* meanwhile, and unless it fails it ends the session of the peer too.
ClosingEnds ==
    \A e \in End : end[e].closing ~>
        end[e].task = "over" /\ (end[e].err = "none" => end[Peer(e)].task = "over")

\* A protocol that was told to pause writing is told to resume, or of the end.
WriterResumes ==
    \A e \in End : end[e].full ~> ~end[e].full \/ end[e].task = "over"
=============================================================================
