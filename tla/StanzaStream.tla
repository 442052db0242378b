---------------------------- MODULE StanzaStream ----------------------------
(***************************************************************************)
(* aioxmpp.stream.StanzaStream: the client's stanza broker with XEP-0198   *)
(* Stream Management.                                                      *)
(*                                                                         *)
(* Everything runs on one asyncio event loop, so an action is the code     *)
(* between two suspension points ("await"), except that the bulk sending   *)
(* loop of _process_outgoing is one action per stanza: the token callbacks *)
(* it makes may re-enter enqueue, abort and stop.                          *)
(*                                                                         *)
(* The connection below (protocol.XMLStream, modelled in XMLStream.tla) is *)
(* reduced to what the broker sees of it; what it reads off the wire is an *)
(* arbitrary peer's choice here, and an XEP-0198 server's in SMSession.    *)
(***************************************************************************)
EXTENDS Integers, Sequences, SequencesExt

CONSTANTS
    Tokens,       \* the stanzas the application may enqueue, one token each
    Inbound,      \* payloads of stanzas received from the peer
    MayDrop,      \* tokens an outbound filter may drop
    MayFail,      \* tokens whose stanza may fail to serialise
    W,            \* modulus of the XEP-0198 counters (2^32 in the code)
    MaxIncoming   \* bound: length of the incoming queue

ASSUME ModulusAssumption == W \in Nat \ {0}
ASSUME FilterAssumption == MayDrop \subseteq Tokens /\ MayFail \subseteq Tokens
ASSUME BoundAssumption == MaxIncoming \in Nat

Counter == 0..(W - 1)

VARIABLES
    state,        \* Tokens -> TokenState: StanzaToken._state ("NEW": no token)
    active,       \* _active_queue
    incoming,     \* _incoming_queue
    afut, ifut,   \* results of _run's active_fut and incoming_fut (<<>>: pending)
    unacked,      \* _sm_unacked_list
    smEnabled, smResumable, outBase, inCtr,       \* _sm_* attributes
    broker,       \* where the broker task _task is
    bdone,        \* the futures _run found done when asyncio.wait returned
    cancel,       \* a _task.cancel() not yet delivered to the task
    raised,       \* how the task terminates or last terminated
    exc,          \* _xmlstream_exception
    established, closed,                          \* _established, _closed
    smop,         \* progress of start_sm, the other user of _broker_lock
    rsop,         \* progress of resume_sm and the counter it was answered with
    closer,       \* progress of close()
    conn,         \* state of the current XMLStream
    connErr,      \* XMLStream._exception is set
    notified,     \* XMLStream.on_closing has fired
    classes,      \* stanza_parser classes registered with recv_stanza
    io            \* what the last step handed on: wire, application, signals

tokenVars  == <<state, active, unacked>>
futVars    == <<afut, ifut, incoming>>
smVars     == <<smEnabled, smResumable, outBase, inCtr>>
taskVars   == <<broker, bdone, cancel, raised>>
streamVars == <<exc, established, closed>>
opVars     == <<smop, rsop, closer>>
connVars   == <<conn, connErr, notified, classes>>
vars == <<tokenVars, futVars, smVars, taskVars, streamVars, opVars, connVars, io>>

-----------------------------------------------------------------------------
(* Types *)

TokenState == {"NEW", "ACTIVE", "SENT", "ACKED", "SENT_WITHOUT_SM", "ABORTED",
               "DROPPED", "DISCONNECTED", "FAILED"}

Stanza(m)  == [k |-> "stanza", m |-> m]
SMRequest  == [k |-> "r"]
SMAck(h)   == [k |-> "a", h |-> h]

\* Elements that recv_stanza puts into the incoming queue.
Element == {Stanza(m) : m \in Inbound} \cup {SMRequest} \cup {SMAck(h) : h \in Counter}

ClassOf(e) == IF e.k = "stanza" THEN "stanza" ELSE "nonza"

NoCounter == -1   \* a <failed/> without the h attribute

\* The broker task: absent or done; created but not yet run; in asyncio.wait;
\* waiting for the lock with bdone; about to send active_fut's token; sending
\* the rest of the queue; about to process an element; waiting for the lock
\* in its finally block.
BrokerState == {"none", "fresh", "wait", "lock", "first", "bulk", "incoming", "final"}

TypeOK ==
    /\ state \in [Tokens -> TokenState]
    /\ active \in Seq(Tokens) /\ unacked \in Seq(Tokens)
    /\ incoming \in Seq(Element)
    /\ afut \in Seq(Tokens) /\ Len(afut) <= 1
    /\ ifut \in Seq(Element) /\ Len(ifut) <= 1
    /\ smEnabled \in BOOLEAN /\ smResumable \in BOOLEAN
    /\ outBase \in Counter /\ inCtr \in Counter
    /\ broker \in BrokerState
    /\ bdone \subseteq {"active", "incoming"}
    /\ cancel \in BOOLEAN
    /\ raised \in {"cancelled", "error"}
    /\ exc \in {"none", "conn", "destruction"}
    /\ established \in BOOLEAN /\ closed \in BOOLEAN
    /\ smop \in {"none", "requested", "replied", "refused"}
    /\ rsop \in [at : {"none", "requested", "resumed", "refused"},
                 h : Counter \cup {NoCounter}]
    /\ closer \in {"none", "xmlstream", "task", "raised"}
    /\ conn \in {"none", "open", "closing", "down"}
    /\ connErr \in BOOLEAN /\ notified \in BOOLEAN
    /\ classes \subseteq {"stanza", "nonza"}

-----------------------------------------------------------------------------
(* Helpers *)

NoResume == [at |-> "none", h |-> NoCounter]

Running == broker # "none"

\* No synchronous section of the broker is executing: the loop may run others.
Yielded == broker \notin {"first", "bulk", "incoming"}

\* The step writes `wire` to the transport, dispatches the stanzas `app` and
\* emits the signals `sig`.
Emit(wire, app, sig) == io' = [wire |-> wire, app |-> app, sig |-> sig]
Silent == Emit(<<>>, <<>>, {})

SetAll(f, S, s) == [t \in Tokens |-> IF t \in S THEN s ELSE f[t]]

\* sm_ack: number of stanzas newly acknowledged by the remote counter h.
ToDrop(h) == (h - outBase) % W

Destroyed == IF established THEN {"on_stream_destroyed"} ELSE {}

Init ==
    /\ state = [t \in Tokens |-> "NEW"]
    /\ active = <<>> /\ unacked = <<>> /\ incoming = <<>>
    /\ afut = <<>> /\ ifut = <<>>
    /\ smEnabled = FALSE /\ smResumable = FALSE /\ outBase = 0 /\ inCtr = 0
    /\ broker = "none" /\ bdone = {} /\ cancel = FALSE /\ raised = "cancelled"
    /\ exc = "none" /\ established = FALSE /\ closed = FALSE
    /\ smop = "none" /\ rsop = NoResume /\ closer = "none"
    /\ conn = "none" /\ connErr = FALSE /\ notified = FALSE /\ classes = {}
    /\ io = [wire |-> <<>>, app |-> <<>>, sig |-> {}]

-----------------------------------------------------------------------------
(* The application's calls. Token callbacks made by the sending loop may     *)
(* call them too, hence the guard "bulk".                                    *)

MayCall == Yielded \/ broker = "bulk"

\* The operators named Mutant... are plausible mistakes in the definition that
\* follows them. No action uses them; each must break one of the properties.

MutantMayEnqueue == MayCall

\* _enqueue raises once close() has completed.
MayEnqueue == MayCall /\ ~closed

\* _enqueue. Replies to IQ requests and to erroneous stanzas, and keepalive
\* pings without SM, enter the same way.
Enqueue(t) ==
    /\ MayEnqueue /\ state[t] = "NEW"
    /\ state' = [state EXCEPT ![t] = "ACTIVE"]
    /\ active' = Append(active, t)
    /\ Silent
    /\ UNCHANGED <<unacked, futVars, smVars, taskVars, streamVars, opVars, connVars>>

\* StanzaToken.abort, also called when a coroutine awaiting the token is cancelled.
Abort(t) ==
    /\ MayCall /\ state[t] = "ACTIVE"
    /\ state' = [state EXCEPT ![t] = "ABORTED"]
    /\ Silent
    /\ UNCHANGED <<active, unacked, futVars, smVars, taskVars, streamVars, opVars, connVars>>

Stop ==
    /\ MayCall /\ Running /\ ~cancel
    /\ cancel' = TRUE
    /\ Silent
    /\ UNCHANGED <<tokenVars, futVars, smVars, broker, bdone, raised, streamVars, opVars, connVars>>

-----------------------------------------------------------------------------
(* The connection. *)

\* No call of start_sm, resume_sm or close by the owner (node.Client) is in progress.
OwnerIdle == smop = "none" /\ rsop = NoResume /\ closer \in {"none", "raised"}

\* The owner has negotiated a new XMLStream, wherever the last one is by then:
\* _start_rollback has disconnected from it. Bound: one it has not been rolled
\* back from (BrokerNeverRuns, FinalCancelled) has ended and told so.
Connect ==
    /\ ~Running /\ OwnerIdle
    /\ "stanza" \in classes => conn = "down" /\ notified
    /\ conn' = "open" /\ connErr' = FALSE /\ notified' = FALSE /\ classes' = {}
    /\ Silent
    /\ UNCHANGED <<tokenVars, futVars, smVars, taskVars, streamVars, opVars>>

\* A new task takes its first step in the next loop iteration, before on_closing
\* of a connection lost in this one could fire: such losses come after it.
Settling == broker = "fresh"

\* Stream error, stream footer, invalid XML, transport error or dead-time hard
\* limit, perhaps on a stream that is closing already.
ConnFails ==
    /\ Yielded /\ ~Settling
    /\ \/ conn = "open" /\ conn' \in {"closing", "down"}
       \/ conn \in {"closing", "down"} /\ ~notified /\ conn' \in {conn, "down"}
    /\ connErr' = TRUE
    /\ Silent
    /\ UNCHANGED <<tokenVars, futVars, smVars, taskVars, streamVars, opVars, notified, classes>>

\* The peer shuts the transport down without a stream footer (eof_received), or
\* the transport is closed without an error.
PeerEof ==
    /\ Yielded /\ ~Settling /\ conn = "open"
    /\ conn' = "down"
    /\ Silent
    /\ UNCHANGED <<tokenVars, futVars, smVars, taskVars, streamVars, opVars,
                   connErr, notified, classes>>

\* A closing stream reaches CLOSING_STREAM_FOOTER_RECEIVED or CLOSED.
ConnGone ==
    /\ Yielded /\ conn = "closing"
    /\ conn' = "down"
    /\ Silent
    /\ UNCHANGED <<tokenVars, futVars, smVars, taskVars, streamVars, opVars,
                   connErr, notified, classes>>

\* on_closing fires, a few loop iterations after the stream left OPEN and after
\* the negotiation answers it had delivered by then have been acted on;
\* _xmlstream_failed records the reason and stops the broker.
OnClosing ==
    /\ Yielded /\ conn \in {"closing", "down"} /\ ~notified
    /\ smop \in {"none", "requested"} /\ rsop.at \in {"none", "requested"}
    /\ notified' = TRUE
    /\ IF "stanza" \in classes
       THEN /\ exc' = IF connErr THEN "conn" ELSE "none"
            /\ cancel' = Running
       ELSE UNCHANGED <<exc, cancel>>
    /\ Silent
    /\ UNCHANGED <<tokenVars, futVars, smVars, broker, bdone, raised,
                   established, closed, opVars, conn, connErr, classes>>

\* recv_stanza and recv_erroneous_stanza.
Recv(e) ==
    /\ Yielded /\ conn \in {"open", "closing"}
    /\ ClassOf(e) \in classes /\ Len(incoming) < MaxIncoming
    /\ incoming' = Append(incoming, e)
    /\ Silent
    /\ UNCHANGED <<tokenVars, afut, ifut, smVars, taskVars, streamVars, opVars, connVars>>

\* An element without a registered class kills an open stream and is ignored
\* by a closing one.
RecvUnknown(e) ==
    /\ Yielded /\ ~Settling /\ conn \in {"open", "closing"} /\ ClassOf(e) \notin classes
    /\ conn' = "closing"
    /\ connErr' = (connErr \/ conn = "open")
    /\ Silent
    /\ UNCHANGED <<tokenVars, futVars, smVars, taskVars, streamVars, opVars, notified, classes>>

\* _xmlstream_soft_limit_tripped with SM; without SM it enqueues a ping (Enqueue).
SoftLimitTripped ==
    /\ Yielded /\ conn = "open" /\ "stanza" \in classes /\ smEnabled
    /\ Emit(<<SMRequest>>, <<>>, {})
    /\ UNCHANGED <<tokenVars, futVars, smVars, taskVars, streamVars, opVars, connVars>>

-----------------------------------------------------------------------------
(* Starting, and the end of the broker task. *)

\* _start_commit: the broker task is created; it first runs in a later iteration.
Commit ==
    /\ broker' = "fresh" /\ bdone' = {} /\ cancel' = FALSE /\ raised' = "cancelled"
    /\ established' = TRUE
    /\ Emit(<<>>, <<>>, IF established THEN {} ELSE {"on_stream_established"})

Start ==
    /\ Yielded /\ ~Running /\ OwnerIdle
    /\ conn # "none" /\ ~notified /\ "stanza" \notin classes
    /\ classes' = classes \cup {"stanza"} \cup (IF smEnabled THEN {"nonza"} ELSE {})
    /\ exc' = "none" /\ closed' = FALSE /\ closer' = "none"
    /\ Commit
    /\ UNCHANGED <<tokenVars, futVars, smVars, smop, rsop, conn, connErr, notified>>

\* _stop_sm: the attributes of the session are reset.
SMOff == smEnabled' = FALSE /\ smResumable' = FALSE /\ outBase' = 0 /\ inCtr' = 0 /\ unacked' = <<>>

\* The verdict on queued and on unacked tokens when the session ends.
Abandoned(q) ==
    SetAll(SetAll(state, ToSet(q), "DISCONNECTED"), ToSet(unacked), "SENT_WITHOUT_SM")

MutantDestroyState(q) == state' = Abandoned(q) /\ active' = q /\ SMOff /\ established' = FALSE

\* _destroy_stream_state on the queue q, then _stop_sm if SM is enabled.
DestroyState(q) == state' = Abandoned(q) /\ active' = <<>> /\ SMOff /\ established' = FALSE

\* The locked part of _run's finally block, then _done_handler.
Cleanup(q, why) ==
    LET keep    == smEnabled /\ smResumable
        outcome == IF exc # "none" THEN "error" ELSE why
    IN  /\ IF keep THEN active' = q /\ UNCHANGED <<state, unacked, smVars, established>>
                   ELSE DestroyState(q)
        /\ classes' = classes \ (IF keep THEN {"stanza", "nonza"} ELSE {"stanza"})
        /\ broker' = "none" /\ cancel' = FALSE /\ raised' = outcome
        /\ conn' = IF outcome = "error" /\ conn = "open" THEN "closing" ELSE conn
        /\ Emit(<<>>, <<>>, (IF keep THEN {} ELSE Destroyed)
                            \cup (IF outcome = "error" THEN {"on_failure"} ELSE {}))

\* _broker_lock is not held by start_sm.
LockFree == smop = "none"

\* The token active_fut has fetched goes back to the head of the queue.
MutantRescued == active
Rescued == afut \o active

\* _drain_incoming
MutantDrain == UNCHANGED incoming
Drain == incoming' = <<>>

\* _run leaves its loop: rescue the fetched token, drain the incoming queue,
\* and clean up as soon as the lock is free.
Terminate(why) ==
    /\ afut' = <<>> /\ ifut' = <<>> /\ Drain /\ bdone' = {}
    /\ IF LockFree
       THEN Cleanup(Rescued, why)
       ELSE /\ active' = Rescued
            /\ broker' = "final" /\ cancel' = FALSE /\ raised' = why
            /\ Silent
            /\ UNCHANGED <<state, unacked, smVars, established, conn, classes>>
    /\ UNCHANGED <<exc, closed, opVars, connErr, notified>>

\* A task cancelled before its first step never enters _run.
BrokerNeverRuns ==
    /\ broker = "fresh" /\ cancel
    /\ broker' = "none" /\ cancel' = FALSE /\ raised' = "cancelled"
    /\ Silent
    /\ UNCHANGED <<tokenVars, futVars, smVars, bdone, streamVars, opVars, connVars>>

BrokerCancelled ==
    /\ broker \in {"wait", "lock"} /\ cancel
    /\ Terminate("cancelled")

FinalLocked ==
    /\ broker = "final" /\ ~cancel /\ LockFree
    /\ Cleanup(active, raised)
    /\ UNCHANGED <<futVars, bdone, exc, closed, opVars, connErr, notified>>

\* A second cancellation, delivered while the finally block waits for the lock.
FinalCancelled ==
    /\ broker = "final" /\ cancel
    /\ broker' = "none" /\ cancel' = FALSE /\ raised' = "cancelled"
    /\ Silent
    /\ UNCHANGED <<tokenVars, futVars, smVars, bdone, streamVars, opVars, connVars>>

-----------------------------------------------------------------------------
(* The broker loop. *)

BrokerStart ==
    /\ broker = "fresh" /\ ~cancel
    /\ broker' = "wait"
    /\ Silent
    /\ UNCHANGED <<tokenVars, futVars, smVars, bdone, cancel, raised, streamVars, opVars, connVars>>

\* AsyncDeque.get of active_fut and incoming_fut, each a task of its own.
GetActive ==
    /\ broker \in {"wait", "lock"} /\ afut = <<>> /\ active # <<>>
    /\ afut' = <<Head(active)>> /\ active' = Tail(active)
    /\ Silent
    /\ UNCHANGED <<state, unacked, ifut, incoming, smVars, taskVars, streamVars, opVars, connVars>>

GetIncoming ==
    /\ broker \in {"wait", "lock"} /\ ifut = <<>> /\ incoming # <<>>
    /\ ifut' = <<Head(incoming)>> /\ incoming' = Tail(incoming)
    /\ Silent
    /\ UNCHANGED <<tokenVars, afut, smVars, taskVars, streamVars, opVars, connVars>>

\* What the broker does once it holds the lock, d being the futures found done.
Serve(d) == broker' = IF "active" \in d THEN "first" ELSE "incoming"

MutantFuturesDone == IF ifut # <<>> THEN {"incoming"} ELSE {}

FuturesDone == (IF afut # <<>> THEN {"active"} ELSE {})
                   \cup (IF ifut # <<>> THEN {"incoming"} ELSE {})

\* asyncio.wait returns the futures done by the time the task resumes.
BrokerWake ==
    /\ broker = "wait" /\ ~cancel /\ FuturesDone # {}
    /\ bdone' = FuturesDone
    /\ IF LockFree THEN Serve(bdone') ELSE broker' = "lock"
    /\ Silent
    /\ UNCHANGED <<tokenVars, futVars, smVars, cancel, raised, streamVars, opVars, connVars>>

BrokerLocks ==
    /\ broker = "lock" /\ ~cancel /\ LockFree
    /\ Serve(bdone)
    /\ Silent
    /\ UNCHANGED <<tokenVars, futVars, smVars, bdone, cancel, raised, streamVars, opVars, connVars>>

\* The check _send_stanza starts with.
MutantAborted(t) == FALSE
Aborted(t) == state[t] = "ABORTED"

\* _send_stanza
SendStanza(t) ==
    \/ /\ Aborted(t)
       /\ Silent /\ UNCHANGED <<state, unacked>>
    \/ /\ ~Aborted(t) /\ t \in MayDrop
       /\ state' = [state EXCEPT ![t] = "DROPPED"]
       /\ Silent /\ UNCHANGED unacked
    \/ /\ ~Aborted(t) /\ (conn # "open" \/ t \in MayFail)
       /\ state' = [state EXCEPT ![t] = "FAILED"]
       /\ Silent /\ UNCHANGED unacked
    \/ /\ ~Aborted(t) /\ conn = "open"
       /\ state' = [state EXCEPT ![t] = IF smEnabled THEN "SENT" ELSE "SENT_WITHOUT_SM"]
       /\ unacked' = IF smEnabled THEN Append(unacked, t) ELSE unacked
       /\ Emit(<<Stanza(t)>>, <<>>, {})

SendFirst ==
    /\ broker = "first"
    /\ SendStanza(Head(afut))
    /\ broker' = "bulk"
    /\ UNCHANGED <<active, futVars, smVars, bdone, cancel, raised, streamVars, opVars, connVars>>

SendNext ==
    /\ broker = "bulk" /\ active # <<>>
    /\ SendStanza(Head(active))
    /\ active' = Tail(active)
    /\ UNCHANGED <<futVars, smVars, taskVars, streamVars, opVars, connVars>>

\* What _process_outgoing writes after the last stanza of a batch.
MutantAfterBatch == <<>>
AfterBatch == IF smEnabled THEN <<SMRequest>> ELSE <<>>

\* The queue is empty: request an ack, create a new active_fut and move on.
BatchDone ==
    /\ broker = "bulk" /\ active = <<>> /\ (smEnabled => conn = "open")
    /\ Emit(AfterBatch, <<>>, {})
    /\ afut' = <<>>
    /\ broker' = IF "incoming" \in bdone THEN "incoming" ELSE "wait"
    /\ bdone' = bdone \ {"active"}
    /\ UNCHANGED <<tokenVars, ifut, incoming, smVars, cancel, raised, streamVars, opVars, connVars>>

\* send_xso(SMRequest()) raises: active_fut still is the old, done future.
BatchRaises ==
    /\ broker = "bulk" /\ active = <<>> /\ smEnabled /\ conn # "open"
    /\ Terminate("error")

IncomingDone ==
    /\ ifut' = <<>> /\ broker' = "wait" /\ bdone' = {}
    /\ UNCHANGED <<afut, incoming, cancel, raised, streamVars, opVars, connVars>>

\* A stanza, well-formed or not: counted, then dispatched.
ProcessStanza ==
    /\ broker = "incoming" /\ Head(ifut).k = "stanza"
    /\ inCtr' = IF smEnabled THEN (inCtr + 1) % W ELSE inCtr
    /\ Emit(<<>>, <<Head(ifut).m>>, {})
    /\ IncomingDone
    /\ UNCHANGED <<tokenVars, smEnabled, smResumable, outBase>>

MutantAckUpTo(h) ==   \* the counter of the last ack is not recorded
    UNCHANGED outBase /\ state' = SetAll(state, {unacked[i] : i \in 1..ToDrop(h)}, "ACKED")

\* sm_ack with an acceptable counter.
AckUpTo(h) ==
    /\ outBase' = h
    /\ state' = SetAll(state, {unacked[i] : i \in 1..ToDrop(h)}, "ACKED")

ProcessAck ==
    /\ broker = "incoming" /\ Head(ifut).k = "a"
    /\ IF smEnabled
       THEN LET h == Head(ifut).h
            IN  /\ ToDrop(h) <= Len(unacked)
                /\ AckUpTo(h)
                /\ unacked' = SubSeq(unacked, ToDrop(h) + 1, Len(unacked))
       ELSE UNCHANGED <<state, unacked, outBase>>
    /\ Silent
    /\ IncomingDone
    /\ UNCHANGED <<active, smEnabled, smResumable, inCtr>>

MutantProcessRequest ==   \* counts every element, not just stanzas
    /\ broker = "incoming" /\ Head(ifut).k = "r"
    /\ smEnabled => conn = "open"
    /\ inCtr' = (inCtr + 1) % W
    /\ Emit(IF smEnabled THEN <<SMAck(inCtr)>> ELSE <<>>, <<>>, {})
    /\ IncomingDone
    /\ UNCHANGED <<tokenVars, smEnabled, smResumable, outBase>>

ProcessRequest ==
    /\ broker = "incoming" /\ Head(ifut).k = "r"
    /\ smEnabled => conn = "open"
    /\ Emit(IF smEnabled THEN <<SMAck(inCtr)>> ELSE <<>>, <<>>, {})
    /\ IncomingDone
    /\ UNCHANGED <<tokenVars, smVars>>

\* The peer acked more than was sent, or the answer to a request cannot be sent.
ProcessRaises ==
    /\ broker = "incoming" /\ smEnabled
    /\ \/ Head(ifut).k = "a" /\ ToDrop(Head(ifut).h) > Len(unacked)
       \/ Head(ifut).k = "r" /\ conn # "open"
    /\ Terminate("error")

-----------------------------------------------------------------------------
(* start_sm holds the broker lock from the request to the wake-up after the  *)
(* answer; the answer itself is handled synchronously by handle_response.    *)

StartSM ==
    /\ broker = "wait" /\ OwnerIdle   \* the lock is fair: a waiting broker goes first
    /\ ~smEnabled /\ conn = "open"
    /\ smop' = "requested"
    /\ Emit(<<[k |-> "enable"]>>, <<>>, {})
    /\ UNCHANGED <<tokenVars, futVars, smVars, taskVars, streamVars, rsop, closer, connVars>>

RecvEnabled(resumable) ==
    /\ smop = "requested" /\ conn = "open"
    /\ smop' = "replied"
    /\ outBase' = 0 /\ inCtr' = 0 /\ unacked' = <<>>
    /\ smEnabled' = TRUE /\ smResumable' = resumable
    /\ classes' = classes \cup {"nonza"}
    /\ Silent
    /\ UNCHANGED <<state, active, futVars, taskVars, streamVars, rsop, closer,
                   conn, connErr, notified>>

RecvSMFailed ==
    /\ smop = "requested" /\ conn = "open"
    /\ smop' = "refused"
    /\ Silent
    /\ UNCHANGED <<tokenVars, futVars, smVars, taskVars, streamVars, rsop, closer, connVars>>

\* start_sm resumes and releases the lock: it was answered, the stream's error
\* future failed, or its caller was cancelled.
ReleaseLock ==
    /\ Yielded /\ smop # "none"
    /\ smop' = "none"
    /\ Silent
    /\ UNCHANGED <<tokenVars, futVars, smVars, taskVars, streamVars, rsop, closer, connVars>>

StartSMAnswered  == smop \in {"replied", "refused"} /\ ReleaseLock
MutantStartSMDies == FALSE /\ ReleaseLock   \* awaits the answer only
StartSMDies      == smop = "requested" /\ notified /\ ReleaseLock
StartSMCancelled == smop = "requested" /\ ReleaseLock

\* stop_sm, called by the owner while the stream is not running.
StopSM ==
    /\ ~Running /\ OwnerIdle /\ smEnabled
    /\ DestroyState(active)
    /\ Emit(<<>>, <<>>, Destroyed)
    /\ UNCHANGED <<futVars, taskVars, exc, closed, opVars, connVars>>

-----------------------------------------------------------------------------
(* resume_sm: _start_prepare and the request; the answer; acting on it. *)

ResumeSM ==
    /\ ~Running /\ OwnerIdle /\ smEnabled
    /\ conn = "open" /\ ~notified /\ "stanza" \notin classes
    /\ classes' = classes \cup {"stanza", "nonza"}
    /\ exc' = "none"
    /\ rsop' = [at |-> "requested", h |-> NoCounter]
    /\ Emit(<<[k |-> "resume", h |-> inCtr]>>, <<>>, {})
    /\ UNCHANGED <<tokenVars, futVars, smVars, taskVars, established, closed,
                   smop, closer, conn, connErr, notified>>

RecvResumed(h) ==
    /\ rsop.at = "requested" /\ conn = "open"
    /\ rsop' = [at |-> "resumed", h |-> h]
    /\ Silent
    /\ UNCHANGED <<tokenVars, futVars, smVars, taskVars, streamVars, smop, closer, connVars>>

RecvResumeFailed(h) ==
    /\ rsop.at = "requested" /\ conn = "open"
    /\ rsop' = [at |-> "refused", h |-> h]
    /\ Silent
    /\ UNCHANGED <<tokenVars, futVars, smVars, taskVars, streamVars, smop, closer, connVars>>

ResumeOver == rsop' = NoResume /\ UNCHANGED <<smop, closer, futVars, notified, connErr, closed>>

MutantRetransmit(rest)     == active' = Reverse(rest) \o active /\ UNCHANGED unacked
MutantRetransmitNone(rest) == UNCHANGED active /\ unacked' = <<>>
MutantRetransmitAll(rest)  == active' = Reverse(unacked) \o active /\ unacked' = <<>>

\* What the peer has not handled is put to the left of the queue one by one.
Retransmit(rest) == active' = Reverse(rest) \o active /\ unacked' = <<>>

\* _resume_sm: drop what is acked, retransmit the rest, start the broker.
Resumed ==
    /\ rsop.at = "resumed" /\ ToDrop(rsop.h) <= Len(unacked)
    /\ AckUpTo(rsop.h)
    /\ Retransmit(SubSeq(unacked, ToDrop(rsop.h) + 1, Len(unacked)))
    /\ Commit
    /\ ResumeOver
    /\ UNCHANGED <<smEnabled, smResumable, inCtr, exc, conn, classes>>

\* The peer's counter covers more than was sent: _start_rollback, SM stays enabled.
ResumeRaises ==
    /\ rsop.at \in {"resumed", "refused"} /\ rsop.h # NoCounter
    /\ ToDrop(rsop.h) > Len(unacked)
    /\ classes' = classes \ {"stanza", "nonza"}
    /\ Silent /\ ResumeOver
    /\ UNCHANGED <<tokenVars, smVars, taskVars, exc, established, conn>>

\* SMFailed: what its counter covers is ACKED, and the rest DISCONNECTED if
\* there was one; stop_sm; _start_rollback.
ResumeRefused ==
    /\ rsop.at = "refused"
    /\ LET counted == rsop.h # NoCounter
           n       == IF counted THEN ToDrop(rsop.h) ELSE 0
           acked   == {unacked[i] : i \in 1..n}
           rest    == ToSet(unacked) \ acked
       IN  /\ n <= Len(unacked)
           /\ state' = SetAll(SetAll(SetAll(state, acked, "ACKED"),
                                     rest, IF counted THEN "DISCONNECTED" ELSE "SENT_WITHOUT_SM"),
                              ToSet(active), "DISCONNECTED")
    /\ active' = <<>> /\ SMOff /\ established' = FALSE
    /\ classes' = classes \ {"stanza", "nonza"}
    /\ Emit(<<>>, <<>>, Destroyed)
    /\ ResumeOver
    /\ UNCHANGED <<taskVars, exc, conn>>

\* The stream dies before the answer, or the caller is cancelled: _start_rollback.
ResumeDies ==
    /\ rsop.at = "requested"
    /\ classes' = classes \ {"stanza", "nonza"}
    /\ Silent /\ ResumeOver
    /\ UNCHANGED <<tokenVars, smVars, taskVars, exc, established, conn>>

-----------------------------------------------------------------------------
(* close(): acknowledge, close the XMLStream and wait for the peer, stop the *)
(* broker and wait for it, discard everything.                               *)

CloseFinish ==
    /\ DestroyState(active)
    /\ closed' = TRUE /\ exc' = "destruction" /\ closer' = "none"
    /\ Emit(<<>>, <<>>, Destroyed)
    /\ UNCHANGED <<futVars, taskVars, smop, rsop, connVars>>

CloseStopped == ~Running /\ OwnerIdle /\ CloseFinish

CloseRunning ==
    /\ Yielded /\ Running /\ broker # "fresh" /\ OwnerIdle
    /\ smEnabled => conn = "open"
    /\ closer' = "xmlstream"
    /\ conn' = IF conn = "open" THEN "closing" ELSE conn
    /\ Emit(IF smEnabled THEN <<SMAck(inCtr)>> ELSE <<>>, <<>>, {})
    /\ UNCHANGED <<tokenVars, futVars, smVars, taskVars, streamVars, smop, rsop,
                   connErr, notified, classes>>

\* The acknowledgement cannot be sent, or XMLStream.close finds the peer's footer
\* received but the transport not yet gone: close() raises and does nothing else.
CloseRaises ==
    /\ Yielded /\ Running /\ broker # "fresh" /\ OwnerIdle
    /\ (smEnabled /\ conn # "open") \/ conn = "down"
    /\ closer' = "raised"
    /\ Silent
    /\ UNCHANGED <<tokenVars, futVars, smVars, taskVars, streamVars, smop, rsop, connVars>>

\* close_and_wait returns and wait_stop finds the broker running.
CloseStops ==
    /\ Yielded /\ closer = "xmlstream" /\ conn = "down" /\ Running
    /\ cancel' = TRUE /\ closer' = "task"
    /\ Silent
    /\ UNCHANGED <<tokenVars, futVars, smVars, broker, bdone, raised, streamVars,
                   smop, rsop, connVars>>

MutantCloseEnds ==   \* overlooks that the broker may have stopped already
    ~Running /\ closer = "task" /\ raised = "cancelled" /\ CloseFinish

CloseEnds ==
    /\ ~Running
    /\ \/ closer = "xmlstream" /\ conn = "down"
       \/ closer = "task" /\ raised = "cancelled"
    /\ CloseFinish

\* Awaiting the broker task re-raises the exception it ended with.
CloseFails ==
    /\ ~Running /\ closer = "task" /\ raised = "error"
    /\ closer' = "raised"
    /\ Silent
    /\ UNCHANGED <<tokenVars, futVars, smVars, taskVars, streamVars, smop, rsop, connVars>>

-----------------------------------------------------------------------------
(* Specification *)

Application == Stop \/ \E t \in Tokens : Enqueue(t) \/ Abort(t)

Broker == \/ BrokerStart \/ BrokerNeverRuns \/ BrokerWake \/ BrokerLocks
          \/ SendFirst \/ SendNext \/ BatchDone \/ BatchRaises
          \/ ProcessStanza \/ ProcessAck \/ ProcessRequest \/ ProcessRaises
          \/ BrokerCancelled \/ FinalLocked \/ FinalCancelled

Owner == \/ Connect \/ Start \/ StartSM \/ StartSMCancelled \/ StopSM
         \/ ResumeSM
         \/ CloseStopped \/ CloseRunning \/ CloseRaises

\* Coroutines of the owner that continue when what they await has happened.
Continuation == \/ StartSMAnswered \/ StartSMDies
                \/ Resumed \/ ResumeRaises \/ ResumeRefused \/ ResumeDies
                \/ CloseStops \/ CloseEnds \/ CloseFails

Peer == \/ ConnFails \/ PeerEof \/ ConnGone \/ SoftLimitTripped
        \/ \E e \in Element : Recv(e) \/ RecvUnknown(e)
        \/ \E r \in BOOLEAN : RecvEnabled(r)
        \/ RecvSMFailed
        \/ \E h \in Counter : RecvResumed(h)
        \/ \E h \in Counter \cup {NoCounter} : RecvResumeFailed(h)

Next == \/ Application \/ Broker \/ GetActive \/ GetIncoming
        \/ Owner \/ Continuation \/ Peer \/ OnClosing

Spec == Init /\ [][Next]_vars

-----------------------------------------------------------------------------
(* Safety: where a token is tells its state, and no token is lost or doubled. *)

\* The tokens the broker still has to send. While the bulk is being sent,
\* active_fut still holds a token that is dealt with already.
Fetched == IF broker = "bulk" THEN {} ELSE ToSet(afut)
Queued  == ToSet(active) \cup Fetched
Unacked == ToSet(unacked)

\* A token is queued at most once and never both queued and awaiting its ack:
\* rescue, retransmission and shutdown move tokens, they do not copy them.
AtMostOnePlace ==
    /\ IsInjective(active) /\ IsInjective(unacked)
    /\ ToSet(active) \cap Fetched = {}
    /\ Queued \cap Unacked = {}

\* Every stanza accepted and not yet sent is still queued, whatever connection
\* losses, cancellations and restarts happened meanwhile.
ActiveIsQueued == \A t \in Tokens : state[t] = "ACTIVE" => t \in Queued

\* Every stanza sent under Stream Management is remembered until it is acked
\* or given up: it awaits its ack or is queued for retransmission.
SentIsTracked == \A t \in Tokens : state[t] = "SENT" => t \in Queued \cup Unacked

\* Only sent stanzas await an ack, and only while Stream Management is on.
UnackedIsSent == unacked # <<>> => smEnabled /\ \A t \in Unacked : state[t] = "SENT"

\* close() leaves nothing behind: no session, no stanza still to be settled.
ClosedIsClean ==
    closed => /\ ~Running /\ ~smEnabled /\ ~established
              /\ \A t \in Tokens : state[t] \notin {"ACTIVE", "SENT"}

\* The outcomes the session decides on are never revised: refusal, shutdown and
\* late acks leave them alone.
Settled == {"ACKED", "SENT_WITHOUT_SM", "DISCONNECTED"}
SettledIsFinal == [][\A t \in Tokens : state[t] \in Settled => state'[t] = state[t]]_vars

\* A stanza aborted in time is not sent, wherever in the queues it is. The state
\* is not as final as stream.py:271-275 has it: _destroy_stream_state makes what
\* is left in the queue DISCONNECTED, aborted or not (see AbortedIsFinal).
AbortedIsNotSent ==
    [][\A t \in Tokens : state[t] = "ABORTED" => state'[t] \in {"ABORTED", "DISCONNECTED"}]_vars

\* What stream.py:275 says of ABORTED: "This is a final state." It is not kept.
AbortedIsFinal ==
    [][\A t \in Tokens : state[t] = "ABORTED" => state'[t] = "ABORTED"]_vars

\* What stream.py:296 says of FAILED: "This is a final state." It is not kept:
\* a token whose batch ends with an exception is queued again.
FailedIsFinal ==
    [][\A t \in Tokens : state[t] = "FAILED" => state'[t] = "FAILED"]_vars

SendsStanza == \E i \in DOMAIN io'.wire : io'.wire[i].k = "stanza"

\* Between <enable/> and the answer to it nothing is sent that only one side counts.
EnablingIsQuiet == [][smop # "none" => ~SendsStanza]_vars

\* A stopped broker sends no stanza any more (stop() called from outside the
\* sending loop).
StoppedIsQuiet == [][cancel /\ broker # "bulk" => ~SendsStanza]_vars

-----------------------------------------------------------------------------
(* Liveness *)

\* The event loop's ready queue is first in, first out, so a task or callback
\* that is ready runs, even if the broker's synchronous sections come between
\* (hence SF); an open connection answers a request or dies, a closing one closes.
Fairness ==
    /\ WF_vars(Broker) /\ SF_vars(GetActive)
    /\ SF_vars(StartSMAnswered \/ StartSMDies)
    /\ SF_vars(CloseStops \/ CloseEnds \/ CloseFails)
    /\ SF_vars(RecvSMFailed) /\ SF_vars(ConnGone) /\ SF_vars(OnClosing)

FairSpec == Spec /\ Fairness

\* No wake-up is lost: a queued stanza is taken care of or the broker stops.
ActiveIsServed == \A t \in Tokens : state[t] = "ACTIVE" /\ Running ~> state[t] # "ACTIVE" \/ ~Running

\* stop() does stop the broker, even one that waits for start_sm's lock.
StopTerminates == cancel ~> ~Running

\* close() does not hang once it has begun to wait: the stream ends closed and
\* clean, or the broker task ended with an error that close() passes on to its
\* caller, against stream.py:1937 (see CloseLeavesClean).
CloseReturns == closer = "xmlstream" ~> closed \/ (closer = "raised" /\ raised = "error")

\* What stream.py:1937-1946 says of close(): "If an error occurs while the stream
\* stops, the error is ignored", and afterwards the stream is stopped and clean. It
\* is not kept if the broker ends with an error.
CloseLeavesClean == closer = "xmlstream" ~> closed
=============================================================================
