----------------------------- MODULE XMLStream ------------------------------
(***************************************************************************)
(* aioxmpp.protocol.XMLStream on its OrderedStateMachine: the states of    *)
(* one XML stream from the transport's connection_made to its              *)
(* connection_lost, the ways in which it ends, and who is told.            *)
(*                                                                         *)
(* An action is one callback of the transport, one call by the             *)
(* application, or one wake-up of a coroutine by the event loop.           *)
(***************************************************************************)
EXTENDS Naturals

CONSTANTS
    Futures,     \* error futures the application may ask for
    HardLimit    \* whether a dead-time hard limit is set

ASSUME HardLimitAssumption == HardLimit \in BOOLEAN

VARIABLES
    st,          \* _smachine.state
    exc,         \* _exception is set
    transport,   \* "none", "up", "closing" (_transport_closing) or "gone"
    writer,      \* "none", "open", "closed"
    written,     \* what was written last
    task,        \* _closing_future: "waiting" for CLOSING, "woken", or "fired":
                 \* on_closing has been emitted
    reason,      \* whether it was emitted with an exception
    futs,        \* error futures: "unused", "pending" or "failed"
    waiter,      \* a close_and_wait call: "none", "waiting", "returned"
    inUse,       \* negotiation is over, the owner uses the stream
    raised       \* the last step raised the state machine's ValueError

xvars == <<st, exc, transport, writer, written, task, reason, futs, waiter, inUse, raised>>

READY                          == 0
STREAM_HEADER_SENT             == 1
OPEN                           == 2
CLOSING                        == 3
CLOSING_STREAM_FOOTER_RECEIVED == 4
CLOSED                         == 6

State == {READY, STREAM_HEADER_SENT, OPEN, CLOSING, CLOSING_STREAM_FOOTER_RECEIVED, CLOSED}

XTypeOK ==
    /\ st \in State /\ exc \in BOOLEAN
    /\ transport \in {"none", "up", "closing", "gone"}
    /\ writer \in {"none", "open", "closed"}
    /\ written \in {"nothing", "header", "xso", "footer"}
    /\ task \in {"waiting", "woken", "fired"} /\ reason \in BOOLEAN
    /\ futs \in [Futures -> {"unused", "pending", "failed"}]
    /\ waiter \in {"none", "waiting", "returned"}
    /\ inUse \in BOOLEAN /\ raised \in BOOLEAN

XInit ==
    /\ st = READY /\ exc = FALSE
    /\ transport = "none" /\ writer = "none" /\ written = "nothing"
    /\ task = "waiting" /\ reason = FALSE
    /\ futs = [f \in Futures |-> "unused"]
    /\ waiter = "none" /\ inUse = FALSE /\ raised = FALSE

-----------------------------------------------------------------------------
(* Helpers *)

\* The operators named Mutant... are plausible mistakes in the definition that
\* follows them. No action uses them; each must break one of the properties.

MutantAdvance(s) ==        \* does not wake who waits for a skipped state
    st' = s /\ task' = IF task = "waiting" /\ s = CLOSING THEN "woken" ELSE task

\* OrderedStateMachine.state: the machine only moves forwards, and whoever
\* waits for a state is woken when it is reached or skipped.
Advance(s) ==
    /\ st' = s
    /\ task' = IF task = "waiting" /\ s >= CLOSING THEN "woken" ELSE task

CloseTransport == transport' = IF transport = "up" THEN "closing" ELSE transport

\* The writer's close(), which writes the stream footer unless closed already.
CloseWriter ==
    /\ writer' = "closed"
    /\ written' = IF writer = "open" THEN "footer" ELSE written

TaskVars == <<reason, futs, waiter, inUse>>

-----------------------------------------------------------------------------
(* The transport's callbacks *)

ConnectionMade ==
    /\ st = READY /\ transport = "none"
    /\ transport' = "up" /\ writer' = "open" /\ written' = "header"
    /\ exc' = FALSE /\ raised' = FALSE
    /\ Advance(STREAM_HEADER_SENT)
    /\ UNCHANGED TaskVars

MutantConnectionLost(err) ==   \* forgets the stream error
    /\ transport \in {"up", "closing"} /\ st # CLOSED
    /\ Advance(CLOSED)
    /\ exc' = err
    /\ transport' = "gone" /\ writer' = "none" /\ raised' = FALSE
    /\ UNCHANGED <<written, TaskVars>>

ConnectionLost(err) ==
    /\ transport \in {"up", "closing"} /\ st # CLOSED
    /\ Advance(CLOSED)
    /\ exc' = (exc \/ err)
    /\ transport' = "gone" /\ writer' = "none" /\ raised' = FALSE
    /\ UNCHANGED <<written, TaskVars>>

RxStreamHeader ==
    /\ transport = "up" /\ st = STREAM_HEADER_SENT
    /\ Advance(OPEN)
    /\ raised' = FALSE
    /\ UNCHANGED <<exc, transport, writer, written, TaskVars>>

\* data_received with data that is no valid stream: the error is sent, if that
\* is still possible, and the stream shut down without waiting for the peer.
BadData ==
    /\ transport = "up" /\ st \in {STREAM_HEADER_SENT, OPEN, CLOSING}
    /\ exc' = TRUE /\ raised' = FALSE
    /\ CloseTransport /\ CloseWriter
    /\ Advance(CLOSING)
    /\ UNCHANGED TaskVars

\* _rx_stream_error: close() leaves the transport to the peer's footer.
RxStreamError ==
    /\ transport = "up" /\ st \in {OPEN, CLOSING}
    /\ exc' = TRUE /\ raised' = FALSE
    /\ CloseWriter
    /\ Advance(CLOSING)
    /\ UNCHANGED <<transport, TaskVars>>

MutantRxStreamFooter(junk) ==   \* takes the peer's answer for a late footer
    /\ transport = "up" /\ st = OPEN
    /\ exc' = TRUE
    /\ CloseTransport /\ CloseWriter
    /\ Advance(CLOSING_STREAM_FOOTER_RECEIVED)
    /\ raised' = junk
    /\ UNCHANGED TaskVars

\* _rx_stream_footer; junk after the footer in the same read fails the stream
\* again, whose close() now raises.
RxStreamFooter(junk) ==
    /\ transport = "up" /\ st \in {OPEN, CLOSING}
    /\ exc' = (exc \/ st # CLOSING \/ junk)
    /\ CloseTransport /\ CloseWriter
    /\ Advance(CLOSING_STREAM_FOOTER_RECEIVED)
    /\ raised' = junk
    /\ UNCHANGED TaskVars

EofReceived ==
    /\ transport = "up" /\ st \in {STREAM_HEADER_SENT, OPEN, CLOSING}
    /\ IF st = OPEN THEN CloseWriter ELSE UNCHANGED <<writer, written>>
    /\ CloseTransport
    /\ Advance(CLOSING_STREAM_FOOTER_RECEIVED)
    /\ raised' = FALSE
    /\ UNCHANGED <<exc, TaskVars>>

\* The limits are set by the owner and reset by connection_lost.
DeadtimeHardLimitTriggered ==
    /\ HardLimit /\ inUse /\ st # CLOSED
    /\ Advance(CLOSING_STREAM_FOOTER_RECEIVED)
    /\ transport' = "closing" /\ exc' = TRUE /\ raised' = FALSE
    /\ UNCHANGED <<writer, written, TaskVars>>

-----------------------------------------------------------------------------
(* The application's calls *)

\* close() on a stream with a transport. The state machine refuses to go back
\* from CLOSING_STREAM_FOOTER_RECEIVED to CLOSING.
DoClose ==
    IF st \in {CLOSING, CLOSED}
    THEN raised' = FALSE /\ UNCHANGED <<st, task, transport, writer, written>>
    ELSE /\ CloseWriter
         /\ IF st = STREAM_HEADER_SENT THEN CloseTransport ELSE UNCHANGED transport
         /\ raised' = (st > CLOSING)
         /\ IF st > CLOSING THEN UNCHANGED <<st, task>> ELSE Advance(CLOSING)

Close ==
    /\ st # READY
    /\ DoClose
    /\ UNCHANGED <<exc, TaskVars>>

CloseAndWait ==
    /\ st # READY /\ waiter = "none"
    /\ DoClose
    /\ waiter' = CASE raised' -> "none"
                   [] ~raised' /\ st' >= CLOSING_STREAM_FOOTER_RECEIVED -> "returned"
                   [] OTHER -> "waiting"
    /\ UNCHANGED <<exc, reason, futs, inUse>>

Abort ==
    /\ st # CLOSED
    /\ IF st = READY THEN Advance(CLOSED) /\ UNCHANGED transport
                     ELSE CloseTransport /\ UNCHANGED <<st, task>>
    /\ raised' = FALSE
    /\ UNCHANGED <<exc, writer, written, TaskVars>>

\* reset, during negotiation: a new writer replaces the old one.
Reset ==
    /\ ~inUse /\ st \in {STREAM_HEADER_SENT, OPEN}
    /\ st' = STREAM_HEADER_SENT
    /\ writer' = "open" /\ written' = "header" /\ raised' = FALSE
    /\ UNCHANGED <<exc, transport, task, TaskVars>>

SendXSO ==
    /\ st = OPEN
    /\ written' = "xso" /\ raised' = FALSE
    /\ UNCHANGED <<st, exc, transport, writer, task, TaskVars>>

\* The last stream features have been received: connect_xmlstream hands over.
Negotiated ==
    /\ st = OPEN /\ ~inUse
    /\ inUse' = TRUE /\ raised' = FALSE
    /\ UNCHANGED <<st, exc, transport, writer, written, task, reason, futs, waiter>>

ErrorFuture(f) ==
    /\ futs[f] = "unused"
    /\ futs' = [futs EXCEPT ![f] = "pending"]
    /\ raised' = FALSE
    /\ UNCHANGED <<st, exc, transport, writer, written, task, reason, waiter, inUse>>

-----------------------------------------------------------------------------
(* Wake-ups *)

\* _stream_starts_closing, when the task waiting for CLOSING is done in any way.
StreamStartsClosing ==
    /\ task = "woken"
    /\ task' = "fired" /\ reason' = exc
    /\ futs' = [f \in Futures |-> IF futs[f] = "pending" THEN "failed" ELSE futs[f]]
    /\ raised' = FALSE
    /\ UNCHANGED <<st, exc, transport, writer, written, waiter, inUse>>

CloseAndWaitReturns ==
    /\ waiter = "waiting" /\ st >= CLOSING_STREAM_FOOTER_RECEIVED
    /\ waiter' = "returned" /\ raised' = FALSE
    /\ UNCHANGED <<st, exc, transport, writer, written, task, reason, futs, inUse>>

-----------------------------------------------------------------------------
(* Specification *)

Lost   == \E err \in BOOLEAN : ConnectionLost(err)
Footer == \E junk \in BOOLEAN : RxStreamFooter(junk)

XNext == \/ ConnectionMade \/ Lost \/ RxStreamHeader \/ BadData \/ RxStreamError
         \/ Footer \/ EofReceived \/ DeadtimeHardLimitTriggered
         \/ Close \/ CloseAndWait \/ Abort \/ Reset \/ SendXSO \/ Negotiated
         \/ \E f \in Futures : ErrorFuture(f)
         \/ StreamStartsClosing \/ CloseAndWaitReturns

XSpec == XInit /\ [][XNext]_xvars

\* Callbacks that are due are run; a transport that is closing is lost in the
\* end; and the peer answers a stream footer, or else the limit trips.
XFairness ==
    /\ WF_xvars(StreamStartsClosing) /\ WF_xvars(CloseAndWaitReturns)
    /\ WF_xvars(transport = "closing" /\ Lost)
    /\ WF_xvars(st = CLOSING /\ (Footer \/ DeadtimeHardLimitTriggered))

FairXSpec == XSpec /\ XFairness
-----------------------------------------------------------------------------
(* Properties *)

\* An open stream can always write: no way of ending it, and no reset, leaves
\* OPEN with a writer that is closed or taken away.
OpenIsWritable == st = OPEN => writer = "open" /\ transport \in {"up", "closing"}

\* Nothing follows the stream footer on the wire, not even the stream error
\* that data_received sends.
FooterIsLast == [][written = "footer" => written' = "footer"]_xvars

\* Whichever way the stream ends, everybody who waits for its end by then is
\* told, also if CLOSING is skipped or the waiting task is cancelled.
EndIsTold ==
    \A f \in Futures :
        futs[f] = "pending" /\ task # "fired" /\ st >= CLOSING ~> futs[f] = "failed"

\* close_and_wait returns when the peer answers or the hard limit trips,
\* whatever else happens to the closing stream.
ClosingCompletes == waiter = "waiting" ~> waiter = "returned"

\* To its user, the stream is a connection as StanzaStream expects it.
C == INSTANCE Connection WITH
    conn <- IF ~inUse THEN "none"
            ELSE CASE st = OPEN -> "open" [] st = CLOSING -> "closing" [] OTHER -> "down",
    connErr <- inUse /\ IF task = "fired" THEN reason ELSE exc,
    notified <- inUse /\ task = "fired"

ImplementsConnection == C!Spec
=============================================================================
