------------------------------- MODULE Client -------------------------------
(***************************************************************************)
(* aioxmpp.node.Client: the task that keeps an XMPP connection open, over  *)
(* the StanzaStream it drives and the XMLStream of the current attempt.    *)
(*                                                                         *)
(* An action is the code between two suspension points of the main task,   *)
(* or a callback. Both streams are reduced to what the client sees and     *)
(* causes (in full: StanzaStream, XMLStream): of the stanza stream whether *)
(* its broker task runs, whether it has a session and an SM session, and   *)
(* the exception its broker ends with.                                     *)
(***************************************************************************)
EXTENDS Naturals

CONSTANTS
    MaxAttempts,  \* max_initial_attempts
    Errors,       \* what a connection may fail with (see Kind)
    Offers        \* the feature sets a server may offer: subsets of {"sm", "session"}

\* "os": a ConnectionError or another OSError; "stream", "conflict": a
\* StreamError; "refused": a StreamNegotiationFailure or SASLError; "other": an
\* exception the client does not know; "runtime": a RuntimeError of StanzaStream.
Kind == {"os", "stream", "conflict", "refused", "other", "runtime"}

ASSUME ErrorsAssumption == Errors \subseteq {"os", "stream", "conflict"}
ASSUME OffersAssumption == Offers \subseteq SUBSET {"sm", "session"}
ASSUME AttemptsAssumption == MaxAttempts \in Nat \ {0}

VARIABLES
    main,       \* where the main task is
    asked,      \* stop(): a cancellation not yet delivered to the main task
    ended,      \* how the main task last ended
    answer,     \* what the main task awaits has resolved with ("none": pending)
    captured,   \* failure_future of _main_impl ("none": pending)
    attempts, hadConn,   \* _nattempt, _had_connection
    offer,      \* features of the server of the current connection
    view,       \* _is_suspended, established_event; what the signals told last
    run,        \* the stream's broker task; "stop": cancelled; "twice": see StreamStop
    live,       \* the stream's _established
    sm,         \* the stream's SM session
    exc,        \* the stream's _xmlstream_exception
    outcome,    \* the exception the broker task ended with
    due,        \* _done_handler has to report outcome
    link,       \* state of the current XMLStream
    linkErr,    \* its exception
    notified    \* its on_closing has fired

clientVars == <<asked, ended, captured, attempts, hadConn>>
streamVars == <<run, live, sm, exc, outcome, due>>
linkVars   == <<link, linkErr, notified>>
vars == <<main, answer, offer, view, clientVars, streamVars, linkVars>>

-----------------------------------------------------------------------------
(* Types *)

\* In the try block of _main_impl.
Inside == {"resuming", "binding", "enabling", "session", "before", "waiting"}

\* Waiting for the answer to an IQ request.
Asking == {"binding", "session", "before"}

\* Waiting for the answer to <resume/> or <enable/>, or for the stream to end.
Negotiating == {"resuming", "enabling"}

MainState == Inside \cup {"off", "fresh", "connecting", "closing", "stopping", "backoff"}

View == [suspended : BOOLEAN, established : BOOLEAN,
         told : {"nothing", "established", "destroyed"}]

Flags ==
    /\ asked \in BOOLEAN /\ hadConn \in BOOLEAN /\ live \in BOOLEAN
    /\ due \in BOOLEAN /\ notified \in BOOLEAN

States ==
    /\ main \in MainState
    /\ ended \in Kind \cup {"never", "stopped", "interrupted"}
    /\ answer \in Kind \cup {"none", "ok", "bad"}
    /\ captured \in Kind \cup {"none"}
    /\ attempts \in 0..MaxAttempts
    /\ offer \in SUBSET {"sm", "session"}
    /\ view \in View
    /\ run \in {"no", "yes", "stop", "twice"}
    /\ sm \in {"off", "on", "resumable"}
    /\ exc \in Kind \cup {"none"} /\ outcome \in Kind \cup {"none"}
    /\ link \in {"none", "open", "closing", "footer", "closed"}
    /\ linkErr \in Kind \cup {"none"}

TypeOK == Flags /\ States

Init ==
    /\ main = "off" /\ asked = FALSE /\ ended = "never" /\ answer = "none"
    /\ captured = "none" /\ attempts = 0 /\ hadConn = FALSE /\ offer = {}
    /\ view = [suspended |-> FALSE, established |-> FALSE, told |-> "nothing"]
    /\ run = "no" /\ live = FALSE /\ sm = "off" /\ exc = "none"
    /\ outcome = "none" /\ due = FALSE
    /\ link = "none" /\ linkErr = "none" /\ notified = FALSE

-----------------------------------------------------------------------------
(* The stream as the client uses it *)

\* The operators named Mutant... are plausible mistakes in the definition that
\* follows them. No action uses them; each must break one of the properties.

MutantListening == main = "waiting"   \* connected after the negotiation

\* The stream's signals are connected while _main runs.
Listening == main \notin {"off", "fresh"}

\* The broker and its callbacks are done. Connecting, sleeping and a restart
\* take more iterations of the loop than that.
Settled == run = "no" /\ ~due

\* An exception for a connection that ended perhaps without one.
Reason(e) == IF e = "none" THEN "os" ELSE e

MutantLost == [view EXCEPT !.suspended = TRUE]   \* established_event stays set

\* _stream_destroyed
Lost == [suspended |-> TRUE, established |-> FALSE,
         told |-> IF view.established THEN "destroyed" ELSE view.told]

\* _destroy_stream_state, seen by the client.
SessionLost ==
    /\ sm' = "off" /\ live' = FALSE
    /\ view' = IF live /\ Listening THEN Lost ELSE view

\* StanzaStream.start: _start_prepare and _start_commit.
StreamStarts ==
    /\ run' = "yes" /\ live' = TRUE /\ exc' = "none" /\ outcome' = "none"
    /\ UNCHANGED due

\* StanzaStream.stop. A second cancellation may hit the broker while it waits
\* in its finally block for the lock that start_sm holds.
StreamStop ==
    run' = CASE run = "yes" -> "stop"
             [] run = "stop" /\ main = "enabling" -> "twice"
             [] OTHER -> run

MutantBrokerEnds(why) ==   \* does not close the IQ response map
    /\ run' = "no"
    /\ outcome' = IF exc # "none" THEN exc ELSE why
    /\ due' = (outcome' # "none")
    /\ IF sm = "resumable" THEN UNCHANGED <<sm, live, view>> ELSE SessionLost
    /\ UNCHANGED <<main, answer, offer, clientVars, exc, linkVars>>

\* The end of the broker task: the session is kept if it can be resumed;
\* otherwise whoever waits for an IQ response is told.
BrokerEnds(why) ==
    /\ run' = "no"
    /\ outcome' = IF exc # "none" THEN exc ELSE why
    /\ due' = (outcome' # "none")
    /\ IF sm = "resumable"
       THEN UNCHANGED <<sm, live, view, answer>>
       ELSE /\ SessionLost
            /\ answer' = IF main \in Asking /\ answer = "none" THEN Reason(exc) ELSE answer
    /\ UNCHANGED <<main, offer, clientVars, exc, linkVars>>

\* start_sm holds the broker lock; and a main task woken by a response goes on
\* before the broker that dispatched it.
LockFree == main # "enabling" /\ ~(main \in {"binding", "session"} /\ answer # "none")

BrokerStopped == run \in {"stop", "twice"} /\ LockFree /\ BrokerEnds("none")

BrokerDiesUncleanly ==
    /\ run = "twice"
    /\ run' = "no" /\ outcome' = "none"
    /\ UNCHANGED <<main, answer, offer, view, clientVars, live, sm, exc, due, linkVars>>

\* The peer acknowledges more than was sent, or sending fails.
BrokerFails ==
    /\ run = "yes" /\ LockFree /\ sm # "off"
    /\ \/ BrokerEnds("refused")
       \/ link # "open" /\ BrokerEnds(Reason(linkErr))

MutantDoneHandler ==   \* takes a suspended stream for one whose failure is known
    /\ due /\ due' = FALSE
    /\ link' = IF link = "open" THEN "closing" ELSE link
    /\ captured' = IF view.suspended THEN captured ELSE outcome
    /\ view' = [view EXCEPT !.suspended = TRUE]
    /\ UNCHANGED <<main, answer, offer, asked, ended, attempts, hadConn,
                   run, live, sm, exc, outcome, linkErr, notified>>

\* _done_handler, and by on_failure _stream_failure.
DoneHandler ==
    /\ due /\ due' = FALSE
    /\ link' = IF link = "open" THEN "closing" ELSE link
    /\ IF Listening
       THEN /\ captured' = IF captured = "none" THEN outcome ELSE captured
            /\ view' = [view EXCEPT !.suspended = TRUE]
       ELSE UNCHANGED <<captured, view>>
    /\ UNCHANGED <<main, answer, asked, ended, attempts, hadConn, offer,
                   run, live, sm, exc, outcome, linkErr, notified>>

-----------------------------------------------------------------------------
(* The connection *)

\* A stream error, lost transport, the peer's footer or the dead-time hard limit,
\* perhaps on a stream that is closing already.
LinkFails(k) ==
    /\ \/ k = "os" /\ link \in {"open", "closing", "footer"} /\ link' \in {"footer", "closed"}
       \/ k # "os" /\ link \in {"open", "closing"} /\ link' = "closing"
    /\ ~notified
    /\ linkErr' = k
    /\ UNCHANGED <<main, answer, offer, view, clientVars, streamVars, notified>>

\* eof_received on an open stream.
LinkEof ==
    /\ link = "open" /\ link' = "footer"
    /\ UNCHANGED <<main, answer, offer, view, clientVars, streamVars, linkErr, notified>>

LinkCloses ==
    /\ \/ link = "closing" /\ link' \in {"footer", "closed"}
       \/ link = "footer" /\ link' = "closed"
    /\ UNCHANGED <<main, answer, offer, view, clientVars, streamVars, linkErr, notified>>

\* _stream_starts_closing: on_closing (_xmlstream_failed), then the error futures.
OnClosing ==
    /\ link \in {"closing", "footer", "closed"} /\ ~notified
    /\ main \in Negotiating => answer = "none"
    /\ notified' = TRUE
    /\ exc' = IF run # "no" \/ main = "resuming" THEN linkErr ELSE exc
    /\ run' = IF run = "yes" THEN "stop" ELSE run
    /\ answer' = IF main \in Negotiating THEN Reason(linkErr) ELSE answer
    /\ UNCHANGED <<main, offer, view, clientVars, live, sm, outcome, due, link, linkErr>>

-----------------------------------------------------------------------------
(* The main task: starting, stopping, and what follows an exception *)

\* Bound: a client that failed, or whose stop() was interrupted by another one, is
\* not started again; its established_event may still be set (SessionIsKnown).
StartClient ==
    /\ main = "off" /\ Settled /\ ended \in {"never", "stopped"}
    /\ main' = "fresh" /\ asked' = FALSE
    /\ UNCHANGED <<answer, view, ended, captured, attempts, hadConn, offer, streamVars, linkVars>>

StopClient ==
    /\ main # "off" /\ ~asked
    /\ asked' = TRUE
    /\ UNCHANGED <<main, answer, view, ended, captured, attempts, hadConn, offer,
                   streamVars, linkVars>>

\* _main, the head of its loop, and _main_impl up to connect_xmlstream.
NextAttempt ==
    /\ main' = "connecting"
    /\ attempts' = IF attempts < MaxAttempts THEN attempts + 1 ELSE attempts
    /\ captured' = "none"
    /\ UNCHANGED <<ended, hadConn>>

MainEnds(why) == main' = "off" /\ ended' = why /\ UNCHANGED <<captured, attempts, hadConn>>

OutOfAttempts == ~hadConn /\ attempts >= MaxAttempts

\* The except clauses of _main.
Retry(k) ==
    CASE k = "stream" -> NextAttempt
      [] k = "os" /\ ~OutOfAttempts ->
            main' = "backoff" /\ UNCHANGED <<captured, attempts, hadConn, ended>>
      [] OTHER -> MainEnds(k)

MainBegins ==
    /\ main = "fresh" /\ ~asked
    /\ NextAttempt
    /\ UNCHANGED <<asked, answer, view, offer, streamVars, linkVars>>

BackoffOver ==
    /\ main = "backoff" /\ ~asked /\ Settled
    /\ NextAttempt
    /\ UNCHANGED <<asked, answer, view, offer, streamVars, linkVars>>

\* _main discards the SM session of a client that was refused; stop_sm fails
\* on a running stream.
DiscardAndRetry(k, discard) ==
    IF discard /\ sm # "off"
    THEN IF run = "no"
         THEN SessionLost /\ Retry(k)
         ELSE UNCHANGED <<sm, live, view>> /\ MainEnds("runtime")
    ELSE UNCHANGED <<sm, live, view>> /\ Retry(k)

\* An exception leaves the try block of _main_impl: SM is stopped after a
\* StreamError, and the stream in any case.
Leave(k) ==
    /\ DiscardAndRetry(k, k \in {"stream", "conflict", "refused"})
    /\ StreamStop
    /\ answer' = "none" /\ offer' = {} /\ asked' = FALSE
    /\ UNCHANGED <<exc, outcome, due, linkVars>>

\* close() raises in the handler of CancelledError.
CloseRaises(k) ==
    /\ DiscardAndRetry(k, k = "refused")
    /\ StreamStop
    /\ answer' = "none" /\ offer' = {} /\ asked' = FALSE
    /\ UNCHANGED <<exc, outcome, due, linkVars>>

-----------------------------------------------------------------------------
(* Connecting and negotiating *)

\* connect_xmlstream succeeds; _negotiate_stream up to its first await.
Connected(features) ==
    /\ main = "connecting" /\ ~asked /\ Settled
    /\ hadConn' = TRUE /\ offer' = features /\ answer' = "none"
    /\ link' = "open" /\ linkErr' = "none" /\ notified' = FALSE
    /\ IF sm # "off" /\ "sm" \in features
       THEN /\ main' = "resuming" /\ exc' = "none"
            /\ UNCHANGED <<view, run, live, sm, outcome, due>>
       ELSE /\ main' = "binding"
            /\ StreamStarts
            /\ sm' = "off"
            /\ view' = IF sm # "off" /\ live THEN Lost ELSE view
    /\ UNCHANGED <<asked, ended, captured, attempts>>

ConnectFails(k) ==
    /\ main = "connecting" /\ ~asked /\ Settled
    /\ DiscardAndRetry(k, k = "refused")
    /\ UNCHANGED <<asked, offer, answer, run, exc, outcome, due, linkVars>>

\* The server's answers. "bad": <resumed/> or <failed/> with a count of more
\* than was sent. The handler of <enabled/> runs at once.
Answer(a) ==
    /\ answer = "none" /\ answer' = a
    /\ UNCHANGED <<main, offer, view, clientVars, run, live, exc, outcome, due, linkVars>>

ResumeAnswered ==
    /\ main = "resuming" /\ link = "open"
    /\ \E a \in {"ok", "refused", "bad"} : Answer(a)
    /\ UNCHANGED sm

EnableAnswered ==
    /\ main = "enabling" /\ link = "open"
    /\ Answer("ok") /\ sm' \in {"off", "on", "resumable"}

IQAnswered ==
    /\ main \in Asking /\ run = "yes"
    /\ \E a \in {"ok", "refused"} : Answer(a)
    /\ UNCHANGED sm

\* The main task continues with the answer.
Resumes(place) == main = place /\ ~asked /\ answer # "none"

\* What it awaited has raised.
Raises == answer \in Kind \ {"refused"} /\ Leave(answer)

MutantStreamUsable(t) ==   \* does not reset _is_suspended
    /\ main' = "waiting" /\ answer' = "none" /\ offer' = {}
    /\ view' = [view EXCEPT !.told = t]

\* The rest of _main_impl up to awaiting the failure future.
StreamUsable(t) ==
    /\ main' = "waiting" /\ answer' = "none" /\ offer' = {}
    /\ view' = [view EXCEPT !.suspended = FALSE, !.told = t]

ResumeSucceeds ==
    /\ answer = "ok"
    /\ run' = "yes" /\ live' = TRUE /\ outcome' = "none"
    /\ StreamUsable(view.told)
    /\ UNCHANGED <<clientVars, sm, exc, due, linkVars>>

\* resume_sm stops SM, and a new session is bound.
ResumeRefused ==
    /\ answer = "refused"
    /\ main' = "binding" /\ answer' = "none"
    /\ view' = IF live THEN Lost ELSE view
    /\ sm' = "off"
    /\ StreamStarts
    /\ UNCHANGED <<offer, clientVars, linkVars>>

\* sm_ack raises before anything is changed.
ResumeMiscounts ==
    /\ answer = "bad"
    /\ main' = "binding" /\ answer' = "none"
    /\ StreamStarts
    /\ UNCHANGED <<offer, view, clientVars, sm, linkVars>>

AfterResume ==
    /\ Resumes("resuming")
    /\ Raises \/ ResumeSucceeds \/ ResumeRefused \/ ResumeMiscounts

\* _negotiate_stream after Stream Management.
Proceed ==
    /\ answer' = "none"
    /\ IF "session" \in offer /\ main # "session"
       THEN main' = "session" /\ UNCHANGED view
       ELSE main' = "before" /\ view' = [view EXCEPT !.established = TRUE]
    /\ UNCHANGED <<offer, clientVars, streamVars, linkVars>>

\* start_sm up to its first await.
StartSM ==
    /\ answer = "ok" /\ "sm" \in offer /\ sm = "off" /\ link = "open"
    /\ main' = "enabling" /\ answer' = "none"
    /\ UNCHANGED <<offer, view, clientVars, streamVars, linkVars>>

\* It raises if SM is on already or its request cannot be sent.
StartSMRaises ==
    /\ answer = "ok" /\ "sm" \in offer
    /\ \/ sm # "off" /\ Leave("runtime")
       \/ sm = "off" /\ link # "open" /\ Leave(Reason(linkErr))

AfterBind ==
    /\ Resumes("binding")
    /\ \/ Raises \/ StartSM \/ StartSMRaises
       \/ answer = "refused" /\ Leave("refused")
       \/ answer = "ok" /\ "sm" \notin offer /\ Proceed

AfterEnable == Resumes("enabling") /\ (Raises \/ (answer = "ok" /\ Proceed))

\* An error response is an XMPPError, some of which are OSErrors.
ErrorResponse == answer = "refused" /\ \E k \in {"os", "other"} : Leave(k)

AfterSession == Resumes("session") /\ (Raises \/ ErrorResponse \/ (answer = "ok" /\ Proceed))

HandlersReturn ==
    /\ StreamUsable("established")
    /\ UNCHANGED <<clientVars, streamVars, linkVars>>

\* before_stream_established, whose handlers send IQ requests.
AfterHandlers == Resumes("before") /\ (Raises \/ ErrorResponse \/ (answer = "ok" /\ HandlersReturn))

\* Handlers that do not wait for the stream, or not for ever: a TimeoutError is an
\* OSError.
HandlersElsewhere ==
    /\ main = "before" /\ ~asked /\ answer = "none"
    /\ HandlersReturn \/ \E k \in {"os", "other"} : Leave(k)

\* await failure_future
StreamFailed == main = "waiting" /\ ~asked /\ captured # "none" /\ Leave(captured)

-----------------------------------------------------------------------------
(* Stopping *)

\* close() discards the session; the CancelledError goes on to _on_main_done.
CloseEnds ==
    /\ SessionLost
    /\ MainEnds("stopped")
    /\ answer' = "none" /\ offer' = {} /\ asked' = FALSE
    /\ UNCHANGED <<exc, outcome, due, linkVars>>

\* CancelledError outside of the try block.
CancelledOutside ==
    /\ asked /\ asked' = FALSE
    /\ main \in {"fresh", "connecting", "backoff"} /\ run = "no"
    /\ MainEnds("stopped")
    /\ UNCHANGED <<answer, view, offer, streamVars, linkVars>>

\* StanzaStream.close up to its first await: sending the acknowledgement, and
\* XMLStream.close.
CloseBegins ==
    /\ (sm = "off" \/ link = "open") /\ link # "footer"
    /\ main' = "closing" /\ answer' = "none" /\ offer' = {} /\ asked' = FALSE
    /\ link' = IF link = "open" THEN "closing" ELSE link
    /\ UNCHANGED <<view, ended, captured, attempts, hadConn, streamVars, linkErr, notified>>

\* Sending fails on a closing connection, and closing once the footer is sent.
CloseCannotBegin ==
    \/ sm # "off" /\ link # "open" /\ CloseRaises(Reason(linkErr))
    \/ sm = "off" /\ link = "footer" /\ CloseRaises("other")

\* CancelledError in the try block.
CancelledInside ==
    /\ asked /\ main \in Inside
    /\ \/ run = "no" /\ CloseEnds /\ UNCHANGED run
       \/ run # "no" /\ (CloseBegins \/ CloseCannotBegin)

\* close_and_wait returns; wait_stop.
CloseGoesOn ==
    /\ main = "closing" /\ ~asked /\ link \in {"footer", "closed"}
    /\ IF run = "no"
       THEN CloseEnds /\ UNCHANGED run
       ELSE /\ main' = "stopping" /\ run' = "stop"
            /\ UNCHANGED <<offer, answer, view, clientVars, live, sm, exc, outcome, due, linkVars>>

MutantCloseReturns ==   \* the exception of the broker task is lost
    /\ main = "stopping" /\ ~asked /\ Settled /\ outcome = "none"
    /\ CloseEnds /\ UNCHANGED run

\* The broker task is done; wait_stop re-raises the exception it ended with.
CloseReturns ==
    /\ main = "stopping" /\ ~asked /\ Settled
    /\ IF outcome = "none" THEN CloseEnds /\ UNCHANGED run ELSE CloseRaises(outcome)

\* stop() again while close() waits: for the peer, and for the broker, where
\* wait_stop swallows the CancelledError.
ClosingCancelled ==
    /\ main = "closing" /\ asked /\ asked' = FALSE
    /\ StreamStop
    /\ MainEnds("interrupted")
    /\ UNCHANGED <<answer, view, offer, live, sm, exc, outcome, due, linkVars>>

StoppingCancelled ==
    /\ main = "stopping" /\ asked /\ asked' = FALSE
    /\ IF run = "no"
       THEN CloseEnds /\ UNCHANGED run
       ELSE UNCHANGED <<main, answer, view, ended, captured, attempts, hadConn, offer,
                        streamVars, linkVars>>

-----------------------------------------------------------------------------
(* Specification *)

Broker == BrokerStopped \/ BrokerDiesUncleanly \/ BrokerFails \/ DoneHandler

Connection == LinkEof \/ LinkCloses \/ OnClosing \/ \E k \in Errors : LinkFails(k)

Server == ResumeAnswered \/ EnableAnswered \/ IQAnswered

Connect == \/ \E f \in Offers : Connected(f)
           \/ \E k \in Errors \cup {"refused", "other"} : ConnectFails(k)

MainContinues ==
    \/ MainBegins \/ BackoffOver
    \/ AfterResume \/ AfterBind \/ AfterEnable \/ AfterSession \/ AfterHandlers
    \/ StreamFailed \/ CloseGoesOn \/ CloseReturns
    \/ CancelledOutside \/ CancelledInside \/ ClosingCancelled \/ StoppingCancelled

Next == StartClient \/ StopClient \/ Connect \/ MainContinues \/ HandlersElsewhere
        \/ Broker \/ Connection \/ Server

Spec == Init /\ [][Next]_vars

-----------------------------------------------------------------------------
(* Safety *)

\* The application's restriction: see StartClient.
NotFailed == ended \in {"never", "stopped"}

\* While established_event is set, the stream has the session the application
\* uses: every loss of it reaches _stream_destroyed (of a client that has failed
\* it may not: its signals are disconnected when the broker ends).
SessionIsKnown == NotFailed => (view.established => live)

\* While a new session is negotiated, nobody takes the last one for alive:
\* on_stream_destroyed was emitted, whichever way it was lost (unless resumption
\* failed over a wrong count: then the old session is kept below the new one).
FreshStart ==
    main \in {"binding", "enabling", "session"} =>
        ~view.established \/ (main = "binding" /\ sm # "off")

\* A client that waits for its running stream to fail has a session and is not
\* marked suspended, no matter how late the last broker's failure was reported.
WaitingIsUsable == main = "waiting" /\ run = "yes" => live /\ ~view.suspended

-----------------------------------------------------------------------------
(* Liveness *)

\* Ready tasks and callbacks run; connecting ends, by timeout if need be; a
\* server answers on an open connection; a closing connection closes.
Fairness ==
    /\ WF_vars(MainContinues) /\ WF_vars(Connect)
    /\ WF_vars(BrokerStopped \/ BrokerDiesUncleanly) /\ WF_vars(DoneHandler)
    /\ WF_vars(OnClosing) /\ WF_vars(LinkCloses) /\ WF_vars(Server)

FairSpec == Spec /\ Fairness

\* A connection that fails with an error does not leave the client waiting.
NoticesFailure == main = "waiting" /\ linkErr # "none" ~> main # "waiting"

InNegotiation == main \in Negotiating \cup Asking

\* An IQ response lost with the connection of a session that could be resumed,
\* if only the client went on.
Stranded == main \in Asking /\ sm = "resumable"

\* Negotiation ends, whatever fails meanwhile, except in that case.
NegotiationEnds == InNegotiation ~> ~InNegotiation \/ Stranded

\* close() has not done its work: it raised an error of the connection or of the
\* broker task, or it could not begin, and the session was not discarded.
Unclosed == linkErr # "none" \/ outcome # "none" \/ sm # "off"

\* stop() is not swallowed. Before the connection is made and between attempts it
\* ends the client, and on a connection too, unless that fails before close() is
\* done: then close() raises, and _main takes its exception for a failed
\* connection and makes a new one (see StopEnds).
StopTakesEffect ==
    /\ asked /\ main \in {"fresh", "connecting", "backoff"} ~> main = "off"
    /\ asked /\ main \in Inside \cup {"closing", "stopping"}
          ~> main = "off" \/ (main \in {"connecting", "backoff"} /\ Unclosed)

-----------------------------------------------------------------------------
(* What the documentation says and the code does not keep.                   *)

\* Client.start: "While the client is running, it will try to keep an XMPP
\* connection open".
KeepsTrying == main = "waiting" /\ link # "open" ~> main # "waiting"

\* Client.stop: "This sends a signal to the clients main task which makes it
\* terminate."
StopEnds == asked ~> main = "off"
=============================================================================
