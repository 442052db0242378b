# aioxmpp in TLA+

A model of aioxmpp's protocol core and of the services built on it whose order of
events is hard to get right: what happens to a stanza between the application's
`enqueue` and the server, over connections that break at any moment, and to a
received stanza on its way to the application; how the client keeps a
connection; and, above that, message tracking and receipts, in-band bytestreams,
a chat room's membership, and shared service discovery lookups. The modules are
translated from `stream.py`, `protocol.py`, `statemachine.py`,
`custom_queue.py`, `node.py`, `tracking.py`, `mdr/service.py`,
`ibb/service.py`, `muc/service.py`, `muc/self_ping.py`, `disco/service.py`,
`entitycaps/service.py` and `cache.py` under `src/aioxmpp/`. `PROJECT.json` maps
each definition to the lines it stands for.

## The system

| part | state | operations | hard because |
|---|---|---|---|
| `StanzaToken` (stream.py) | `_state`, future | `abort`, await, set by the stream | the owner may cancel at any moment; the verdict must be right and final |
| `StanzaStream` (stream.py) | active and incoming queue, unacked list, SM counters, broker task, lock, references to an `XMLStream` | `_enqueue`, `start`, `stop`, `close`, `start_sm`, `resume_sm`, `stop_sm`, the broker loop | one task, several coroutines and synchronous callbacks share the state; every `await` is a place where connection, queue and SM session change |
| `XMLStream` (protocol.py) on `OrderedStateMachine` | state, transport, writer, exception, closing future, error futures | transport callbacks, `close`, `abort`, `reset`, `send_xso` | footer, EOF, errors, dead-time limit and the user all end it, in any order |
| `Client` (node.py) | main task, failure future, attempts, what the signals told | start, stop, connect, negotiate, bind, enable or resume, retry | failures during negotiation, reported late; who notices the end; stop at any moment |
| server | SM session, what it has handled and not had acknowledged | | external; modelled as XEP-0198 lets it behave |
| dispatch, callbacks, task pool | handler tables | register, unregister, fire | handlers change the tables while they run |
| tracking (tracking.py, mdr, MUC's tables) | a tracker's state, four tables of trackers, the room's two indexes | send tracked, close, token done, error, receipt, reflection | what confirms or refutes a message arrives in any order; a filter that raises ends the broker |
| in-band bytestreams (ibb) | a write task, two buffers and two sequence numbers per end, table of sessions | open, expect, write, pause, close, abort, IQ and message handlers | every block awaits a reply while either end closes or a stream is lost |
| chat room (muc, self_ping) | two tables of rooms, the room's flags, the join future, monitor and pinger | join, cancel, leave, cycle; presence, errors, messages; stream lost and established | the room answers late, or forgets us without a word; a handler that raises is disconnected |
| lookups (disco, entitycaps, cache) | an LRU cache of tasks, futures by hash, a database | query, presence with hashes, answer, cancel, stream lost | many wait for the task of one that may fail, be cancelled or be replaced |
| other services (roster, presence, pubsub, ad-hoc commands, ...) | mirrors, sessions | IQ requests, event handlers | mostly one request and one answer |
| XSO framework, XML, forms, structs, SASL, TLS, DNS | none of interest here | | declarative data binding or third-party protocols |

How they interact: `Client` connects an `XMLStream`, passes it to
`StanzaStream.start` or `resume_sm`; these register stanza classes with the
XML stream's parser (elements go to the incoming queue) and connect to
`on_closing` (which stops the broker). The broker task takes tokens out of the
active queue, writes them with `send_xso`, and dispatches the incoming queue to
handlers. Its end emits `on_failure`, upon which `Client` makes a new
connection. Everything runs in one event loop, so no two pieces of code run at
once, but every `await` and every callback is a place for the others.

The services are called by the stream (an inbound filter, an IQ handler, a
message or presence listener, a done callback of a token's future) and by the
client's signals (`on_stream_established`, `on_stream_destroyed`,
`before_stream_established`). A filter that raises ends the broker; a signal
listener that raises is disconnected for good (`AdHocSignal.fire`).

### What makes each part correct

- Tokens: a stanza accepted is sent or its token tells why not; never sent
  twice to a server that has handled it; a confirmation only after the server
  has handled it; settled outcomes stay.
- Broker: does not lose or copy a token when cancelled between fetching and
  sending; sends nothing while SM is being enabled, and nothing after `stop()`;
  leaves no element of a dead connection for the next one.
- Stream Management: both ends' counters agree, across wrap-around and
  resumption; nothing is forgotten that has not reached the other side.
- `close()` leaves nothing behind and returns.
- XML stream: writable while open, nothing after the footer, everybody told of
  the end exactly once, with the error.
- `Client`: reconnects whenever the stream ends without being asked to; its
  signals and `established_event` tell the truth about the session; a failure is
  charged to the attempt it belongs to; `stop()` ends it.
- Tracking: a tracker says delivered, or aborted, only if that is so; a
  confirmation is noticed; no order of events makes a filter or listener raise.
- Bytestreams: the peer receives a prefix of what was written, and all of it if
  the session ended without an exception; closing ends; a paused writer is resumed.
- Room: presence reaches a room in use; its signals come in an order; joining is
  answered; the occupant who was dropped finds out.
- Lookups: an answer belongs to who was asked, or to who proved to say the same;
  everybody who asks is answered; the loop over hashes ends.

## Modules

`Connection` is the abstract life of a connection: open, closing, down, and
notified exactly once, after it ended.

`StanzaStream` models `stream.StanzaStream`. An action is the code between two
suspension points, except that the bulk loop of `_process_outgoing` is one
action per stanza, because the token callbacks it makes may enqueue, abort and
stop. The variables are the attributes of the class (`state`, `active`,
`incoming`, `unacked`, `smEnabled`, ...), the two futures of `_run` (`afut`,
`ifut`), where the broker task is (`broker`, `bdone`, `cancel`, `raised`), where
`start_sm`, `resume_sm` and `close` are (`smop`, `rsop`, `closer`), and the
connection as the stream sees it (`conn`, `connErr`, `notified`, `classes`).
`io` is what the last step wrote, dispatched and signalled.

| code | definitions |
|---|---|
| `_enqueue`, `StanzaToken.abort`, `stop` | `Enqueue`, `Abort`, `Stop` |
| `_start_prepare`, `_start_commit`, `start` | `Start`, `Commit` |
| `_run`, loop | `BrokerStart`, `GetActive`, `GetIncoming`, `BrokerWake`, `BrokerLocks` |
| `_process_outgoing`, `_send_stanza` | `SendFirst`, `SendNext`, `BatchDone`, `BatchRaises`, `SendStanza` |
| `_process_incoming`, `sm_ack` | `ProcessStanza`, `ProcessAck`, `ProcessRequest`, `ProcessRaises`, `AckUpTo`, `ToDrop` |
| `_run`, finally; `_done_handler` | `BrokerCancelled`, `Terminate`, `FinalLocked`, `FinalCancelled`, `Cleanup`, `DestroyState`, `SMOff` |
| `start_sm` and `handle_response` | `StartSM`, `RecvEnabled`, `RecvSMFailed`, `StartSMAnswered`, `StartSMDies`, `StartSMCancelled` |
| `resume_sm`, `_resume_sm`, `_start_rollback` | `ResumeSM`, `RecvResumed`, `RecvResumeFailed`, `Resumed`, `ResumeRaises`, `ResumeRefused`, `ResumeDies`, `Retransmit` |
| `stop_sm`, `close`, `wait_stop` | `StopSM`, `CloseStopped`, `CloseRunning`, `CloseRaises`, `CloseStops`, `CloseEnds`, `CloseFails`, `CloseFinish` |
| `_xmlstream_failed`, `recv_stanza`, soft limit | `OnClosing`, `Recv`, `RecvUnknown`, `SoftLimitTripped` |

`_done_handler` aborts or closes the XML stream after an error; both put the
connection into "closing", from where it may end in every way an aborted or a
closed one can. It is a done callback of the task and runs in the loop's next
iteration, before anything is read from a transport and before whoever awaits the
task; `Cleanup` has it in the step in which the task ends. What can still run in
between are tasks of the application that were ready, which enqueue, abort or
close, none of which reads or writes what `_done_handler` does; the client, for
which the delay matters, has `DoneHandler` as an action of its own.

`Connect` replaces the connection whenever no operation of the owner is under
way, wherever the last one is by then: `_start_rollback` has disconnected from it.
A bound: a stream whose task never ran, or was cancelled while it waited for the
lock, has not been rolled back, and is connected anew only when the last connection
has ended and has told so.

`SMSession` composes it with an XEP-0198 server over a sequence of connections.
Each direction is a FIFO channel; a lost connection loses a suffix of both. The
owner behaves like `Client._negotiate_stream`: resume if Stream Management is
on, otherwise start, bind and enable it. The server may send stanzas as soon as the
resource is bound. `stray` is history: it records that stanzas of before
`<enabled/>` ("early", `Early`) or of an earlier connection ("leftover",
`Undrained`) waited in the incoming queue when a session took them for its own.
`TokenContract` is the abstract
specification of what a token promises across all that (NEW, OPEN, DELIVERED,
RETRACTED for an aborted stanza, WITHHELD for a dropped or failed one, UNKNOWN
once there is no session to tell); `ImplementsContract` is the refinement. A
withheld stanza may become open again: the one whose batch ends with an exception
is put back into the queue (`FailedIsFinal` below).

`XMLStream` models `protocol.XMLStream` with `OrderedStateMachine`: one action
per transport callback, per call and per wake-up. `written` is the last thing
written, `raised` records that the state machine refused to go back. It
refines `Connection` (`ImplementsConnection`), the life of the simple connection
inside `StanzaStream`.

`Client` models `node.Client`: the main task with its loop of attempts
(`_main`), one attempt (`_main_impl`) and the negotiation, and the signals the
application gets. An action is what the main task does between two suspension
points, or one callback. Of the stanza stream it keeps whether the broker runs
(`run`), its session (`live`, `sm`), the exception it ends with (`exc`,
`outcome`) and whether `_done_handler` is still `due`; of the XML stream its
state, error and whether `on_closing` has fired. `captured` is the failure
future of the current `_main_impl`: `DoneHandler` sets whichever is current, as
`_stream_failure` does. `view` is the application's side: `_is_suspended`,
`established_event` and the signal emitted last.

| code | definitions |
|---|---|
| `start`, `stop`, `_on_main_done` | `StartClient`, `StopClient`, `MainEnds` |
| `_main` | `MainBegins`, `NextAttempt`, `Retry`, `OutOfAttempts`, `BackoffOver`, `DiscardAndRetry` |
| `_main_impl` | `Connected`, `ConnectFails`, `StreamUsable`, `StreamFailed`, `Leave`, `CancelledOutside`, `CancelledInside`, `CloseRaises` |
| `_negotiate_stream` and what it calls | `AfterResume`, `ResumeSucceeds`, `ResumeRefused`, `ResumeMiscounts`, `AfterBind`, `StartSM`, `StartSMRaises`, `AfterEnable`, `Proceed`, `AfterSession`, `AfterHandlers`, `HandlersElsewhere`, `HandlersReturn` |
| `StanzaStream.close`, `wait_stop` | `CloseBegins`, `CloseCannotBegin`, `CloseGoesOn`, `CloseReturns`, `CloseEnds`, `ClosingCancelled`, `StoppingCancelled` |
| `_stream_failure`, `_stream_destroyed` | `DoneHandler`, `Lost`, `SessionLost` |
| the stream and its broker | `StreamStarts`, `StreamStop`, `BrokerEnds`, `BrokerStopped`, `BrokerFails`, `BrokerDiesUncleanly` |
| connection and server | `LinkFails`, `LinkEof`, `LinkCloses`, `OnClosing`, `ResumeAnswered`, `EnableAnswered`, `IQAnswered` |

Two things about the order of events are taken from asyncio and the lock, not
from the client's code. `Settled`: resolving and connecting, sleeping and a
restart take more iterations of the loop than callbacks that are ready, so the
broker of the last attempt has ended and reported by then. `LockFree`: while
`start_sm` waits, the broker cannot end; and a main task woken by a response
runs before the broker that dispatched it goes on.

### The services

Each of these four has the stream, the peers and the servers between as its
environment, with what the modules above allow them: a stanza's token may be
done with or without an ack, a session may be lost, requests under way fail.

`Tracking` has one run of a message's life in `state` and `closed` (its
`MessageTracker`), `token`, and the tables it is in; `server`, `room`,
`delivered` and `errors` are what really happened to it.

| code | definitions |
|---|---|
| `MessageTracker._set_state`, `close`, `set_timeout` | `Allowed`, `SetState`, `Close` |
| `BasicTrackingService`: `send_tracked`, `_stanza_sent`, `_inbound_message_filter`, `_tracker_closed` | `SendChat`, `StanzaSent`, `HandleError`, `TrackerClosed` |
| `DeliveryReceiptsService`: `attach_tracker`, `_inbound_message_filter` | `SendChat`, `HandleReceipt` |
| `Room`: `send_message_tracked`, `_match_tracker`, `_tracker_closed` | `SendGrouped`, `MatchTracker`, `Match`, `RoomTrackerClosed` |
| `IMDispatcher.dispatch_message`, `Room._handle_message` | `Groupchat`, `Receive` |
| the stream's tokens | `Transmit`, `Acked`, `Unsent`, `Resumed`, `SessionLost` |

`IBB` has both ends of one session: `end[e]` is the `IBBTransport` (its
attributes, and where its write task is), `net[e]` what is under way to it.

| code | definitions |
|---|---|
| `IBBTransport._write_task_main` | `Loop`, `TakeBlock`, `BlockDone`, `Replied`, `GiveUp`, `Wake`, `Retry`, `MessageSent` |
| `write`, `close`, `abort`, `pause_reading`, `resume_reading` | `Write`, `Close`, `AbortSession`, `PauseReading`, `ResumeReading` |
| `_process_iq`, `_process_msg`, `_handle_close`, `_connection_closed` | `HandleData`, `HandleMessage`, `Accept`, `HandleClose`, `Cancel` |
| `IBBService`: `open_session`, `expect_session`, handlers | `OpenSession`, `OpenReturns`, `Expect`, `CancelExpected`, `OnDone`, `HandleOpen`, `HandlePeerClose` |
| `_on_stream_destroyed` | `StreamDestroyed`, `StreamLost` |

`MUC` has one room: `muc` is its entries in `_pending_mucs` and `_joined_mucs`
and the `Room`; `dispatch` and `cleanup` say which listeners are still connected;
`inside` is the truth.

| code | definitions |
|---|---|
| `MUCClient.join`, `_pending_join_done`, `_pending_on_enter`, `_muc_exited` | `Join`, `CancelJoin`, `JoinDone`, `Entered`, `Exited` |
| `_stream_established`, `_stream_destroyed` | `Established`, `Destroyed`, `PendingFails`, `JoinedLost` |
| `_inbound_presence_error`, `dispatch_presence` | `ErrorArrives`, `PresenceArrives` |
| `Room`: `_handle_self_presence`, `_suspend`, `_disconnect`, `_resume`, `_handle_message`, `leave` | `SelfPresence`, `Suspend`, `Disconnect`, `Resume`, `MessageArrives`, `Leave` |
| `_cycle`, `_monitor_exited` | `Cycle`, `PingAnswered` |
| `self_ping.MUCMonitor`, `MUCPinger` | `Alive`, `SoftLimit`, `Ping`, `PingAnswered` |

`Lookup` has three kinds of tasks that wait for each other: callers of
`query_info`, their requests, and the `lookup_info` that a `LazyTask` starts.

| code | definitions |
|---|---|
| `DiscoClient.query_info`, `_clear_cache` | `Ask`, `MakeRequest`, `Awaited`, `Owned`, `Forgotten`, `StreamDestroyed` |
| `EntityCapsService`: presence handler, `lookup_info`, `query_and_cache` | `Presence`, `Search`, `Begin`, `Lead`, `QueryAnswered`, `QueryFailed`, `Verify` |
| `Cache.lookup`, `create_query_future`, `_erase_future` | `AwaitFuture`, `Woken`, `EraseFuture` |
| `LRUDict` | `Has`, `Value`, `Used`, `Stored` |
| `LazyTask`, cancellation | `Started`, `Cancel`, `CancelLookup` |

The modules whose names end in `Proofs` hold the proofs, the `MC` modules, `Client`
and `MUC` are what TLC runs. Operators named `Mutant...` are plausible mistakes in
the definition below them; no action uses them.

## Runs

| run | instance | shows |
|---|---|---|
| `stream_two` | 2 tokens (symmetric), 1 inbound stanza, `W` = 3, incoming queue of 1, arbitrary peer; 2.4 million states | `AtMostOnePlace`, `ActiveIsQueued`, `SentIsTracked`, `ClosedIsClean`, `SettledIsFinal`, `AbortedIsNotSent` |
| `stream_live` | 1 token, `W` = 1, fair; 59 thousand states | `ActiveIsServed`, `StopTerminates`, `CloseReturns` |
| `session_out` | 2 outbound stanzas, one may be dropped by a filter or fail, 2 connections, `W` = 3, resumable and not, loss at any moment, fair; 82 thousand states | `HandledOnce`, `OutboundCounters`, `ImplementsContract`, `SentIsSettled` |
| `session_in` | 3 inbound stanzas besides the answer to the binding, 1 outbound, `W` = 3, 3 connections; 4.8 million states | `InboundCounters`, `NoInboundLoss`, `InboundInOrder` |
| `xmlstream_ends` | 2 error futures, hard limit set | `EndIsTold`, `ClosingCompletes`, `ImplementsConnection` |
| `client_keeps` | 1 initial attempt, three kinds of error, servers with and without SM and legacy sessions; 415 thousand states | `SessionIsKnown`, `FreshStart`, `WaitingIsUsable`, `NoticesFailure`, `NegotiationEnds`, `StopTakesEffect` |
| `ibb_session` | blocks of 1 byte, 3 bytes, `W` = 2, 1 retry, limits 1 and 2, IQ and message mode, 1 stream lost; 190 thousand states | `ReceivedInOrder`, `CleanEndDelivers`, `ClosingEnds`, `WriterResumes` |
| `muc_room` | with and without autorejoin, 3 streams lost, 1 removal, 1 refusal, 2 joins, cancelled joins; 109 thousand states | `ActiveIsKnown`, `Lifecycle`, `JoinIsAnswered`, `RemovalIsNoticed` |
| `tracking` | a chat and a groupchat message, two groupchat messages with one body, or one to a bare JID; 1 loss, 1 closed tracker, 1 untracked echo; 405 thousand states | `DeliveredIsTrue`, `MatchingSurvives`, `BrokerSurvives`, `ConfirmationIsNoticed` |
| `lookup` | 2 callers, 2 peers (honest or not), 2 hashes, cache of 1, 2 presences, 1 fault; 431 thousand states | `AnswerIsGenuine`, `LoopEnds`, `CallerIsAnswered` |

and two whose expected result is a violation of what a comment of the code says
(see below): `keeps_trying` and `nothing_lost`.

Bounds. Two tokens are enough for one to be fetched while another is queued,
sent or unacknowledged, and for order; the properties are about single tokens or
pairs. With an arbitrary peer every
counter value, also a wrong one, is tried. In
`SMSession` fewer than `W` stanzas are unsettled at a time (`Enqueue`) and fewer than
`W` are remembered by the server (`SendInbound`); with 2^32 for `W`, neither is
reached. In `session_in` the server sends `W` stanzas and the client's counter wraps
within a session; that the server's does so safely, for any number of stanzas, is
proved. `stream_live` uses `W` = 1, since no liveness property
depends on the counters' values. `MaxIncoming` bounds the incoming queue: the
future `ifut` and the queue hold two elements between them. `MaxConn` bounds
the connections: two are one loss and one resumption, three are a loss
during or after a resumption. `stream_two` leaves `io` out of the fingerprint
(VIEW): no action reads it. In `client_keeps`, `MaxAttempts` = 1 has the first
failure end the client, and any later one lead to a retry, which is all the
count decides (`attempts` stops counting at the bound). Connections and attempts
are not bounded. `Errors` has one kind per except clause of `_main` that a
connection can raise; "refused" and "other" come from the negotiation. The client
is not started again after it failed or after a `stop()` interrupted another
`stop()` (see below). `NoCounter` (-1) stands for a missing `h`.

In `ibb_session` three bytes in blocks of one make the sequence number wrap, a
buffer of two passes the high mark, and one retry tells a repeated block from a
given-up one; only the acceptor writes (the two directions share nothing but the
close), which it may do before the opener's request has returned, and only the opener
pauses reading. `SessionLimit` = 0 has every session expected or refused. In
`muc_room` three losses reach a loss during the rejoin after a loss, and a
further one; a second join reuses an address after a failure. One removal may
be a kick or silent. In `tracking`, two groupchat messages with the same body
compete for a reflection, and `Wanted` keeps unrelated messages apart: the tables
connect messages of one kind only. In `lookup` a cache of one entry evicts, two
presences of two peers share a hash, and one fault (a cancelled caller, a lost
stream or a failed query) is at each point of the exchange.

`CHECK_DEADLOCK FALSE` is set where the system may stop: `SMSession` when the
connections are used up, `XMLStream` when it is closed, `Client` when it failed,
`IBB` when both ends are over, `MUC` when its bounds are reached, `Tracking`
when every message is dealt with, `Lookup` when everyone is answered or the loop
is hung.

Fairness. asyncio's ready queue is first in, first out: a task or callback that
is ready runs (`WF` of the broker). `SF` is used for those that compete with
the broker's synchronous sections, during which they are not enabled in the
model although they stay in the loop's queue. Of the environment it is assumed
that an open connection answers a request or dies, that a closing one is gone
in the end (the peer's footer, EOF or the dead-time hard limit), and in
`SMSession` that channels deliver. `ClosingCompletes` relies on the peer
answering the footer or the limit being set: without a limit, `close_and_wait`
waits as long as the peer keeps silent. `SentIsSettled` is about a connection
that stays open from some moment on. In `Client`, ready parts of the main task,
the broker and its callbacks run, connecting ends (it has a timeout), the server
answers on an open connection, and a closing connection closes. Nothing is
assumed of handlers of `before_stream_established`, of failures or of the
application: `NegotiationEnds` holds because those handlers' IQ requests end, and
excludes (`Stranded`) the request whose answer went with a connection that may
yet be resumed. In the services: done callbacks and tasks that are ready run, the
broker takes what has arrived; a request is delivered or answered by a server in
place of the peer (`IBB`, `Lookup`); the room answers and the client
reconnects (`MUC`). Nothing is assumed of the application, of losses or, in
`Tracking`, of the peers. No fairness is given to single answers: which answer
comes is free.

## Where code and documentation disagree

Each of these has a definition that states what the source says. For two, those with
the gravest consequences, a run shows the violation (`NothingLost` in `nothing_lost`,
`KeepsTrying` in `keeps_trying`). The others are refuted by TLC likewise, when they are
put in the place of the properties of `stream_live`, `session_in`, `client_keeps` or
`muc_room`; the runs check the strongest we found to hold instead.

Of stanzas and of `close()`:

- `AbortedIsFinal`, `FailedIsFinal`: `StanzaState.ABORTED`, `DROPPED` and `FAILED`
  are each documented with "This is a final state." (stream.py:275, 282, 296). A queue
  that is given up makes the tokens in it DISCONNECTED, the aborted ones too
  (stream.py:918-920). And when `send_xso` raises at the end of a batch, `active_fut`
  still is the old, done future, and the `finally` block (stream.py:2054) puts its
  token back into the queue whatever its state, from where a failed or dropped one gets
  another. Hence `SettledIsFinal` is about the outcomes that the session decides on,
  and `AbortedIsNotSent` allows this one change of an aborted token.
- `CloseLeavesClean`: `close()` is documented to ignore errors and to leave the
  stream stopped and its session discarded (stream.py:1937-1946). It raises,
  cleaning nothing up, what the broker task ended with (stream.py:1969). It also raises,
  at once, if the acknowledgement cannot be sent or the XML stream has just gone down
  (`CloseRaises`). `CloseReturns` shows that there is no third way: once it waits, it
  ends clean, or with the broker's error.

Of received stanzas:

- `CountersSent`, `NothingLost`: a stanza received before `<enabled/>` can be
  processed after it, because `start_sm` holds the broker's lock, and is counted
  then (stream.py:2201). The client acknowledges one stanza too many, which the server
  forgets: after a resumption, documented as "without loss of data" (node.py:659), it
  is lost.
- `HandedInOrder`: if the connection is lost in the very loop iterations in which
  `<resumed/>` is acted on, the new broker task is cancelled before its first step
  (`BrokerNeverRuns`, stream.py:1874), so the incoming queue is not drained and
  `on_failure` is not emitted. What is left in it is processed on top of what the
  server sends again, against stream.py:2030-2037.

`InboundCounters`, `NoInboundLoss` and `InboundInOrder` show that these two ways are
the only ones: as long as the session has not strayed (`stray` = {}), acknowledgements,
losses, refusals and resumptions, at any moment, keep what is received complete and in
order.

Of the client and its services:

- `KeepsTrying`: an EOF without a stream footer stops the stream without an
  exception, so the client is never told and waits for ever, against node.py:1041.
  `NoticesFailure`
  shows that every end with an error is noticed.
- `StopEnds`: `stop()` is documented to make the main task terminate
  (node.py:1055-1057). If the connection fails before or while the task closes the
  stream, `close()` raises an error in place of the cancellation, and `_main`
  goes on to the next attempt. `StopTakesEffect` shows that a stop before the
  connection is made, or between attempts, ends the client, and that on a connection
  it does so too unless `close()` did not do its work: an error was raised, or the
  session is still there (`Unclosed`).
- `RejoinsAfterLoss`: if the stream is lost again before a rejoined room sent
  the self-presence, `_stream_destroyed` reads `muc.me.nick` of a room without
  `me`, raises and is disconnected; that room, those after it in the loop and
  every room after the next loss stay suspended, in spite of autorejoin
  (muc/service.py:2305).

Noticed on the way, without a definition of their own. In the stream and the client:

- Resumption retransmits in reverse order.
- A `StreamError` during binding makes the client retry before `_done_handler`
  has reported it; the report hits the failure future of the next attempt, which
  is raised as soon as that one has succeeded, and the handler's `stop_sm` on
  the running stream ends the client with a `RuntimeError`.
- If `before_stream_established` fails once Stream Management is on, the session
  is resumed by the next attempt and `on_stream_established` is not emitted for
  it.
- `XMLStream.abort` is documented to leave the stream CLOSED, which happens only
  with `connection_lost`. The `shutdown_timeout` of the documentation is not
  used. Data after the stream footer in one read makes `data_received` raise
  (`RxStreamFooter(TRUE)`).
- `stop()` promises that nothing is sent after it; called from a token callback
  within the sending loop, the rest of the batch is still sent, hence the
  condition in `StoppedIsQuiet`.
- `XMLStream.close()` is documented as a no-op while closing;
  it raises `ValueError` after the peer's footer or EOF (`Close` in `XMLStream`).
- A second `stop()` of the client during the first, or a failure, may leave `established_event` set, because the
  signals are disconnected before the broker has ended (`NotFailed` in
  `SessionIsKnown`); `on_stream_resumed` is emitted after any reconnect of a
  suspended stream, also of a new session; the requests of legacy sessions and
  of `before_stream_established` may wait for ever (`Stranded`); after a
  resumption with a wrong count the old session's state stays on and `start_sm`
  raises (`ResumeMiscounts`); and the XML stream is not closed when negotiation
  fails or `stop()` arrives before the stanza stream runs on it.

In the services:

- Tracking. A receipt for a closed tracker makes the inbound filter raise
  `RuntimeError` and ends the broker (`BrokerSurvives` excludes just that),
  although closing is recommended and late receipts are documented as dropped.
  Receipts for a message to a bare JID never match (`Bare`). `_tracker_closed`
  of the room drops all trackers of the same body and leaves the metadata, so a
  later match raises `KeyError` and the message listener is disconnected
  (`MatchingSurvives`); `del trackers[0]` removes the first tracker of the body
  even if another was matched by its id; and an untracked echo may confirm
  another message of the same body (`KnownById`). "Delivered to server" is
  documented as acknowledged, but set without Stream Management as well.
- Bytestreams. With a low limit of 0 `resume_writing` is never called
  (`LimitsAssumption`). After a lost message a session in message mode goes on
  silently, and a message 65536 later is accepted again, hence the condition of
  `ReceivedInOrder`. `abort()` does not tell the peer. A future of
  `expect_session` that is cancelled just before the request arrives leaves a
  session nobody has; those that wait when the stream is destroyed are never
  resolved.
- Room. A refused rejoin (whose future is None) raises in
  `_inbound_presence_error`, and presence is dispatched no more (`dispatch`,
  excepted in `JoinIsAnswered`). A join cancelled just as the room answers leaves
  an active room that is in no table (`NotCancelled`). A stream lost during
  `_cycle` leaves the room suspended.
- Lookups. A query that fails or is cancelled leaves its hash's future pending
  for ever, and with it everyone who waits, also with a shared cache
  (`Orphaned`). A lookup that finds a future with a mismatch that is not erased
  yet loops without yielding (`hung`). Cancelling a caller that awaits another's
  request cancels that request and is itself swallowed; its `timeout` is
  ignored; a `LazyTask` that failed stays cached.

## Proofs

All are for any value of the constants, under the assumptions that the modules
name beside them (sizes and moduli are positive, low limits are below high ones,
bounds are natural numbers).

`IInv` in `StanzaStreamProofs` is inductive: `TypeOK` alone is not, since the
handlers take heads of futures and counters whose presence follows from where
the broker is. `ControlInv` says so, and that the lock, `resume_sm` and
`close()` exclude each other as the code has it. `PlaceInv` ties states to
places: what is queued has no verdict of the session yet, what is unacked is
SENT, nothing is in two places. It has to allow FAILED and DROPPED tokens in the
queue (see `FailedIsFinal` above). `ClosedInv` adds what `closed`
implies. The proof has one step per action and, for the actions that end the
broker, lemmas about `Cleanup` and `Terminate`; the module starts with what is
needed about `ToSet`, `Append`, `Tail`, `\o`, `Reverse` and splitting.
`IInv` implies the six invariants. `Lifecycle`, the relation of a token's state
to its next, follows for every step and gives `SettledIsFinal` and
`AbortedIsNotSent`; `Senders` (only `SendFirst` and `SendNext` send) gives
`EnablingIsQuiet` and `StoppedIsQuiet`.

`SMSessionProofs` proves the session of client and server, for any finite set of
stanzas to send and any numbers to receive (`SessionAssumption`), any modulus, any
number of connections, and any loss. `SessionInv` has `IInv`,
so that the theorems about `StanzaStream` hold in every session
(`SessionOfAStream`), and what ties the stream to the connection and the server:

- `ClientControl`, `Binding`, `Enabling`, `Resuming`: the requests of the owner and
  their answers, of which at most one is under way, and what else may be under way
  with it (nothing behind `<enable/>`, nothing but the answer beside `<resume/>`);
- `Transmission`: a stanza is in one place of the queue, the channel and the
  server's list, and what the server has handled was sent;
- `Outbound`: the server's counter covers exactly those unacked stanzas that it has
  handled (`Exact`), also after its answer was fetched and the next resumption
  began; the channel has them in the order of the unacked list;
- `Acks`: acknowledgements under way are in order and none is newer than the
  server's counter, and none outlives its session.

`Bounded` adds that the model's bounds hold, so that a difference of counters modulo
`W` is the difference.

`HandledOnce`, `OutboundCounters` and `ImplementsContract` follow for every session,
however its connections end. What is received has an invariant of its own, `InboundInv`
(`InOrder`, `InControl`, `Asking`, `Establishing`, `Counting`), which every session
has until it strays (`InboundInductive`: `stray` = {} implies it), and from which
`InboundCounters`, `NoInboundLoss` and `InboundInOrder` follow without a
hypothesis about the server or about when connections end. `Establishing` says that
the server has counted what follows its `<enabled/>` and nothing else; it is why only
what was received before can be counted wrongly. `Counting` is the heart: what the
server remembers beyond the client's counter (`Remaining`) is what is yet to come on
the connection, and everything else it ever counted has been handed on. `InControl` and
`Asking` say that a stream which lost its connection has an empty queue while it is
being resumed, which is where an undrained one breaks it.

The proof does not go action by action: `StreamStep` and the lemmas under it show that
each step of the stream's dozens is, for the session, one of few `ClientEffect`s (idle,
halt, transmit, take a stanza, an ack or a request, ...), and each part of the
invariant is proved for these, the server's steps and a change of connection.
Sequences are reasoned about by their elements and by `Before`, the order of two
of them, which makes a step at either end of a channel a simple fact about all
pairs. The refinement (`SessionImplementsContract`) maps every step to one of the
contract: `PromiseStep`, which has `GiveUp` for the end of a session and `Confirm` for a batch
of acks.

`XMLStreamProofs` proves `OpenIsWritable`, `FooterIsLast` and
`ImplementsConnection` from `XInv`, which ties state, writer, transport and
closing future together.

`ClientProofs` proves the four invariants of `Client` for any bound on the
attempts (`AttemptsAssumption`), any subset of the errors and any offers
(`ErrorsAssumption`, `OffersAssumption`). `SessionIsKnown` alone is not
inductive: whether a broker's end is heard depends on the main task being inside
`_main`, and whether the event is still set on which session was negotiated.
`MainInv` states what the main task relies on where it is, `BrokerInv` that a
running broker has a session and has reported nothing yet, `SessionInv` that a
session lost with its broker was announced. The lemmas `GivesUp`, `Leaves`,
`CloseRaising`, `CloseEnding` and `BrokerEnding` are for what several actions
share; `IInvStep` has one step per action and under it one per part of `IInv`.

`TrackingProofs` proves `DeliveredIsTrue`, `MatchingSurvives`, `BrokerSurvives` and
`AbortedIsUndelivered` for any messages, bodies and bounds. None is inductive:
that no order of events makes `HandleError` raise needs to be known from where
the token is. `FatesInv` relates a tracker's state and its token to what reached
the server, `ChannelsInv` says that every error, receipt and reflection under way
was caused by a message that did, `OnceInv` that a groupchat message is in one
place between the queue and its reflection, and `ListedInv` that, while ids
identify messages, a message is found by its id until it was reflected.
`MatchingSurvives` needs to know why `Room._match_tracker`, which removes the first
tracker of a body's list whichever tracker it found, does not run out of entries,
and there are three reasons. If the room rewrites the ids, only the first of a list
is ever found and the tables hold the same trackers (`BodiesInv`). If the ids
suffice, another tracker may be removed, but a list is as long as there are
trackers of its body (`CountsInv`). And if ids are kept but untracked messages
arrive, the tables agree as long as everything sent is reflected: reflections then
come in the order of the lists, so the tracker found is the first (`QueueInv`, with
`Ahead(s, t)` for two messages on their way through queue, room and stream).
`AnsweredInv` says what a message was answered with once it is not under way any
more; it is how a failure is traced to a message that was not reflected.

`IBBProofs` proves `ReceivedInOrder` and `CleanEndDelivers` for any block size,
limits, modulus, number of retries and number of bytes, with both ends writing.
Its invariant is stated once for a direction: the sending transport, the receiving
one, the channel with the blocks and the one with the replies. A step of one end
is then a change of the sender in one direction and of the receiver in the other,
and what it cannot disturb follows from a lemma about either (`DirectionNarrows`
for whatever is lost or taken, `DirectionSame`, `SenderStops`, `SenderExtends`,
`Sends`, `Closes`, `TakesIQ`, `TakesMessage`). `Requests` says that one request is
under way at a time and none while the task awaits none; `Blocks`, that an IQ under
way is the next block and its reply tells what the peer has; `Messages`, that the
messages under way are in order and that one with the number the receiver expects
starts where its data ends, although any may be missing, as long as the
numbers have not wrapped. `OpeningInv` says what may be under way before both
ends have a transport.

`MUCProofs` proves `ActiveIsKnown` and the action property `Lifecycle`. The first
needs to know which entry a room has while its join is pending, cancelled or
answered, and that the listeners which would raise find it so (`Coherent`, `Kept`).
The second has an invariant of its own, `LifeInv`: `Story` says for each signal what
the room's flags, entries and monitor are after it, and the rest why the steps which
could break the order do not happen. A room that waits for its first join and whose
monitor already pings (presence of its previous session started it) would be resumed
without having been entered if a ping were answered with "gone" first; `JoinIsUnderWay`
and `PingIsLater` say that its join, or the answer to it, is ahead of every ping. A
room suspended for good, because cleaning up raised, is not entered again, as no
join is under way (`NotRejoining`). `LifeStep` has one lemma per action.

`LookupProofs` proves `AnswerIsGenuine` and `LoopEnds` for any peers, callers,
hashes and any size of the cache. An answer reaches a caller through two caches and
any chain of lookups that wait for each other, so the invariant says what each of
them may hold: `EntryFor`, that a cached request or lookup is one of the peer it is
cached for; `KnownGood`, that a known hash was announced by an honest peer;
`PendingGood`, that a future found for a hash was created for it, and is to be erased
if it is done; `CallerGood` and `LookupGood`, what may be awaited and what was given.
All are stated of the tables they need as parameters, so that what a step leaves
alone follows from lemmas about any tables that only grow (`Grows`, `Settled`).

Proved and no longer listed among the runs' properties, because the theorem says
more: the type invariants of these modules, `UnackedIsSent`, `EnablingIsQuiet`,
`StoppedIsQuiet`, `OpenIsWritable`, `FooterIsLast`, `AbortedIsUndelivered`.

Only model-checked: all liveness (TLAPS does not reason about fairness and
ENABLED here). Every safety property of the passing runs is proved.

## Not modelled

Dispatch of stanzas to handlers and the IQ response map; exceptions out of
handlers and callbacks other than those of the modelled services;
`flush_incoming`; STARTTLS, feature futures and parsing; the round-trip timers;
how `Client` finds and tries servers (`connect_xmlstream` succeeds or raises),
its services, the values of the backoff time. Of the modelled services: a room's
other occupants, subject, roles and configuration; a second opening of the same
bytestream session; `query_items`, our own entity capabilities and the databases
on disk. The other services are a request and its answer each. The XSO
framework, forms, structs and stanza classes, a third of the code, are
declarative data binding without state over time; connecting, TLS and SASL belong
to external libraries. `PROJECT.json` lists all parts with reasons.

## Plan

1. (done) `StanzaStream`, `Connection`, `XMLStream`, `SMSession`, `Client`, and
   their proofs.
2. (done) `IBB`, `MUC`, `Tracking` and `Lookup`, and their proofs.
3. (done) The inductive invariant of `SMSession`, with its refinement of
   `TokenContract`.
4. That `StanzaStream` and `XMLStream` refine the stream and link of `Client`, and
   that `StanzaStream`'s tokens refine those of `Tracking`.
5. Roster and presence mirrors, ad-hoc command sessions, `TaskPool`; the
   dispatcher's lookup as a pure algorithm against a reference definition.
