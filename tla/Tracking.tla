------------------------------ MODULE Tracking ------------------------------
(***************************************************************************)
(* Message tracking: the MessageTracker of aioxmpp.tracking and the three  *)
(* services that drive it at once. BasicTrackingService follows the stanza *)
(* token and takes error replies, DeliveryReceiptsService (XEP-0184) takes *)
(* receipts, and the Room of aioxmpp.muc recognises a groupchat message    *)
(* when the room reflects it, by its id or else by its body.               *)
(*                                                                         *)
(* An action is a call of the application, the handling of one stanza by   *)
(* the filters and listeners it passes, a done callback, or a step of the  *)
(* stream or of the peers. An inbound filter that raises ends the broker;  *)
(* a signal listener that raises is disconnected. SEEN_BY_RECIPIENT is     *)
(* left out: nothing here sets it.                                         *)
(***************************************************************************)
EXTENDS Naturals, Sequences, FiniteSets

CONSTANTS
    Chats,       \* messages sent to a contact, with a receipt requested
    Bare,        \* those of them that are addressed to a bare JID
    Grouped,     \* messages sent to one room, in which we are an occupant
    Body,        \* their bodies: a function on Grouped
    Wanted,      \* the sets of messages the application may send, all in one run
    MaxEchoes,   \* bound: own groupchat messages that arrive without being tracked
    MaxLost,     \* bound: sessions and streams lost
    MaxClosed    \* bound: trackers the application closes

ASSUME MessagesAssumption == 
    Chats \cap Grouped = {} /\ Bare \subseteq Chats /\ Wanted \subseteq SUBSET (Chats \cup Grouped)
ASSUME TrackingBoundsAssumption == MaxEchoes \in Nat /\ MaxLost \in Nat /\ MaxClosed \in Nat

Messages == Chats \cup Grouped
Bodies == {Body[g] : g \in Grouped}

VARIABLES
    state, closed,   \* the state of each message's tracker, and the closed ones
    token,      \* the stanza token of each message (see TypeOK)
    order,      \* the messages in the order they were queued
    basic,      \* BasicTrackingService._trackers
    receipts,   \* DeliveryReceiptsService._bare_jid_maps
    byId, byBody, meta,   \* the room's three tables of trackers
    wanted,     \* the messages the application sends
    sm,         \* the stream is managed (XEP-0198)
    rewrites,   \* the room gives the messages it reflects new ids
    broker,     \* the broker task runs
    dispatch,   \* IMDispatcher.dispatch_message is connected to the stream
    server,     \* messages that reached the client's server
    room,       \* messages that reached the room, in order
    inbound,    \* stanzas on their way to the client
    delivered,  \* messages the recipient confirmed: receipts and reflections sent
    errors,     \* messages answered with an error
    echoes, lost  \* what the bounds count

tables == <<basic, receipts, byId, byBody, meta>>
peers == <<server, room, delivered, errors, echoes>>
fixed == <<wanted, sm, rewrites>>
trackers == <<state, closed>>
vars == <<trackers, token, order, tables, fixed, broker, dispatch, peers, inbound, lost>>

TypeOK ==
    /\ state \in [Messages -> {"transit", "aborted", "error", "server", "recipient"}]
    /\ closed \subseteq Messages
    \* "ok" and "failed": the future is done and its callback due; "told": it has run
    /\ token \in [Messages -> {"none", "active", "sent", "ok", "failed", "told"}]
    /\ order \in Seq(Messages)
    /\ basic \subseteq Messages /\ receipts \subseteq Chats
    /\ byId \subseteq Grouped /\ meta \subseteq Grouped /\ byBody \in [Bodies -> Seq(Grouped)]
    /\ wanted \in Wanted /\ sm \in BOOLEAN /\ rewrites \in BOOLEAN
    /\ broker \in BOOLEAN /\ dispatch \in BOOLEAN
    /\ server \subseteq Messages /\ delivered \subseteq Messages /\ errors \subseteq Messages
    /\ room \in Seq(Grouped) /\ echoes \in 0..MaxEchoes /\ lost \in 0..MaxLost
    /\ inbound \in Seq([kind : {"error", "receipt"}, of : Messages]
                       \cup [kind : {"reflection"}, of : Grouped] \cup [kind : {"echo"}, of : Bodies])

Init ==
    /\ state = [m \in Messages |-> "transit"] /\ closed = {}
    /\ token = [m \in Messages |-> "none"] /\ order = <<>>
    /\ basic = {} /\ receipts = {} /\ byId = {} /\ meta = {}
    /\ byBody = [b \in Bodies |-> <<>>]
    /\ wanted \in Wanted /\ sm \in BOOLEAN /\ rewrites \in BOOLEAN
    /\ broker = TRUE /\ dispatch = TRUE
    /\ server = {} /\ room = <<>> /\ inbound = <<>> /\ delivered = {} /\ errors = {}
    /\ echoes = 0 /\ lost = 0

-----------------------------------------------------------------------------
(* MessageTracker._set_state *)

\* The transitions that are not answered with a ValueError.
Allowed(old, new) ==
    /\ old # "aborted" /\ new # "transit"
    /\ ~(old = "error" /\ new \in {"server", "aborted"})
    /\ ~(old = "recipient" /\ new = "server")

\* For callers that catch ValueError; a closed tracker raises RuntimeError.
SetState(m, new) ==
    /\ state' = [state EXCEPT ![m] = IF Allowed(@, new) THEN new ELSE @]
    /\ UNCHANGED closed

-----------------------------------------------------------------------------
(* The application *)

\* DeliveryReceiptsService.attach_tracker and BasicTrackingService.send_tracked.
SendChat(m) ==
    /\ m \in wanted /\ token[m] = "none" /\ token' = [token EXCEPT ![m] = "active"]
    /\ order' = Append(order, m)
    /\ receipts' = receipts \cup {m} /\ basic' = basic \cup {m}
    /\ UNCHANGED <<trackers, byId, byBody, meta, fixed, broker, dispatch, peers, inbound, lost>>

\* Room.send_message_tracked.
SendGrouped(m) ==
    /\ m \in wanted /\ token[m] = "none" /\ token' = [token EXCEPT ![m] = "active"]
    /\ order' = Append(order, m)
    /\ byId' = byId \cup {m} /\ meta' = meta \cup {m}
    /\ byBody' = [byBody EXCEPT ![Body[m]] = Append(@, m)]
    /\ basic' = basic \cup {m}
    /\ UNCHANGED <<trackers, receipts, fixed, broker, dispatch, peers, inbound, lost>>

\* Room._tracker_closed: the list of the body goes with everything in it, and
\* the entry in _tracking_metadata stays.
RoomTrackerClosed(m) ==
    IF m \in meta
    THEN byId' = byId \ {m} /\ byBody' = [byBody EXCEPT ![Body[m]] = <<>>]
    ELSE UNCHANGED <<byId, byBody>>

\* The operators named Mutant... are plausible mistakes in the definition that
\* follows them. No action uses them; each must break one of the properties.

MutantTrackerClosed(m) ==   \* BasicTrackingService keeps the closed tracker
    /\ UNCHANGED basic
    /\ IF m \in Grouped THEN RoomTrackerClosed(m) ELSE UNCHANGED <<byId, byBody>>

\* The listeners of on_closed. The receipts service has none.
TrackerClosed(m) ==
    /\ basic' = basic \ {m}
    /\ IF m \in Grouped THEN RoomTrackerClosed(m) ELSE UNCHANGED <<byId, byBody>>

\* MessageTracker.close, by the application or by set_timeout.
Close(m) ==
    /\ token[m] # "none" /\ m \notin closed /\ Cardinality(closed) < MaxClosed
    /\ closed' = closed \cup {m}
    /\ TrackerClosed(m)
    /\ UNCHANGED <<state, token, order, receipts, meta, fixed, broker, dispatch, peers, inbound, lost>>

-----------------------------------------------------------------------------
(* The stream, as the tokens show it (see StanzaStream) *)

\* The queue is first in, first out, also for what is queued again.
IsNext(m) ==
    /\ token[m] = "active"
    /\ \A i, j \in DOMAIN order : (i < j /\ order[j] = m) => token[order[i]] # "active"

\* The message is written. Unmanaged, the token is done with that; whether it
\* reaches the server is another matter.
Transmit(m, arrives) ==
    /\ broker /\ IsNext(m)
    /\ token' = [token EXCEPT ![m] = IF sm THEN "sent" ELSE "ok"]
    /\ server' = IF arrives THEN server \cup {m} ELSE server
    /\ room' = IF arrives /\ m \in Grouped THEN Append(room, m) ELSE room
    /\ UNCHANGED <<trackers, order, tables, fixed, broker, dispatch, inbound, delivered, errors, echoes, lost>>

Acked(m) ==
    /\ broker /\ token[m] = "sent" /\ m \in server
    /\ token' = [token EXCEPT ![m] = "ok"]
    /\ UNCHANGED <<trackers, order, tables, fixed, broker, dispatch, peers, inbound, lost>>

\* Aborted by the application, dropped by a filter, or it cannot be serialised.
Unsent(m) ==
    /\ token[m] = "active" /\ token' = [token EXCEPT ![m] = "failed"]
    /\ UNCHANGED <<trackers, order, tables, fixed, broker, dispatch, peers, inbound, lost>>

\* The transport is lost and the session resumed: what the server did not count
\* is queued again.
Resumed ==
    /\ broker /\ sm /\ lost < MaxLost /\ lost' = lost + 1
    /\ token' = [m \in Messages |-> IF token[m] # "sent" THEN token[m]
                                     ELSE IF m \in server THEN "ok" ELSE "active"]
    /\ UNCHANGED <<trackers, order, tables, fixed, broker, dispatch, peers, inbound>>

\* The session is lost. If the server says what it counted, the rest failed; if
\* it does not, all that was sent passes for sent without stream management.
SessionLost(counted) ==
    /\ broker /\ lost < MaxLost /\ lost' = lost + 1
    /\ token' = [m \in Messages |->
            IF token[m] = "active" \/ (token[m] = "sent" /\ counted /\ m \notin server) THEN "failed"
            ELSE IF token[m] = "sent" THEN "ok" ELSE token[m]]
    /\ inbound' = <<>>
    /\ room' = <<>>
    /\ UNCHANGED <<trackers, order, tables, fixed, broker, dispatch, server, delivered, errors, echoes>>

\* BasicTrackingService._stanza_sent, the done callback of the token's future. A
\* closed tracker makes it raise, which the event loop logs.
StanzaSent(m) ==
    /\ token[m] \in {"ok", "failed"} /\ token' = [token EXCEPT ![m] = "told"]
    /\ IF m \in closed THEN UNCHANGED trackers
       ELSE SetState(m, IF token[m] = "ok" THEN "server" ELSE "aborted")
    /\ UNCHANGED <<order, tables, fixed, broker, dispatch, peers, inbound, lost>>

-----------------------------------------------------------------------------
(* The peers: the contact, the room, and the servers between *)

Stanza(kind, m) == [kind |-> kind, of |-> m]

SendReceipt(m) ==
    /\ m \in server \ delivered
    /\ delivered' = delivered \cup {m} /\ inbound' = Append(inbound, Stanza("receipt", m))
    /\ UNCHANGED <<trackers, token, order, tables, fixed, broker, dispatch, server, room, errors, echoes, lost>>

SendError(m) ==
    /\ m \in server \ errors
    /\ errors' = errors \cup {m} /\ inbound' = Append(inbound, Stanza("error", m))
    /\ UNCHANGED <<trackers, token, order, tables, fixed, broker, dispatch, server, room, delivered, echoes, lost>>

\* The room takes the next message, and reflects or refuses it.
RoomTakes ==
    /\ room # <<>> /\ room' = Tail(room)
    /\ \/ /\ delivered' = delivered \cup {Head(room)}
          /\ inbound' = Append(inbound, Stanza("reflection", Head(room)))
          /\ UNCHANGED errors
       \/ /\ errors' = errors \cup {Head(room)}
          /\ inbound' = Append(inbound, Stanza("error", Head(room)))
          /\ UNCHANGED delivered
    /\ UNCHANGED <<trackers, token, order, tables, fixed, broker, dispatch, server, echoes, lost>>

\* A message from our own occupant with an id that is not tracked: sent with
\* send_message, from another device, or replayed as history.
Echo(b) ==
    /\ echoes < MaxEchoes /\ echoes' = echoes + 1
    /\ inbound' = Append(inbound, Stanza("echo", b))
    /\ UNCHANGED <<trackers, token, order, tables, fixed, broker, dispatch, server, room, delivered, errors, lost>>

-----------------------------------------------------------------------------
(* Inbound stanzas *)

\* BasicTrackingService._inbound_message_filter: ERROR does not override
\* DELIVERED_TO_RECIPIENT, and nothing is caught.
HandleError(m) ==
    /\ basic' = basic \ {m}
    /\ IF m \notin basic \/ state[m] = "recipient" THEN UNCHANGED <<trackers, broker>>
       ELSE IF m \in closed \/ ~Allowed(state[m], "error") THEN broker' = FALSE /\ UNCHANGED trackers
       ELSE SetState(m, "error") /\ UNCHANGED broker
    /\ UNCHANGED <<receipts, byId, byBody, meta, dispatch>>

MutantHandleReceipt(m) ==   \* an error reply ends the wait for the receipt
    IF m \in receipts \ (Bare \cup errors)
    THEN /\ receipts' = receipts \ {m}
         /\ SetState(m, "recipient")
         /\ UNCHANGED <<basic, byId, byBody, meta, broker, dispatch>>
    ELSE UNCHANGED <<trackers, tables, broker, dispatch>>

\* DeliveryReceiptsService._inbound_message_filter. The sender of the receipt is
\* compared with the address the message was sent to, and only ValueError is
\* caught.
HandleReceipt(m) ==
    IF m \in receipts \ Bare
    THEN /\ receipts' = receipts \ {m}
         /\ IF m \in closed
            THEN broker' = FALSE /\ UNCHANGED trackers
            ELSE SetState(m, "recipient") /\ UNCHANGED broker
         /\ UNCHANGED <<basic, byId, byBody, meta, dispatch>>
    ELSE UNCHANGED <<trackers, tables, broker, dispatch>>

\* What Room._match_tracker does once it found a tracker. Each table it looks up
\* raises KeyError when the entry is gone, and the first of the body's list is
\* removed, whichever tracker was found.
Match(t) ==
    /\ meta' = meta \ {t}
    /\ byId' = IF t \in meta THEN byId \ {t} ELSE byId
    /\ IF t \in meta /\ t \in byId /\ byBody[Body[t]] # <<>>
       THEN /\ byBody' = [byBody EXCEPT ![Body[t]] = Tail(@)]
            /\ IF t \in closed THEN UNCHANGED trackers ELSE SetState(t, "recipient")
            /\ dispatch' = (dispatch /\ t \notin closed)
       ELSE dispatch' = FALSE /\ UNCHANGED <<byBody, trackers>>
    /\ UNCHANGED <<basic, receipts, broker>>

MutantMatchTracker(ids, b) ==   \* prefers the body to the id
    IF byBody[b] # <<>> THEN Match(Head(byBody[b]))
    ELSE \/ \E t \in ids : t \in byId /\ Match(t)
         \/ (ids \cap byId = {}) /\ UNCHANGED <<trackers, tables, broker, dispatch>>

\* Room._match_tracker, for a groupchat message of our own occupant with body b
\* whose id is that of the messages in ids (one or none).
MatchTracker(ids, b) ==
    CASE ids \cap byId # {} -> \E t \in ids : Match(t)
      [] ids \cap byId = {} /\ byBody[b] # <<>> -> Match(Head(byBody[b]))
      [] OTHER -> UNCHANGED <<trackers, tables, broker, dispatch>>

MutantGroupchat(ids, b) ==   \* leaves the first of the body's list where it is
    LET found == IF ids \cap byId # {} THEN ids
                 ELSE IF byBody[b] # <<>> THEN {Head(byBody[b])} ELSE {}
    IN /\ meta' = meta \ found /\ byId' = byId \ found
       /\ dispatch' = (dispatch /\ found \subseteq meta)
       /\ state' = [m \in Messages |-> IF m \in found /\ Allowed(state[m], "recipient")
                                        THEN "recipient" ELSE state[m]]
       /\ UNCHANGED closed
       /\ UNCHANGED <<basic, receipts, byBody, broker>>

\* dispatch_message, if it is still connected, and Room._handle_message.
Groupchat(ids, b) ==
    IF dispatch THEN MatchTracker(ids, b)
    ELSE UNCHANGED <<trackers, tables, broker, dispatch>>

\* The broker hands the next stanza to the filters and to on_message_received.
Receive ==
    /\ broker /\ inbound # <<>> /\ inbound' = Tail(inbound)
    /\ LET s == Head(inbound) IN
        CASE s.kind = "error" -> HandleError(s.of)
          [] s.kind = "receipt" -> HandleReceipt(s.of)
          [] s.kind = "reflection" -> Groupchat(IF rewrites THEN {} ELSE {s.of}, Body[s.of])
          [] OTHER -> Groupchat({}, s.of)
    /\ UNCHANGED <<token, order, fixed, peers, lost>>

-----------------------------------------------------------------------------
(* Specification *)

Next ==
    \/ \E m \in Chats : SendChat(m) \/ SendReceipt(m) \/ SendError(m)
    \/ \E m \in Grouped : SendGrouped(m)
    \/ \E m \in Messages :
        \/ Close(m) \/ Acked(m) \/ Unsent(m) \/ StanzaSent(m)
        \/ \E arrives \in BOOLEAN : Transmit(m, arrives)
    \/ \E counted \in BOOLEAN : SessionLost(counted)
    \/ \E b \in Bodies : Echo(b)
    \/ Resumed \/ RoomTakes \/ Receive

\* The event loop runs what is due, and the broker what has arrived.
Spec == Init /\ [][Next]_vars /\ WF_vars(Receive) /\ \A m \in Messages : WF_vars(StanzaSent(m))

-----------------------------------------------------------------------------
(* Properties *)

\* Nothing arrives from our own occupant that only its body can identify.
KnownById == ~rewrites /\ echoes = 0 /\ closed \cap Grouped = {}

\* A tracker says that the message was delivered only if it was: the contact sent a
\* receipt, or the room reflected it. For the room this takes that it keeps the ids,
\* that no message of ours arrives that is not tracked, and that no tracker was
\* closed; otherwise the body decides. (Room._match_tracker and its fallback.)
DeliveredIsTrue ==
    \A m \in Messages :
        (state[m] = "recipient" /\ (m \in Chats \/ KnownById)) => m \in delivered

\* The tables of the room agree well enough that matching never fails, and the
\* listener that dispatches all messages stays connected, unless a tracker of the room
\* was closed, or an untracked message arrived and a tracked one was not reflected, or
\* its reflection was lost.
MatchingSurvives ==
    ~dispatch => \/ closed \cap Grouped # {}
                 \/ echoes > 0 /\ \E m \in Grouped : token[m] # "none" /\ (m \notin delivered \/ lost > 0)

\* The inbound filters of the tracking services end the broker in one case only: a
\* receipt for a tracker that was closed. In particular no order of receipt, error
\* reply and acknowledgement does.
BrokerSurvives == ~broker => closed \cap Chats # {}

\* A message the server or a filter did not take is never answered: an aborted tracker
\* is that of a message that did not reach the server, and stays one.
AbortedIsUndelivered == \A m \in Messages : state[m] = "aborted" => m \notin server

\* What the recipient confirmed is noticed (a receipt only if the message was addressed
\* to the full JID that sends it): the tracker says so in the end, unless it was
\* closed, the confirmation got lost with the stream, or matching had failed before.
ConfirmationIsNoticed ==
    \A m \in Messages \ Bare :
        (m \in delivered /\ (m \in Chats \/ ~rewrites))
            ~> \/ state[m] = "recipient" \/ m \in closed \/ lost > 0
               \/ ~broker \/ (m \in Grouped /\ ~KnownById)
=============================================================================
