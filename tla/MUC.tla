--------------------------------- MODULE MUC ---------------------------------
(***************************************************************************)
(* A multi-user chat room as a client sees it: aioxmpp.muc's MUCClient and *)
(* Room for one room address, with the self-ping monitor, the signals that *)
(* connect them to the stream, and the room's service (the environment).   *)
(*                                                                         *)
(* An action is a signal handler, a done callback, a step of the pinger or *)
(* a call of the application. Signals remove a listener that raises        *)
(* (AdHocSignal.fire); which listeners are still connected is state. The   *)
(* stream is up or not, and what is under way is lost with it. Not         *)
(* modelled: other occupants, message tracking (see Tracking), and what    *)
(* changes neither membership nor who is told of it.                       *)
(***************************************************************************)
EXTENDS Naturals, Sequences

CONSTANTS
    Autorejoin,   \* the values of muc_autorejoin to consider
    MaxLost,      \* bound: streams lost
    MaxRemovals,  \* bound: how often the service removes the occupant
    MaxRefusals,  \* bound: how often the service refuses a join
    MaxJoins,     \* bound: rooms created
    MayCancel     \* the application may cancel the future of join()

ASSUME AutorejoinAssumption == Autorejoin \subseteq BOOLEAN
ASSUME BoundsAssumption ==
    /\ MaxLost \in Nat /\ MaxRemovals \in Nat /\ MaxRefusals \in Nat /\ MaxJoins \in Nat
ASSUME MayCancelAssumption == MayCancel \in BOOLEAN

VARIABLES
    muc,       \* the service's entries for the address, and the Room (see Room)
    auto,      \* muc_autorejoin
    dispatch,  \* IMDispatcher.dispatch_presence is connected to the stream
    cleanup,   \* MUCClient._stream_destroyed is connected to the client
    up,        \* the stream is established
    toRoom,    \* presence and pings on their way to the room
    toClient,  \* what the room has sent to the client
    inside,    \* the room has the client among its occupants
    lost, removals, refusals, joins   \* what the bounds count

env == <<up, inside, lost, removals, refusals>>
vars == <<muc, auto, dispatch, cleanup, up, toRoom, toClient, inside,
          lost, removals, refusals, joins>>

-----------------------------------------------------------------------------
(* Types *)

Future == {"none", "pending", "ok", "failing", "failed", "cancelling", "cancelled"}

Room ==
    [pending : {"no", "fut", "none"},  \* entry in _pending_mucs: its future, or None
     known : BOOLEAN,                  \* in _joined_mucs
     fut : Future,                     \* the future of join(); "-ing": its callback is due
     state : {"presence", "history", "active", "disconnected"},
     joined : BOOLEAN, active : BOOLEAN,
     me : BOOLEAN,                     \* _this_occupant is set
     monitor : {"off", "armed", "pinging", "dead"},
     enterHeard : BOOLEAN,             \* _pending_on_enter is connected to the room
     told : {"nothing", "new", "entered", "suspended", "resumed", "exited", "failed"}]

Created ==
    [pending |-> "fut", known |-> FALSE, fut |-> "pending", state |-> "presence",
     joined |-> FALSE, active |-> FALSE, me |-> FALSE, monitor |-> "off",
     enterHeard |-> TRUE, told |-> "new"]

NoRoom == [Created EXCEPT !.pending = "no", !.fut = "none", !.told = "nothing"]

TypeOK ==
    /\ muc \in Room
    /\ auto \in BOOLEAN /\ dispatch \in BOOLEAN /\ cleanup \in BOOLEAN
    /\ up \in BOOLEAN /\ inside \in BOOLEAN
    /\ toRoom \in Seq({"join", "leave", "ping"})
    /\ toClient \in Seq({"enter", "left", "refused", "talk", "subject", "pong", "gone"})
    /\ lost \in 0..MaxLost /\ removals \in 0..MaxRemovals
    /\ refusals \in 0..MaxRefusals /\ joins \in 0..MaxJoins

Init ==
    /\ muc = NoRoom /\ auto \in Autorejoin
    /\ dispatch = TRUE /\ cleanup = TRUE
    /\ up = TRUE /\ toRoom = <<>> /\ toClient = <<>> /\ inside = FALSE
    /\ lost = 0 /\ removals = 0 /\ refusals = 0 /\ joins = 0

-----------------------------------------------------------------------------
(* The Room: what its methods make of it *)

\* on_exit: _muc_exited deletes the room's entry.
Exited(r) ==
    IF r.known THEN [r EXCEPT !.known = FALSE, !.told = "exited"]
    ELSE [r EXCEPT !.pending = "no", !.told = "exited"]

Suspend(r) ==
    [r EXCEPT !.monitor = "off", !.active = FALSE, !.state = "disconnected", !.told = "suspended"]

Disconnect(r) ==
    IF r.joined
    THEN [Exited(r) EXCEPT !.monitor = "off", !.joined = FALSE, !.active = FALSE,
                           !.state = "disconnected"]
    ELSE r

Resume(r) ==
    [r EXCEPT !.me = FALSE, !.active = FALSE, !.state = "presence", !.told = "resumed"]

\* on_muc_enter: _pending_on_enter. set_result raises if the future was cancelled
\* just now; then the room is in neither table.
Entered(r) ==
    CASE r.enterHeard /\ r.pending = "fut" /\ r.fut = "pending" ->
            [r EXCEPT !.pending = "no", !.known = TRUE, !.fut = "ok", !.told = "entered"]
      [] r.enterHeard /\ r.pending = "fut" /\ r.fut = "cancelling" ->
            [r EXCEPT !.pending = "no", !.enterHeard = FALSE, !.told = "entered"]
      [] r.enterHeard /\ r.pending = "none" ->
            [r EXCEPT !.pending = "no", !.known = TRUE, !.told = "entered"]
      [] OTHER -> [r EXCEPT !.told = "entered"]

\* The operators named Mutant... are plausible mistakes in the definition that
\* follows them. No action uses them; each must break one of the properties.

MutantAlive(r) ==   \* stops the pinger without resetting the timers
    [r EXCEPT !.monitor = CASE @ = "off" -> "armed" [] @ = "pinging" -> "dead" [] OTHER -> @]

\* Whatever arrives from the room arms the monitor and stops the pinger.
Alive(r) == [r EXCEPT !.monitor = "armed"]

\* During history replay any presence, and any message that was not delayed, is
\* taken for the end of the replay.
ReplayOver(r) == [r EXCEPT !.state = IF @ = "history" THEN "active" ELSE @]

MutantSelfPresence(r, available) ==   \* takes the departure of the last session for this one's
    IF available
    THEN Entered([r EXCEPT !.me = TRUE, !.joined = TRUE, !.active = TRUE, !.state = "history"])
    ELSE [Exited(r) EXCEPT !.monitor = "off", !.joined = FALSE, !.active = FALSE]

\* _handle_self_presence: entering, and leaving for whatever reason.
SelfPresence(r, available) ==
    CASE ~r.active /\ available ->
            Entered([r EXCEPT !.me = TRUE, !.joined = TRUE, !.active = TRUE, !.state = "history"])
      [] r.active /\ ~available ->
            [Exited(r) EXCEPT !.monitor = "off", !.joined = FALSE, !.active = FALSE]
      [] OTHER -> r

\* In one of the tables of the service, so that presence is routed to it.
Routed(r) == r.known \/ r.pending # "no"

-----------------------------------------------------------------------------
(* The application *)

\* Bound: not while the done callback of the last future is due. A room that is known
\* already is returned with a future that is done, or with
\* that of its entry (which may be None).
Join ==
    /\ joins < MaxJoins /\ joins' = joins + 1
    /\ ~Routed(muc) /\ muc.fut \notin {"failing", "cancelling"}
    /\ muc' = Created
    /\ toRoom' = IF up THEN Append(toRoom, "join") ELSE toRoom
    /\ UNCHANGED <<auto, dispatch, cleanup, toClient, env>>

CancelJoin ==
    /\ MayCancel /\ muc.fut = "pending"
    /\ muc' = [muc EXCEPT !.fut = "cancelling"]
    /\ UNCHANGED <<auto, dispatch, cleanup, toRoom, toClient, env, joins>>

\* Room.leave up to its second await. Bound: not while another is under way.
Leave ==
    /\ up /\ muc.told = "entered" /\ "leave" \notin {toRoom[i] : i \in DOMAIN toRoom}
    /\ toRoom' = Append(toRoom, "leave")
    /\ UNCHANGED <<muc, auto, dispatch, cleanup, toClient, env, joins>>

\* _pending_join_done. A cancelled join tells the room, if the stream is there.
JoinDone ==
    /\ \/ /\ muc.fut = "failing"
          /\ muc' = [muc EXCEPT !.fut = "failed", !.told = "failed"]
          /\ UNCHANGED toRoom
       \/ /\ muc.fut = "cancelling"
          /\ muc' = [muc EXCEPT !.fut = "cancelled", !.told = "failed", !.pending = "no"]
          /\ toRoom' = IF up THEN Append(toRoom, "leave") ELSE toRoom
    /\ UNCHANGED <<auto, dispatch, cleanup, toClient, env, joins>>

-----------------------------------------------------------------------------
(* What arrives from the room *)

PresenceArrives(available) ==
    /\ dispatch /\ Routed(muc)
    /\ muc' = SelfPresence(ReplayOver(Alive(muc)), available)
    /\ UNCHANGED <<dispatch, toRoom>>

\* _inbound_presence_error: setting the exception raises on None and on a future
\* that is done, and dispatch_presence is disconnected.
ErrorArrives ==
    /\ dispatch
    /\ muc' = [muc EXCEPT !.pending = "no",
                          !.fut = IF muc.pending = "fut" /\ @ = "pending" THEN "failing" ELSE @]
    /\ dispatch' = (muc.pending = "no" \/ muc'.fut = "failing")
    /\ UNCHANGED toRoom

\* A groupchat message, and the subject that ends the replay.
MessageArrives(subject) ==
    /\ muc.known
    /\ LET r == Alive(muc)
       IN  muc' = IF subject THEN [r EXCEPT !.state = "active"] ELSE ReplayOver(r)
    /\ UNCHANGED <<dispatch, toRoom>>

\* _cycle, by _monitor_exited: leaves and joins again. It raises if it does not
\* know the nickname.
Cycle(r) ==
    IF r.pending = "no" /\ ~r.me
    THEN muc' = r /\ UNCHANGED toRoom
    ELSE /\ muc' = Resume(Suspend(r))
         /\ toRoom' = toRoom \o <<"leave", "join">>

\* The reply to a ping; that of a pinger that has been stopped is dropped.
PingAnswered(gone) ==
    /\ muc.monitor = "pinging"
    /\ IF ~gone THEN muc' = Alive(muc) /\ UNCHANGED toRoom
       ELSE LET r == [muc EXCEPT !.monitor = "dead"]
            IN  IF auto THEN Cycle(r) ELSE muc' = Disconnect(r) /\ UNCHANGED toRoom
    /\ UNCHANGED dispatch

Unhandled(kind) ==
    /\ CASE kind \in {"enter", "left"} -> ~(dispatch /\ Routed(muc))
         [] kind = "refused" -> ~dispatch
         [] kind \in {"talk", "subject"} -> ~muc.known
         [] OTHER -> muc.monitor # "pinging"
    /\ UNCHANGED <<muc, dispatch, toRoom>>

Arrival ==
    /\ toClient # <<>>
    /\ toClient' = Tail(toClient)
    /\ LET kind == Head(toClient)
       IN  \/ kind \in {"enter", "left"} /\ PresenceArrives(kind = "enter")
           \/ kind = "refused" /\ ErrorArrives
           \/ kind \in {"talk", "subject"} /\ MessageArrives(kind = "subject")
           \/ kind \in {"pong", "gone"} /\ PingAnswered(kind = "gone")
           \/ Unhandled(kind)
    /\ UNCHANGED <<auto, cleanup, env, joins>>

-----------------------------------------------------------------------------
(* The self-ping monitor *)

InFlight(kinds) == \E i \in DOMAIN toRoom : toRoom[i] \in kinds

Answers(kinds) == \E i \in DOMAIN toClient : toClient[i] \in kinds

NoPing == ~InFlight({"ping"}) /\ ~Answers({"pong", "gone"})

\* Nothing was heard for the soft limit: an earlier ping has long timed out.
SoftLimit ==
    /\ muc.monitor = "armed" /\ NoPing
    /\ muc' = [muc EXCEPT !.monitor = "pinging"]
    /\ UNCHANGED <<auto, dispatch, cleanup, toRoom, toClient, env, joins>>

\* Bound: one ping at a time.
Ping ==
    /\ muc.monitor = "pinging" /\ up /\ NoPing
    /\ toRoom' = Append(toRoom, "ping")
    /\ UNCHANGED <<muc, auto, dispatch, cleanup, toClient, env, joins>>

-----------------------------------------------------------------------------
(* The stream *)

\* _stream_established
Established ==
    /\ ~up /\ up' = TRUE
    /\ IF muc.pending # "no"
       THEN /\ muc' = IF muc.joined THEN Resume(muc) ELSE muc
            /\ toRoom' = Append(toRoom, "join")
       ELSE UNCHANGED <<muc, toRoom>>
    /\ UNCHANGED <<auto, dispatch, cleanup, toClient, inside, lost, removals, refusals, joins>>

MutantPendingFails ==   \* drops the entry without a word
    /\ ~auto /\ muc.pending = "fut"
    /\ muc' = [muc EXCEPT !.pending = "no"]
    /\ UNCHANGED cleanup

\* A room that waits to be joined, without autorejoin: its future may be done.
PendingFails ==
    /\ ~auto /\ muc.pending = "fut"
    /\ IF muc.fut = "pending"
       THEN muc' = [muc EXCEPT !.pending = "no", !.fut = "failing"] /\ UNCHANGED cleanup
       ELSE UNCHANGED muc /\ cleanup' = FALSE

MutantJoinedLost ==   \* forgets to say so
    /\ muc.known
    /\ IF auto
       THEN IF muc.me
            THEN muc' = [muc EXCEPT !.pending = "none"] /\ UNCHANGED cleanup
            ELSE UNCHANGED muc /\ cleanup' = FALSE
       ELSE muc' = Disconnect(muc) /\ UNCHANGED cleanup

\* A room that was joined: it is to be joined again under the nickname it had. If it
\* has none (it was being joined again), the handler raises.
JoinedLost ==
    /\ muc.known
    /\ IF auto
       THEN IF muc.me
            THEN muc' = [Suspend(muc) EXCEPT !.pending = "none"] /\ UNCHANGED cleanup
            ELSE muc' = Suspend(muc) /\ cleanup' = FALSE
       ELSE muc' = Disconnect(muc) /\ UNCHANGED cleanup

NothingToClean ==
    /\ ~cleanup \/ ~(muc.known \/ (~auto /\ muc.pending = "fut"))
    /\ UNCHANGED <<muc, cleanup>>

\* _stream_destroyed. The room notices sooner or later that the client is gone.
Destroyed ==
    /\ up /\ lost < MaxLost
    /\ up' = FALSE /\ lost' = lost + 1
    /\ toRoom' = <<>> /\ toClient' = <<>>
    /\ inside' \in {inside, FALSE}
    /\ (cleanup /\ (PendingFails \/ JoinedLost)) \/ NothingToClean
    /\ UNCHANGED <<auto, dispatch, removals, refusals, joins>>

-----------------------------------------------------------------------------
(* The room's service *)

Sends(kinds) == toClient' = toClient \o kinds

Admit ==
    /\ Head(toRoom) = "join" /\ inside' = TRUE
    /\ Sends(<<"enter", "subject">>) /\ UNCHANGED refusals

Refuse ==
    /\ Head(toRoom) = "join" /\ ~inside /\ refusals < MaxRefusals
    /\ refusals' = refusals + 1
    /\ Sends(<<"refused">>) /\ UNCHANGED inside

Dismiss ==
    /\ Head(toRoom) = "leave" /\ inside' = FALSE
    /\ Sends(IF inside THEN <<"left">> ELSE <<>>) /\ UNCHANGED refusals

AnswerPing ==
    /\ Head(toRoom) = "ping"
    /\ Sends(<<IF inside THEN "pong" ELSE "gone">>) /\ UNCHANGED <<inside, refusals>>

RoomActs ==
    /\ up /\ toRoom # <<>> /\ toRoom' = Tail(toRoom)
    /\ Admit \/ Refuse \/ Dismiss \/ AnswerPing
    /\ UNCHANGED <<muc, auto, dispatch, cleanup, up, lost, removals, joins>>

\* A kick, or a removal the client does not hear of (a failing link of servers).
Remove ==
    /\ inside /\ removals < MaxRemovals
    /\ inside' = FALSE /\ removals' = removals + 1
    /\ \E heard \in BOOLEAN : Sends(IF heard /\ up THEN <<"left">> ELSE <<>>)
    /\ UNCHANGED <<muc, auto, dispatch, cleanup, up, toRoom, lost, refusals, joins>>

\* Bound: only while nothing else is under way.
Talk ==
    /\ inside /\ up /\ toClient = <<>>
    /\ Sends(<<"talk">>)
    /\ UNCHANGED <<muc, auto, dispatch, cleanup, toRoom, env, joins>>

-----------------------------------------------------------------------------
(* Specification *)

Next ==
    \/ Join \/ CancelJoin \/ Leave \/ JoinDone
    \/ Arrival \/ SoftLimit \/ Ping
    \/ Established \/ Destroyed
    \/ RoomActs \/ Remove \/ Talk

\* The client reconnects, the room answers, and callbacks and timers run.
Fairness ==
    /\ WF_vars(Established) /\ WF_vars(RoomActs) /\ WF_vars(Arrival)
    /\ WF_vars(JoinDone) /\ WF_vars(SoftLimit) /\ WF_vars(Ping)

Spec == Init /\ [][Next]_vars /\ Fairness

-----------------------------------------------------------------------------
(* Properties *)

NotCancelled == muc.fut \notin {"cancelling", "cancelled"}

\* Presence and messages for a room in use reach it: no order of joining, losing
\* the stream, being removed and cycling leaves a room active but out of the
\* tables, except when the future of join() is cancelled just as the room answers.
ActiveIsKnown ==
    muc.active /\ NotCancelled => muc.known /\ muc.pending = "no" /\ muc.joined /\ muc.me

\* A room's signals come in an order an application can follow: it is left only
\* if it was entered, once, and after that or a failure nothing follows.
Lifecycle ==
    [][muc'.told # muc.told /\ NotCancelled /\ muc'.told # "new" =>
          \/ muc.told \in {"new", "resumed"} /\ muc'.told = "entered"
          \/ muc.told = "new" /\ muc'.told = "failed"
          \/ muc.told \in {"entered", "resumed"} /\ muc'.told = "suspended"
          \/ muc.told = "entered" /\ muc'.told = "exited"
          \/ muc.told \in {"entered", "suspended"} /\ muc'.told = "resumed"]_vars

\* The future of join() becomes done, however often the stream is lost before the
\* room answers, as long as presence is dispatched at all.
JoinIsAnswered == muc.fut = "pending" ~> muc.fut # "pending" \/ ~dispatch

\* An occupant the room has removed does not go on for ever as if it were inside,
\* even if the room never told it or presence is not dispatched any more.
RemovalIsNoticed == muc.active /\ ~inside ~> ~muc.active \/ inside

-----------------------------------------------------------------------------
(* What the documentation says and the code does not keep.                   *)

\* MUCClient.join: "If autorejoin is true, the MUC will be re-joined after the
\* stream has been destroyed and re-established."
RejoinsAfterLoss ==
    [][~up /\ up' /\ auto /\ muc.known => "join" \in {toRoom'[i] : i \in DOMAIN toRoom'}]_vars
=============================================================================
