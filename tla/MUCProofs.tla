------------------------------ MODULE MUCProofs ------------------------------
(***************************************************************************)
(* Proofs about MUC, for any bounds and any choice of autorejoin and of    *)
(* cancelled joins. A room in use is in the table presence is routed by,   *)
(* and in that one only: the inductive invariant adds that an entry that   *)
(* waits to be joined has a future that is not done, and that the service  *)
(* listens for the room to be entered unless the join was cancelled. And   *)
(* the room's signals come in an order an application can follow: for that *)
(* a second invariant relates what was told last to the room's flags, its  *)
(* entries and the answers under way.                                      *)
(***************************************************************************)
EXTENDS MUC, TLAPS

Kept(r) == r.fut \notin {"cancelling", "cancelled"}

\* What holds of the Room and its entries, whatever happened to it.
Coherent(r) ==
    /\ r.pending = "fut" => r.fut \in {"pending", "cancelling"}
    /\ Kept(r) => r.enterHeard
    /\ Kept(r) /\ r.active => r.known /\ r.pending = "no" /\ r.joined /\ r.me

Inv == TypeOK /\ Coherent(muc)

-----------------------------------------------------------------------------
(* Operators on the Room *)

LEMMA CreatedRoom == /\ Created \in Room /\ Coherent(Created)
                     /\ NoRoom \in Room /\ Coherent(NoRoom)
  BY DEF Created, NoRoom, Room, Future, Coherent, Kept

LEMMA SuspendRoom ==
    ASSUME NEW r \in Room, Coherent(r)
    PROVE  /\ Suspend(r) \in Room /\ Coherent(Suspend(r)) /\ Suspend(r).active = FALSE
           /\ Suspend(r).fut = r.fut /\ Suspend(r).pending = r.pending
           /\ Suspend(r).enterHeard = r.enterHeard
  BY ZenonT(60) DEF Suspend, Room, Future, Coherent, Kept

LEMMA ResumeRoom ==
    ASSUME NEW r \in Room, Coherent(r)
    PROVE  Resume(r) \in Room /\ Coherent(Resume(r))
  BY ZenonT(60) DEF Resume, Room, Future, Coherent, Kept

\* One entry goes, whichever there is.
LEMMA ExitedRoom ==
    ASSUME NEW r \in Room
    PROVE  /\ Exited(r) \in Room /\ Exited(r).fut = r.fut /\ Exited(r).enterHeard = r.enterHeard
           /\ Exited(r).pending = r.pending \/ Exited(r).pending = "no"
  <1>1. CASE r.known
    <2>1. Exited(r) = [r EXCEPT !.known = FALSE, !.told = "exited"]
      BY <1>1 DEF Exited
    <2> QED
      BY <2>1 DEF Room, Future
  <1>2. CASE ~r.known
    <2>1. Exited(r) = [r EXCEPT !.pending = "no", !.told = "exited"]
      BY <1>2 DEF Exited
    <2> QED
      BY <2>1 DEF Room, Future
  <1> QED
    BY <1>1, <1>2

\* A room that is active is joined, unless the join was cancelled.
LEMMA DisconnectRoom ==
    ASSUME NEW r \in Room, Coherent(r)
    PROVE  Disconnect(r) \in Room /\ Coherent(Disconnect(r))
  <1> DEFINE x == Exited(r)
  <1>1. x \in Room /\ (x.pending = r.pending \/ x.pending = "no") /\ x.fut = r.fut
        /\ x.enterHeard = r.enterHeard
    BY ExitedRoom
  <1>2. CASE r.joined
    <2> DEFINE y == [x EXCEPT !.monitor = "off", !.joined = FALSE, !.active = FALSE,
                              !.state = "disconnected"]
    <2>1. Disconnect(r) = y
      BY <1>2 DEF Disconnect
    <2> HIDE DEF x
    <2>5. x \in Room
      BY <1>1
    <2>2. y \in Room
      BY ZenonT(60), <2>5 DEF Room, Future
    <2>3. /\ y.active = FALSE /\ y.fut = r.fut /\ y.enterHeard = r.enterHeard
          /\ y.pending = r.pending \/ y.pending = "no"
      BY <1>1 DEF Room
    <2>4. Coherent(y)
      BY <2>3 DEF Coherent, Kept
    <2> HIDE DEF y
    <2> QED
      BY <2>1, <2>2, <2>4
  <1>3. CASE ~r.joined
    BY <1>3 DEF Disconnect
  <1> QED
    BY <1>2, <1>3

LEMMA AliveRoom ==
    ASSUME NEW r \in Room, Coherent(r)
    PROVE  /\ Alive(r) \in Room /\ Coherent(Alive(r)) /\ (Routed(r) => Routed(Alive(r)))
  BY DEF Alive, Room, Future, Coherent, Kept, Routed

LEMMA ReplayOverRoom ==
    ASSUME NEW r \in Room, Coherent(r)
    PROVE  /\ ReplayOver(r) \in Room /\ Coherent(ReplayOver(r))
           /\ (Routed(r) => Routed(ReplayOver(r)))
  BY DEF ReplayOver, Room, Future, Coherent, Kept, Routed

\* The room is entered: an entry that waits for it is settled, one way or another.
LEMMA EnteredRoom ==
    ASSUME NEW e \in Room, e.me, e.joined, Routed(e), Kept(e) => e.enterHeard,
           e.pending = "fut" => e.fut \in {"pending", "cancelling"}
    PROVE  Entered(e) \in Room /\ Coherent(Entered(e))
  <1>1. CASE e.enterHeard /\ e.pending = "fut" /\ e.fut = "pending"
    <2> DEFINE y == [e EXCEPT !.pending = "no", !.known = TRUE, !.fut = "ok", !.told = "entered"]
    <2>1. Entered(e) = y
      BY <1>1 DEF Entered
    <2>2. y \in Room /\ Coherent(y)
      BY <1>1 DEF Room, Future, Coherent, Kept
    <2> HIDE DEF y
    <2> QED
      BY <2>1, <2>2
  <1>2. CASE e.enterHeard /\ e.pending = "fut" /\ e.fut = "cancelling"
    <2> DEFINE y == [e EXCEPT !.pending = "no", !.enterHeard = FALSE, !.told = "entered"]
    <2>1. Entered(e) = y
      BY <1>2 DEF Entered
    <2>2. y \in Room /\ Coherent(y)
      BY <1>2 DEF Room, Future, Coherent, Kept
    <2> HIDE DEF y
    <2> QED
      BY <2>1, <2>2
  <1>3. CASE e.enterHeard /\ e.pending = "none"
    <2> DEFINE y == [e EXCEPT !.pending = "no", !.known = TRUE, !.told = "entered"]
    <2>1. Entered(e) = y
      BY <1>3 DEF Entered
    <2>2. y \in Room /\ Coherent(y)
      BY <1>3 DEF Room, Future, Coherent, Kept
    <2> HIDE DEF y
    <2> QED
      BY <2>1, <2>2
  <1>4. CASE /\ ~(e.enterHeard /\ e.pending = "fut" /\ e.fut = "pending")
             /\ ~(e.enterHeard /\ e.pending = "fut" /\ e.fut = "cancelling")
             /\ ~(e.enterHeard /\ e.pending = "none")
    <2> DEFINE y == [e EXCEPT !.told = "entered"]
    <2>1. Entered(e) = y
      BY <1>4 DEF Entered
    <2>2. Kept(e) => e.known /\ e.pending = "no"
      BY <1>4 DEF Kept, Routed, Room
    <2>3. y \in Room /\ Coherent(y)
      BY <2>2 DEF Room, Future, Coherent, Kept
    <2> HIDE DEF y
    <2> QED
      BY <2>1, <2>3
  <1> QED
    BY <1>1, <1>2, <1>3, <1>4

LEMMA SelfPresenceRoom ==
    ASSUME NEW r \in Room, Coherent(r), Routed(r), NEW available \in BOOLEAN
    PROVE  SelfPresence(r, available) \in Room /\ Coherent(SelfPresence(r, available))
  <1>1. CASE ~r.active /\ available
    <2> DEFINE e == [r EXCEPT !.me = TRUE, !.joined = TRUE, !.active = TRUE, !.state = "history"]
    <2>1. SelfPresence(r, available) = Entered(e)
      BY <1>1 DEF SelfPresence
    <2>2. /\ e \in Room /\ e.me /\ e.joined /\ Routed(e) /\ (Kept(e) => e.enterHeard)
          /\ e.pending = "fut" => e.fut \in {"pending", "cancelling"}
      BY DEF Room, Future, Coherent, Kept, Routed
    <2> HIDE DEF e
    <2> QED
      BY <2>1, <2>2, EnteredRoom
  <1>2. CASE r.active /\ ~available
    <2>1. SelfPresence(r, available)
            = [Exited(r) EXCEPT !.monitor = "off", !.joined = FALSE, !.active = FALSE]
      BY <1>2 DEF SelfPresence
    <2> DEFINE x == Exited(r)
    <2>2. x \in Room /\ (x.pending = r.pending \/ x.pending = "no") /\ x.fut = r.fut
          /\ x.enterHeard = r.enterHeard
      BY ExitedRoom
    <2> HIDE DEF x
    <2> QED
      BY ZenonT(60), <2>1, <2>2 DEF x, Room, Future, Coherent, Kept
  <1>3. CASE ~(~r.active /\ available) /\ ~(r.active /\ ~available)
    BY <1>3 DEF SelfPresence
  <1> QED
    BY <1>1, <1>2, <1>3

-----------------------------------------------------------------------------
(* Actions *)

LEMMA InitInv == Init => Inv
  <1> SUFFICES ASSUME Init PROVE Inv
    OBVIOUS
  <1>1. muc \in Room /\ Coherent(muc)
    BY CreatedRoom DEF Init
  <1>2. auto \in BOOLEAN
    BY AutorejoinAssumption DEF Init
  <1>3. 0 \in 0..MaxLost /\ 0 \in 0..MaxRemovals /\ 0 \in 0..MaxRefusals /\ 0 \in 0..MaxJoins
    BY BoundsAssumption
  <1>4. <<>> \in Seq({"join", "leave", "ping"})
        /\ <<>> \in Seq({"enter", "left", "refused", "talk", "subject", "pong", "gone"})
    OBVIOUS
  <1> QED
    BY <1>1, <1>2, <1>3, <1>4 DEF Init, Inv, TypeOK

LEMMA JoinStep == Inv /\ Join => Inv'
  <1> SUFFICES ASSUME Inv, Join PROVE Inv'
    OBVIOUS
  <1>1. muc' \in Room /\ Coherent(muc')
    BY CreatedRoom DEF Join
  <1>2. toRoom' \in Seq({"join", "leave", "ping"}) /\ joins' \in 0..MaxJoins
    BY BoundsAssumption DEF Join, Inv, TypeOK
  <1> QED
    BY <1>1, <1>2 DEF Join, Inv, TypeOK, env

LEMMA CancelJoinStep == Inv /\ CancelJoin => Inv'
  <1> SUFFICES ASSUME Inv, CancelJoin PROVE Inv'
    OBVIOUS
  <1>1. muc' \in Room /\ Coherent(muc')
    BY DEF CancelJoin, Inv, TypeOK, Room, Future, Coherent, Kept
  <1> QED
    BY <1>1 DEF CancelJoin, Inv, TypeOK, env

LEMMA LeaveStep == Inv /\ Leave => Inv'
  <1> SUFFICES ASSUME Inv, Leave PROVE Inv'
    OBVIOUS
  <1>1. toRoom' \in Seq({"join", "leave", "ping"})
    BY DEF Leave, Inv, TypeOK
  <1> QED
    BY <1>1 DEF Leave, Inv, TypeOK, env, Coherent, Kept

LEMMA JoinDoneStep == Inv /\ JoinDone => Inv'
  <1> SUFFICES ASSUME Inv, JoinDone PROVE Inv'
    OBVIOUS
  <1>1. muc' \in Room /\ Coherent(muc')
    BY ZenonT(60) DEF JoinDone, Inv, TypeOK, Room, Future, Coherent, Kept
  <1>2. toRoom' \in Seq({"join", "leave", "ping"})
    <2>1. toRoom \in Seq({"join", "leave", "ping"}) /\ Append(toRoom, "leave") \in Seq({"join", "leave", "ping"})
      BY DEF Inv, TypeOK
    <2> QED
      BY <2>1 DEF JoinDone
  <1> QED
    BY <1>1, <1>2 DEF JoinDone, Inv, TypeOK, env

\* A future that is set by an error was pending, and its entry is gone.
LEMMA ErrorArrivesStep == Inv /\ ErrorArrives => muc' \in Room /\ Coherent(muc') /\ dispatch' \in BOOLEAN
  BY DEF ErrorArrives, Inv, TypeOK, Room, Future, Coherent, Kept

LEMMA PingAnsweredStep ==
    ASSUME Inv, NEW gone \in BOOLEAN, PingAnswered(gone)
    PROVE  muc' \in Room /\ Coherent(muc') /\ toRoom' \in Seq({"join", "leave", "ping"})
  <1> DEFINE r == [muc EXCEPT !.monitor = "dead"]
  <1>1. muc \in Room /\ Coherent(muc)
    BY DEF Inv, TypeOK
  <1>2. r \in Room /\ Coherent(r)
    BY <1>1 DEF Room, Future, Coherent, Kept
  <1>3. toRoom \in Seq({"join", "leave", "ping"})
    BY DEF Inv, TypeOK
  <1>4. CASE ~gone
    BY <1>1, <1>3, <1>4, AliveRoom DEF PingAnswered
  <1>5. CASE gone /\ ~auto
    BY <1>2, <1>3, <1>5, DisconnectRoom DEF PingAnswered
  <1>6. CASE gone /\ auto
    <2>1. Cycle(r)
      BY <1>6 DEF PingAnswered
    <2> HIDE DEF r
    <2>2. Resume(Suspend(r)) \in Room /\ Coherent(Resume(Suspend(r)))
      BY <1>2, SuspendRoom, ResumeRoom
    <2>3. toRoom \o <<"leave", "join">> \in Seq({"join", "leave", "ping"})
      BY <1>3
    <2> QED
      BY <1>2, <1>3, <2>1, <2>2, <2>3 DEF Cycle
  <1> QED
    BY <1>4, <1>5, <1>6

LEMMA ArrivalStep == Inv /\ Arrival => Inv'
  <1> SUFFICES ASSUME Inv, Arrival PROVE Inv'
    OBVIOUS
  <1> DEFINE kind == Head(toClient)
  <1>1. muc \in Room /\ Coherent(muc) /\ dispatch \in BOOLEAN
    BY DEF Inv, TypeOK
  <1>2. toRoom \in Seq({"join", "leave", "ping"})
    BY DEF Inv, TypeOK
  <1> DEFINE Good == /\ muc' \in Room /\ Coherent(muc') /\ dispatch' \in BOOLEAN
                     /\ toRoom' \in Seq({"join", "leave", "ping"})
  <1>3. ASSUME NEW available \in BOOLEAN, PresenceArrives(available) PROVE Good
    <2>1. /\ ReplayOver(Alive(muc)) \in Room /\ Coherent(ReplayOver(Alive(muc)))
          /\ Routed(ReplayOver(Alive(muc)))
      BY <1>1, <1>3, AliveRoom, ReplayOverRoom DEF PresenceArrives
    <2> QED
      BY <1>1, <1>2, <1>3, <2>1, SelfPresenceRoom DEF PresenceArrives
  <1>4. ASSUME ErrorArrives PROVE Good
    BY <1>2, <1>4, ErrorArrivesStep DEF ErrorArrives
  <1>5. ASSUME NEW subject \in BOOLEAN, MessageArrives(subject) PROVE Good
    <2> DEFINE r == Alive(muc)
    <2>1. r \in Room /\ Coherent(r)
      BY <1>1, AliveRoom
    <2> HIDE DEF r
    <2>2. [r EXCEPT !.state = "active"] \in Room /\ Coherent([r EXCEPT !.state = "active"])
      BY <2>1 DEF Room, Future, Coherent, Kept
    <2>3. muc' = IF subject THEN [r EXCEPT !.state = "active"] ELSE ReplayOver(r)
      BY <1>5 DEF MessageArrives, r
    <2> QED
      BY <1>1, <1>2, <1>5, <2>1, <2>2, <2>3, ReplayOverRoom DEF MessageArrives
  <1>6. ASSUME NEW gone \in BOOLEAN, PingAnswered(gone) PROVE Good
    BY <1>1, <1>6, PingAnsweredStep DEF PingAnswered
  <1>7. ASSUME Unhandled(kind) PROVE Good
    BY <1>1, <1>2, <1>7 DEF Unhandled
  <1>8. Good
    <2>1. (kind = "enter") \in BOOLEAN /\ (kind = "subject") \in BOOLEAN /\ (kind = "gone") \in BOOLEAN
      OBVIOUS
    <2> QED
      BY <1>3, <1>4, <1>5, <1>6, <1>7, <2>1 DEF Arrival
  <1>9. toClient' \in Seq({"enter", "left", "refused", "talk", "subject", "pong", "gone"})
    BY DEF Arrival, Inv, TypeOK
  <1> QED
    BY <1>8, <1>9 DEF Arrival, Inv, TypeOK, env

LEMMA MonitorStep == Inv /\ (SoftLimit \/ Ping) => Inv'
  <1> SUFFICES ASSUME Inv, SoftLimit \/ Ping PROVE Inv'
    OBVIOUS
  <1>1. CASE SoftLimit
    <2>1. muc' \in Room /\ Coherent(muc')
      BY <1>1 DEF SoftLimit, Inv, TypeOK, Room, Future, Coherent, Kept
    <2> QED
      BY <1>1, <2>1 DEF SoftLimit, Inv, TypeOK, env
  <1>2. CASE Ping
    <2>1. toRoom' \in Seq({"join", "leave", "ping"})
      BY <1>2 DEF Ping, Inv, TypeOK
    <2> QED
      BY <1>2, <2>1 DEF Ping, Inv, TypeOK, env, Coherent, Kept
  <1> QED
    BY <1>1, <1>2

LEMMA EstablishedStep == Inv /\ Established => Inv'
  <1> SUFFICES ASSUME Inv, Established PROVE Inv'
    OBVIOUS
  <1>1. muc' \in Room /\ Coherent(muc')
    BY ResumeRoom DEF Established, Inv, TypeOK
  <1>2. toRoom' \in Seq({"join", "leave", "ping"})
    <2>1. toRoom \in Seq({"join", "leave", "ping"}) /\ Append(toRoom, "join") \in Seq({"join", "leave", "ping"})
      BY DEF Inv, TypeOK
    <2> QED
      BY <2>1 DEF Established
  <1> QED
    BY <1>1, <1>2 DEF Established, Inv, TypeOK

\* A room that is to be joined again is suspended, so it is not active.
LEMMA DestroyedStep == Inv /\ Destroyed => Inv'
  <1> SUFFICES ASSUME Inv, Destroyed PROVE Inv'
    OBVIOUS
  <1>1. muc \in Room /\ Coherent(muc) /\ cleanup \in BOOLEAN
    BY DEF Inv, TypeOK
  <1> DEFINE Good == muc' \in Room /\ Coherent(muc') /\ cleanup' \in BOOLEAN
  <1>3. ASSUME PendingFails PROVE Good
    BY ZenonT(60), <1>1, <1>3 DEF PendingFails, Room, Future, Coherent, Kept
  <1>4. ASSUME JoinedLost PROVE Good
    <2> DEFINE s == Suspend(muc)
    <2>1. s \in Room /\ Coherent(s) /\ s.active = FALSE
      BY <1>1, SuspendRoom
    <2> HIDE DEF s
    <2>2. [s EXCEPT !.pending = "none"] \in Room /\ Coherent([s EXCEPT !.pending = "none"])
      BY <2>1 DEF Room, Future, Coherent, Kept
    <2>3. muc' \in {[s EXCEPT !.pending = "none"], s, Disconnect(muc)}
      BY <1>4 DEF JoinedLost, s
    <2> QED
      BY <1>1, <1>4, <2>1, <2>2, <2>3, DisconnectRoom DEF JoinedLost
  <1>5. ASSUME NothingToClean PROVE Good
    BY <1>1, <1>5 DEF NothingToClean
  <1>6. Good
    BY <1>3, <1>4, <1>5 DEF Destroyed
  <1>7. inside' \in BOOLEAN
    BY DEF Destroyed, Inv, TypeOK
  <1>8. lost' \in 0..MaxLost
    BY BoundsAssumption DEF Destroyed, Inv, TypeOK
  <1>9. up' = FALSE /\ toRoom' = <<>> /\ toClient' = <<>>
        /\ UNCHANGED <<auto, dispatch, removals, refusals, joins>>
    BY DEF Destroyed
  <1>10. <<>> \in Seq({"join", "leave", "ping"})
         /\ <<>> \in Seq({"enter", "left", "refused", "talk", "subject", "pong", "gone"})
    OBVIOUS
  <1> QED
    BY <1>6, <1>7, <1>8, <1>9, <1>10 DEF Inv, TypeOK

LEMMA ServiceStep == Inv /\ (RoomActs \/ Remove \/ Talk) => Inv'
  <1> SUFFICES ASSUME Inv, RoomActs \/ Remove \/ Talk PROVE Inv'
    OBVIOUS
  <1> DEFINE Out == Seq({"enter", "left", "refused", "talk", "subject", "pong", "gone"})
  <1>1. ASSUME NEW k \in Out, Sends(k) PROVE toClient' \in Out
    BY <1>1 DEF Sends, Inv, TypeOK
  <1>5. /\ <<"enter", "subject">> \in Out /\ <<"refused">> \in Out /\ <<"left">> \in Out
        /\ <<>> \in Out /\ <<"pong">> \in Out /\ <<"gone">> \in Out /\ <<"talk">> \in Out
    OBVIOUS
  <1> HIDE DEF Out
  <1>2. CASE RoomActs
    <2>1. toRoom' \in Seq({"join", "leave", "ping"})
      BY <1>2 DEF RoomActs, Inv, TypeOK
    <2>2. toClient' \in Out /\ inside' \in BOOLEAN /\ refusals' \in 0..MaxRefusals
      <3>1. CASE Admit
        BY <1>1, <1>5, <3>1 DEF Admit, Inv, TypeOK
      <3>2. CASE Refuse
        BY <1>1, <1>5, <3>2, BoundsAssumption DEF Refuse, Inv, TypeOK
      <3>3. CASE Dismiss
        BY <1>1, <1>5, <3>3 DEF Dismiss, Inv, TypeOK
      <3>4. CASE AnswerPing
        BY <1>1, <1>5, <3>4 DEF AnswerPing, Inv, TypeOK
      <3> QED
        BY <1>2, <3>1, <3>2, <3>3, <3>4 DEF RoomActs
    <2> QED
      BY <1>2, <2>1, <2>2 DEF RoomActs, Inv, TypeOK, Coherent, Kept, Out
  <1>3. CASE Remove
    <2>1. toClient' \in Out
      BY <1>1, <1>5, <1>3 DEF Remove
    <2>2. removals' \in 0..MaxRemovals
      BY <1>3, BoundsAssumption DEF Remove, Inv, TypeOK
    <2> QED
      BY <1>3, <2>1, <2>2 DEF Remove, Inv, TypeOK, Coherent, Kept, Out
  <1>4. CASE Talk
    <2>1. toClient' \in Out
      BY <1>1, <1>5, <1>4 DEF Talk
    <2> QED
      BY <1>4, <2>1 DEF Talk, Inv, TypeOK, env, Coherent, Kept, Out
  <1> QED
    BY <1>2, <1>3, <1>4

-----------------------------------------------------------------------------
(* The order of the signals *)

\* What an application was told of the room agrees with its flags and its entries.
Story(r) ==
    /\ r.told \in {"nothing", "new", "failed"} => ~r.known /\ ~r.joined /\ ~r.active /\ ~r.me
    /\ r.told \in {"nothing", "failed", "exited"} => r.pending = "no"
    /\ r.told = "new" => \/ r.pending = "fut" /\ r.fut = "pending"
                         \/ r.pending = "no" /\ r.fut = "failing"
    /\ r.told = "entered" => r.active
    /\ r.told \in {"entered", "suspended", "resumed"} => r.known /\ r.joined /\ r.pending # "fut"
    /\ r.told \in {"suspended", "resumed", "exited"} => ~r.active
    /\ r.told = "exited" => ~r.known /\ ~r.joined
    /\ r.told \in {"nothing", "exited"} => r.monitor = "off"
    /\ r.told = "suspended" /\ r.pending = "no" => ~r.me
    /\ r.fut = "failing" => r.told = "new"

StoryInv == Kept(muc) => Story(muc)

OnlyIfAuto == ~auto =>
    /\ muc.pending # "none"
    /\ Kept(muc) => muc.told \notin {"suspended", "resumed"}

QuietIfDown == ~up => toRoom = <<>> /\ toClient = <<>>

Holds(q, kinds) == \E i \in DOMAIN q : q[i] \in kinds

\* Each element of one kind has one of another kind before it.
Led(q, kinds, leads) == \A i \in DOMAIN q : q[i] \in kinds => \E p \in DOMAIN q : p < i /\ q[p] \in leads

\* A room that is suspended while the stream is up is not being joined again.
NotRejoining == Kept(muc) /\ muc.told = "suspended" /\ up =>
    muc.pending = "no" /\ ~Holds(toRoom, {"join"}) /\ ~Holds(toClient, {"enter"})

Waiting == Kept(muc) /\ muc.pending = "fut"

JoinIsUnderWay == Waiting /\ up /\ dispatch =>
    Holds(toRoom, {"join"}) \/ Holds(toClient, {"enter", "refused"})

\* The room answers the join before it answers a ping, so no ping tells a room that
\* is yet to be joined that it is gone.
PingIsLater == Waiting /\ muc.monitor # "off" =>
    /\ dispatch
    /\ muc.monitor = "pinging" =>
        /\ Led(toRoom, {"ping"}, {"join"}) \/ Holds(toClient, {"enter", "refused"})
        /\ Led(toClient, {"pong", "gone"}, {"enter", "refused"})

LifeInv == StoryInv /\ OnlyIfAuto /\ QuietIfDown /\ NotRejoining /\ JoinIsUnderWay /\ PingIsLater

Follows(old, new) ==
    \/ old \in {"new", "resumed"} /\ new = "entered"
    \/ old = "new" /\ new = "failed"
    \/ old \in {"entered", "resumed"} /\ new = "suspended"
    \/ old = "entered" /\ new = "exited"
    \/ old \in {"entered", "suspended"} /\ new = "resumed"

\* What a step makes of the room.
Proceeds == Kept(muc) /\ muc'.told # "new" => muc'.told = muc.told \/ Follows(muc.told, muc'.told)

(* What is under way *)

ToRoom == {"join", "leave", "ping"}
ToClient == {"enter", "left", "refused", "talk", "subject", "pong", "gone"}

LEMMA HoldsEmpty == \A K, L : ~Holds(<<>>, K) /\ Led(<<>>, K, L)
  BY DEF Holds, Led

LEMMA HoldsTail ==
    ASSUME NEW S, NEW q \in Seq(S), q # <<>>, NEW K, NEW L
    PROVE  /\ Holds(q, K) <=> Holds(Tail(q), K) \/ Head(q) \in K
           /\ Led(q, K, L) => Head(q) \notin K
           /\ Led(q, K, L) /\ Head(q) \notin L => Led(Tail(q), K, L)
  <1>1. /\ Len(q) \in Nat /\ Len(q) >= 1 /\ DOMAIN q = 1..Len(q) /\ Head(q) = q[1]
        /\ DOMAIN Tail(q) = 1..(Len(q) - 1) /\ \A i \in 1..(Len(q) - 1) : Tail(q)[i] = q[i + 1]
    OBVIOUS
  <1>2. Holds(Tail(q), K) \/ Head(q) \in K => Holds(q, K)
    BY <1>1 DEF Holds
  <1>3. ASSUME Holds(q, K), Head(q) \notin K PROVE Holds(Tail(q), K)
    <2>1. PICK i \in 1..Len(q) : q[i] \in K
      BY <1>1, <1>3 DEF Holds
    <2>2. i - 1 \in 1..(Len(q) - 1) /\ (i - 1) + 1 = i
      BY <1>1, <1>3, <2>1
    <2>. QED
      BY <1>1, <2>1, <2>2 DEF Holds
  <1>4. ASSUME Led(q, K, L) PROVE Head(q) \notin K
    BY <1>1, <1>4 DEF Led
  <1>5. ASSUME Led(q, K, L), Head(q) \notin L, NEW i \in DOMAIN Tail(q), Tail(q)[i] \in K
        PROVE  \E p \in DOMAIN Tail(q) : p < i /\ Tail(q)[p] \in L
    <2>1. i \in Nat /\ i + 1 \in DOMAIN q /\ q[i + 1] \in K
      BY <1>1, <1>5
    <2>2. PICK p \in DOMAIN q : p < i + 1 /\ q[p] \in L
      BY <1>5, <2>1 DEF Led
    <2>3. p - 1 \in DOMAIN Tail(q) /\ p - 1 < i /\ (p - 1) + 1 = p
      BY <1>1, <1>5, <2>1, <2>2
    <2>. QED
      BY <1>1, <2>2, <2>3
  <1>. QED
    BY <1>2, <1>3, <1>4, <1>5 DEF Led

LEMMA HoldsConcat ==
    ASSUME NEW S, NEW q \in Seq(S), NEW s \in Seq(S), NEW K, NEW L
    PROVE  /\ q \o s \in Seq(S)
           /\ Holds(q \o s, K) <=> Holds(q, K) \/ Holds(s, K)
           /\ Led(q, K, L) /\ (Holds(q, L) \/ ~Holds(s, K)) => Led(q \o s, K, L)
  <1>. DEFINE c == q \o s
  <1>1. /\ c \in Seq(S) /\ Len(q) \in Nat /\ Len(s) \in Nat
        /\ DOMAIN q = 1..Len(q) /\ DOMAIN s = 1..Len(s) /\ DOMAIN c = 1..(Len(q) + Len(s))
        /\ \A i \in 1..Len(q) : c[i] = q[i]
        /\ \A i \in 1..Len(s) : c[Len(q) + i] = s[i]
    OBVIOUS
  <1>. HIDE DEF c
  <1>2. \A i \in DOMAIN c : i \in DOMAIN q \/ (i - Len(q) \in DOMAIN s /\ Len(q) + (i - Len(q)) = i)
    BY <1>1
  <1>3. \A i \in DOMAIN s : Len(q) + i \in DOMAIN c
    BY <1>1
  <1>4. Holds(c, K) <=> Holds(q, K) \/ Holds(s, K)
    <2>1. Holds(c, K) => Holds(q, K) \/ Holds(s, K)
      BY <1>1, <1>2 DEF Holds
    <2>2. Holds(q, K) => Holds(c, K)
      BY <1>1 DEF Holds
    <2>3. Holds(s, K) => Holds(c, K)
      BY <1>1, <1>3 DEF Holds
    <2>. QED
      BY <2>1, <2>2, <2>3
  <1>5. ASSUME Led(q, K, L), Holds(q, L) \/ ~Holds(s, K), NEW i \in DOMAIN c, c[i] \in K
        PROVE  \E p \in DOMAIN c : p < i /\ c[p] \in L
    <2>1. CASE i \in DOMAIN q
      BY <1>1, <1>5, <2>1 DEF Led
    <2>2. CASE i \notin DOMAIN q
      <3>1. i - Len(q) \in DOMAIN s /\ s[i - Len(q)] \in K
        BY <1>1, <1>2, <1>5, <2>2
      <3>2. PICK p \in DOMAIN q : q[p] \in L
        BY <1>5, <3>1 DEF Holds
      <3>3. p \in DOMAIN c /\ p < i /\ c[p] = q[p]
        BY <1>1, <2>2, <3>2
      <3>. QED
        BY <3>2, <3>3
    <2>. QED
      BY <2>1, <2>2
  <1>. QED
    BY <1>1, <1>4, <1>5 DEF c, Led

LEMMA HoldsAppend ==
    ASSUME NEW S, NEW q \in Seq(S), NEW e \in S, NEW K, NEW L
    PROVE  /\ Holds(Append(q, e), K) <=> Holds(q, K) \/ e \in K
           /\ Led(q, K, L) /\ (Holds(q, L) \/ e \notin K) => Led(Append(q, e), K, L)
  <1>. DEFINE c == Append(q, e)
  <1>1. /\ Len(q) \in Nat /\ DOMAIN q = 1..Len(q) /\ DOMAIN c = 1..(Len(q) + 1)
        /\ c[Len(q) + 1] = e /\ \A i \in 1..Len(q) : c[i] = q[i]
    OBVIOUS
  <1>. HIDE DEF c
  <1>2. \A i \in DOMAIN c : i \in DOMAIN q \/ i = Len(q) + 1
    BY <1>1
  <1>3. Len(q) + 1 \in DOMAIN c /\ \A i \in DOMAIN q : i \in DOMAIN c /\ i < Len(q) + 1 /\ c[i] = q[i]
    BY <1>1
  <1>4. Holds(c, K) <=> Holds(q, K) \/ e \in K
    BY <1>1, <1>2, <1>3 DEF Holds
  <1>5. Led(q, K, L) /\ (Holds(q, L) \/ e \notin K) => Led(c, K, L)
    BY <1>1, <1>2, <1>3 DEF Holds, Led
  <1>. QED
    BY <1>4, <1>5 DEF c

(* The room *)

\* All that Story is about is the same, but the monitor.
Alike(r, s) ==
    /\ s.told = r.told /\ s.known = r.known /\ s.joined = r.joined /\ s.active = r.active
    /\ s.me = r.me /\ s.pending = r.pending /\ s.fut = r.fut

LEMMA AlikeRoom ==
    ASSUME NEW r \in Room
    PROVE  /\ Alike(r, r)
           /\ Alike(r, Alive(r)) /\ Alive(r).monitor = "armed"
           /\ Alike(r, ReplayOver(r)) /\ ReplayOver(r).monitor = r.monitor
           /\ \A s : Alike(r, [r EXCEPT !.state = s]) /\ [r EXCEPT !.state = s].monitor = r.monitor
           /\ \A m : Alike(r, [r EXCEPT !.monitor = m]) /\ [r EXCEPT !.monitor = m].monitor = m
  BY DEF Alike, Alive, ReplayOver, Room

LEMMA AlikeTransitive == \A r, s, t : Alike(r, s) /\ Alike(s, t) => Alike(r, t)
  BY DEF Alike

LEMMA StoryAlike ==
    ASSUME NEW r, NEW s, Story(r), Alike(r, s),
           s.monitor = r.monitor \/ r.told \notin {"nothing", "exited"}
    PROVE  Story(s)
  BY DEF Story, Alike

LEMMA SuspendFields ==
    ASSUME NEW r \in Room, NEW s, s = Suspend(r) \/ s = [Suspend(r) EXCEPT !.pending = "none"]
    PROVE  /\ s.told = "suspended" /\ ~s.active /\ s.known = r.known /\ s.joined = r.joined
           /\ s.me = r.me /\ s.fut = r.fut /\ s.monitor = "off"
           /\ s.pending = IF s = Suspend(r) THEN r.pending ELSE "none"
  BY DEF Suspend, Room

LEMMA ResumeFields ==
    ASSUME NEW r \in Room, NEW s, s = Resume(r) \/ s = Resume(Suspend(r))
    PROVE  /\ s.told = "resumed" /\ ~s.active /\ s.known = r.known /\ s.joined = r.joined
           /\ s.fut = r.fut /\ s.pending = r.pending
           /\ s.monitor = "off" \/ s.monitor = r.monitor
  BY DEF Suspend, Resume, Room

LEMMA ExitFields ==
    ASSUME NEW r \in Room, r.known, NEW s,
           \/ s = [Exited(r) EXCEPT !.monitor = "off", !.joined = FALSE, !.active = FALSE]
           \/ s = [Exited(r) EXCEPT !.monitor = "off", !.joined = FALSE, !.active = FALSE,
                                    !.state = "disconnected"]
    PROVE  /\ s.told = "exited" /\ ~s.known /\ ~s.joined /\ ~s.active /\ s.monitor = "off"
           /\ s.fut = r.fut /\ s.pending = r.pending
  <1>. DEFINE e == [r EXCEPT !.known = FALSE, !.told = "exited"]
  <1>1. Exited(r) = e
    BY DEF Exited
  <1>2. e \in Room /\ e.told = "exited" /\ ~e.known /\ e.fut = r.fut /\ e.pending = r.pending
    BY DEF Room
  <1>3. \/ s = [e EXCEPT !.monitor = "off", !.joined = FALSE, !.active = FALSE]
        \/ s = [e EXCEPT !.monitor = "off", !.joined = FALSE, !.active = FALSE, !.state = "disconnected"]
    BY <1>1
  <1>. HIDE DEF e
  <1>4. CASE s = [e EXCEPT !.monitor = "off", !.joined = FALSE, !.active = FALSE]
    BY <1>2, <1>4 DEF Room
  <1>5. CASE s = [e EXCEPT !.monitor = "off", !.joined = FALSE, !.active = FALSE, !.state = "disconnected"]
    BY <1>2, <1>5 DEF Room
  <1>. QED
    BY <1>3, <1>4, <1>5

LEMMA EnterFields ==
    ASSUME NEW r \in Room, r.enterHeard,
           \/ r.pending = "fut" /\ r.fut = "pending"
           \/ r.pending # "fut" /\ r.known,
           NEW s, s = Entered([r EXCEPT !.me = TRUE, !.joined = TRUE, !.active = TRUE, !.state = "history"])
    PROVE  /\ s.told = "entered" /\ s.active /\ s.joined /\ s.known /\ s.pending = "no"
           /\ s.fut = "ok" \/ s.fut = r.fut
  <1>. DEFINE e == [r EXCEPT !.me = TRUE, !.joined = TRUE, !.active = TRUE, !.state = "history"]
  <1>1. /\ e \in Room /\ e.enterHeard /\ e.joined /\ e.active /\ e.fut = r.fut /\ e.pending = r.pending
        /\ e.known = r.known
    BY DEF Room
  <1>2. s = Entered(e)
    OBVIOUS
  <1>. HIDE DEF e
  <1>3. CASE e.pending = "fut" /\ e.fut = "pending"
    <2>1. s = [e EXCEPT !.pending = "no", !.known = TRUE, !.fut = "ok", !.told = "entered"]
      BY <1>1, <1>2, <1>3 DEF Entered
    <2>. QED
      BY <1>1, <2>1 DEF Room
  <1>4. CASE e.pending = "none"
    <2>1. s = [e EXCEPT !.pending = "no", !.known = TRUE, !.told = "entered"]
      BY <1>1, <1>2, <1>4 DEF Entered
    <2>. QED
      BY <1>1, <2>1 DEF Room
  <1>5. CASE e.pending = "no" /\ e.known
    <2>1. s = [e EXCEPT !.told = "entered"]
      BY <1>1, <1>2, <1>5 DEF Entered
    <2>. QED
      BY <1>1, <1>5, <2>1 DEF Room
  <1>. QED
    BY <1>1, <1>3, <1>4, <1>5 DEF Room

\* The room leaves the tables for good.
LEMMA ExitProceeds ==
    ASSUME NEW r \in Room, NEW s, Story(r), r.told = "entered", r.pending = "no",
           s.told = "exited", ~s.known, ~s.joined, ~s.active, s.monitor = "off",
           s.fut = r.fut, s.pending = r.pending
    PROVE  Story(s) /\ Follows(r.told, s.told)
  BY DEF Story, Follows

(* The steps *)

LEMMA LifeInit == Init => LifeInv
  <1>. SUFFICES ASSUME Init PROVE LifeInv
    OBVIOUS
  <1>1. /\ muc.told = "nothing" /\ muc.pending = "no" /\ muc.fut = "none" /\ ~muc.known /\ ~muc.joined
        /\ ~muc.active /\ ~muc.me /\ muc.monitor = "off"
    BY DEF Init, NoRoom, Created
  <1>. QED
    BY <1>1 DEF LifeInv, StoryInv, Story, OnlyIfAuto, QuietIfDown, NotRejoining, Waiting,
                JoinIsUnderWay, PingIsLater, Init

LEMMA LifeJoin == ASSUME Inv, LifeInv, Join PROVE LifeInv' /\ Proceeds
  <1>1. /\ muc'.told = "new" /\ muc'.pending = "fut" /\ muc'.fut = "pending" /\ ~muc'.known
        /\ ~muc'.joined /\ ~muc'.active /\ ~muc'.me /\ muc'.monitor = "off"
    BY DEF Join, Created
  <1>2. UNCHANGED <<auto, dispatch, up, toClient>> /\ (~up => toRoom' = toRoom)
    BY DEF Join, env
  <1>3. up => Holds(toRoom', {"join"})
    <2>1. toRoom \in Seq(ToRoom)
      BY DEF Inv, TypeOK, ToRoom
    <2>2. up => toRoom' = Append(toRoom, "join")
      BY DEF Join
    <2>3. "join" \in ToRoom
      BY DEF ToRoom
    <2>4. \A K : Holds(Append(toRoom, "join"), K) <=> Holds(toRoom, K) \/ "join" \in K
      BY <2>1, <2>3, HoldsAppend
    <2>. QED
      BY <2>2, <2>4
  <1>. QED
    BY <1>1, <1>2, <1>3 DEF LifeInv, StoryInv, Story, OnlyIfAuto, QuietIfDown, NotRejoining, Waiting,
                JoinIsUnderWay, PingIsLater, Proceeds

LEMMA LifeCancelJoin == ASSUME Inv, LifeInv, CancelJoin PROVE LifeInv' /\ Proceeds
  <1>1. ~Kept(muc') /\ muc'.told = muc.told /\ muc'.pending = muc.pending
    BY DEF CancelJoin, Inv, TypeOK, Room, Kept
  <1>2. UNCHANGED <<auto, dispatch, up, toClient, toRoom>>
    BY DEF CancelJoin, env
  <1>. QED
    BY <1>1, <1>2 DEF LifeInv, StoryInv, OnlyIfAuto, QuietIfDown, NotRejoining, Waiting,
                JoinIsUnderWay, PingIsLater, Proceeds

LEMMA LifeLeave == ASSUME Inv, LifeInv, Leave PROVE LifeInv' /\ Proceeds
  <1>1. muc' = muc /\ muc.told = "entered" /\ up /\ UNCHANGED <<auto, dispatch, up, toClient>>
    BY DEF Leave, env
  <1>2. Kept(muc) => muc.pending # "fut"
    BY <1>1 DEF LifeInv, StoryInv, Story
  <1>. QED
    BY <1>1, <1>2 DEF LifeInv, StoryInv, OnlyIfAuto, QuietIfDown, NotRejoining, Waiting,
                JoinIsUnderWay, PingIsLater, Proceeds

LEMMA LifeJoinDone == ASSUME Inv, LifeInv, JoinDone PROVE LifeInv' /\ Proceeds
  <1>1. /\ UNCHANGED <<auto, dispatch, up, toClient>> /\ (~up => toRoom' = toRoom) /\ muc \in Room
    BY DEF JoinDone, env, Inv, TypeOK
  <1>2. CASE muc.fut = "cancelling"
    <2>1. ~Kept(muc) /\ ~Kept(muc') /\ muc'.pending = "no"
      BY <1>1, <1>2 DEF JoinDone, Room, Kept
    <2>. QED
      BY <1>1, <2>1 DEF LifeInv, StoryInv, OnlyIfAuto, QuietIfDown, NotRejoining, Waiting,
                JoinIsUnderWay, PingIsLater, Proceeds
  <1>3. CASE muc.fut = "failing"
    <2>1. Kept(muc) /\ muc.told = "new" /\ Story(muc)
      BY <1>3 DEF LifeInv, StoryInv, Story, Kept
    <2>2. muc' = [muc EXCEPT !.fut = "failed", !.told = "failed"]
      BY <1>3 DEF JoinDone
    <2>3. /\ muc'.told = "failed" /\ muc'.fut = "failed" /\ muc'.pending = muc.pending
          /\ muc'.known = muc.known /\ muc'.joined = muc.joined /\ muc'.active = muc.active
          /\ muc'.me = muc.me
      BY <1>1, <2>2 DEF Room
    <2>4. Story(muc') /\ muc'.pending = "no"
      BY <1>3, <2>1, <2>3 DEF Story
    <2>. QED
      BY <1>1, <2>1, <2>3, <2>4 DEF LifeInv, StoryInv, OnlyIfAuto, QuietIfDown, NotRejoining, Waiting,
                JoinIsUnderWay, PingIsLater, Proceeds, Follows
  <1>. QED
    BY <1>2, <1>3 DEF JoinDone

\* Nothing becomes of the room but what Alike allows, as far as the room is concerned.
LEMMA StoryKept ==
    ASSUME Inv, LifeInv, UNCHANGED auto, Alike(muc, muc'),
           muc'.monitor = muc.monitor \/ muc.told \notin {"nothing", "exited"} \/ ~Kept(muc)
    PROVE  StoryInv' /\ OnlyIfAuto' /\ Proceeds /\ (Waiting' <=> Waiting)
  <1>1. Kept(muc') <=> Kept(muc)
    BY DEF Kept, Alike
  <1>2. Kept(muc) => Story(muc')
    BY StoryAlike DEF LifeInv, StoryInv
  <1>. QED
    BY <1>1, <1>2 DEF LifeInv, StoryInv, OnlyIfAuto, Proceeds, Waiting, Alike

\* The stream is up while something arrives, and this is what is left.
LEMMA ArrivalLeaves ==
    ASSUME Inv, LifeInv, Arrival
    PROVE  /\ up /\ up' = up /\ auto' = auto /\ muc \in Room /\ muc.told \in {"nothing", "new", "entered",
                "suspended", "resumed", "exited", "failed"}
           /\ \A K : Holds(toClient, K) <=> Holds(toClient', K) \/ Head(toClient) \in K
           /\ \A K, L : Led(toClient, K, L) =>
                 Head(toClient) \notin K /\ (Head(toClient) \notin L => Led(toClient', K, L))
           /\ QuietIfDown'
  <1>1. toClient \in Seq(ToClient) /\ toClient # <<>> /\ toClient' = Tail(toClient)
        /\ up' = up /\ auto' = auto /\ muc \in Room
    BY DEF Arrival, Inv, TypeOK, ToClient, env
  <1>2. up
    BY <1>1 DEF LifeInv, QuietIfDown
  <1>. QED
    BY <1>1, <1>2, HoldsTail DEF Room, QuietIfDown

LEMMA LifeEnter ==
    ASSUME Inv, LifeInv, Arrival, Head(toClient) = "enter", PresenceArrives(TRUE), ~muc.active
    PROVE  LifeInv' /\ Proceeds
  <1>. DEFINE r == ReplayOver(Alive(muc))
              e == [r EXCEPT !.me = TRUE, !.joined = TRUE, !.active = TRUE, !.state = "history"]
  <1>1. muc \in Room /\ up /\ UNCHANGED <<up, auto>> /\ QuietIfDown' /\ Coherent(muc)
    BY ArrivalLeaves DEF Inv
  <1>2. r \in Room /\ Coherent(r) /\ Alike(muc, r) /\ (Routed(muc) => Routed(r))
    BY <1>1, AliveRoom, ReplayOverRoom, AlikeRoom, AlikeTransitive
  <1>3. muc' = Entered(e)
    BY <1>2 DEF PresenceArrives, SelfPresence, Alike
  <1>. HIDE DEF r
  <1>4. Holds(toClient, {"enter"})
    BY ArrivalLeaves
  <1>5. ASSUME ~Kept(muc) PROVE LifeInv' /\ Proceeds
    <2>. DEFINE d == [r EXCEPT !.me = TRUE, !.joined = TRUE, !.active = TRUE, !.state = "history"]
    <2>1. d \in Room /\ d.fut = muc.fut /\ d.pending = muc.pending /\ d.enterHeard = r.enterHeard
      BY <1>2 DEF Room, Alike
    <2>2. muc' = Entered(d)
      BY <1>3
    <2>. HIDE DEF d
    <2>3. d.fut # "pending" /\ d.fut \in {"cancelling", "cancelled"}
      BY <1>5, <2>1 DEF Kept
    <2>4. muc' \in {[d EXCEPT !.pending = "no", !.enterHeard = FALSE, !.told = "entered"],
                    [d EXCEPT !.pending = "no", !.known = TRUE, !.told = "entered"],
                    [d EXCEPT !.told = "entered"]}
      BY <2>2, <2>3 DEF Entered
    <2>5. muc'.fut = d.fut /\ (muc'.pending = d.pending \/ muc'.pending = "no")
      BY <2>1, <2>4 DEF Room
    <2>6. ~Kept(muc')
      BY <2>3, <2>5 DEF Kept
    <2>. QED
      BY <1>1, <1>5, <2>1, <2>5, <2>6 DEF LifeInv, StoryInv, OnlyIfAuto, NotRejoining, Waiting,
                JoinIsUnderWay, PingIsLater, Proceeds
  <1>6. ASSUME Kept(muc) PROVE LifeInv' /\ Proceeds
    <2>1. Story(muc) /\ muc.told # "suspended" /\ Routed(muc)
      BY <1>1, <1>4, <1>6 DEF LifeInv, StoryInv, NotRejoining, PresenceArrives
    <2>2. \/ muc.told = "new" /\ muc.pending = "fut" /\ muc.fut = "pending"
          \/ muc.told = "resumed" /\ muc.pending # "fut" /\ muc.known /\ muc.fut # "failing"
      BY <2>1, ArrivalLeaves DEF Story, Routed
    <2>3. r.enterHeard
      BY <1>2, <1>6 DEF Coherent, Kept, Alike
    <2>4. /\ r.pending = muc.pending /\ r.fut = muc.fut /\ r.known = muc.known
      BY <1>2 DEF Alike
    <2>5. /\ muc'.told = "entered" /\ muc'.active /\ muc'.joined /\ muc'.known /\ muc'.pending = "no"
          /\ muc'.fut = "ok" \/ muc'.fut = r.fut
      BY <1>2, <1>3, <2>2, <2>3, <2>4, EnterFields
    <2>6. Story(muc') /\ Follows(muc.told, muc'.told)
      BY <2>2, <2>4, <2>5 DEF Story, Follows
    <2>. QED
      BY <1>1, <2>5, <2>6 DEF LifeInv, StoryInv, OnlyIfAuto, NotRejoining, Waiting,
                JoinIsUnderWay, PingIsLater, Proceeds
  <1>. QED
    BY <1>5, <1>6

LEMMA LifeLeft ==
    ASSUME Inv, LifeInv, Arrival, PresenceArrives(FALSE), muc.active
    PROVE  LifeInv' /\ Proceeds
  <1>. DEFINE r == ReplayOver(Alive(muc))
  <1>1. muc \in Room /\ up /\ UNCHANGED <<up, auto>> /\ QuietIfDown' /\ Coherent(muc)
    BY ArrivalLeaves DEF Inv
  <1>2. r \in Room /\ Alike(muc, r)
    BY <1>1, AliveRoom, ReplayOverRoom, AlikeRoom, AlikeTransitive
  <1>3. muc' = [Exited(r) EXCEPT !.monitor = "off", !.joined = FALSE, !.active = FALSE]
    BY <1>2 DEF PresenceArrives, SelfPresence, Alike
  <1>. HIDE DEF r
  <1>4. ASSUME ~Kept(muc) PROVE LifeInv' /\ Proceeds
    <2>. DEFINE x == Exited(r)
    <2>1. x \in Room /\ x.fut = muc.fut /\ (x.pending = muc.pending \/ x.pending = "no")
      BY <1>2, ExitedRoom DEF Alike
    <2>2. muc' = [x EXCEPT !.monitor = "off", !.joined = FALSE, !.active = FALSE]
      BY <1>3
    <2>. HIDE DEF x
    <2>3. muc'.fut = x.fut /\ muc'.pending = x.pending
      BY <2>1, <2>2 DEF Room
    <2>4. ~Kept(muc')
      BY <1>4, <2>1, <2>3 DEF Kept
    <2>. QED
      BY <1>1, <1>4, <2>1, <2>3, <2>4 DEF LifeInv, StoryInv, OnlyIfAuto, NotRejoining, Waiting,
                JoinIsUnderWay, PingIsLater, Proceeds
  <1>5. ASSUME Kept(muc) PROVE LifeInv' /\ Proceeds
    <2>1. Story(muc) /\ muc.told = "entered" /\ muc.known /\ muc.pending = "no"
      BY <1>1, <1>5, ArrivalLeaves DEF LifeInv, StoryInv, Story, Coherent
    <2>2. /\ muc'.told = "exited" /\ ~muc'.known /\ ~muc'.joined /\ ~muc'.active /\ muc'.monitor = "off"
          /\ muc'.fut = r.fut /\ muc'.pending = r.pending
      BY <1>2, <1>3, <2>1, ExitFields DEF Alike
    <2>3. muc'.fut = muc.fut /\ muc'.pending = muc.pending
      BY <1>2, <2>2 DEF Alike
    <2>4. Story(muc') /\ Follows(muc.told, muc'.told)
      BY <1>1, <2>1, <2>2, <2>3, ExitProceeds
    <2>. QED
      BY <1>1, <2>1, <2>2, <2>3, <2>4 DEF LifeInv, StoryInv, OnlyIfAuto, NotRejoining, Waiting,
                JoinIsUnderWay, PingIsLater, Proceeds
  <1>. QED
    BY <1>4, <1>5

\* Any other presence only tells that the room is alive.
LEMMA LifePresence ==
    ASSUME Inv, LifeInv, Arrival, NEW available \in BOOLEAN, PresenceArrives(available),
           Head(toClient) = IF available THEN "enter" ELSE "left"
    PROVE  LifeInv' /\ Proceeds
  <1>. DEFINE r == ReplayOver(Alive(muc))
  <1>1. muc \in Room /\ up /\ UNCHANGED <<up, auto>> /\ QuietIfDown' /\ Coherent(muc)
    BY ArrivalLeaves DEF Inv
  <1>2. r \in Room /\ Alike(muc, r) /\ r.monitor = "armed"
    BY <1>1, AliveRoom, ReplayOverRoom, AlikeRoom, AlikeTransitive
  <1>3. dispatch /\ dispatch' = dispatch /\ toRoom' = toRoom /\ Routed(muc)
    BY DEF PresenceArrives
  <1>4. CASE ~muc.active /\ available
    BY <1>4, LifeEnter
  <1>5. CASE muc.active /\ ~available
    BY <1>5, LifeLeft
  <1>6. CASE ~(~muc.active /\ available) /\ ~(muc.active /\ ~available)
    <2>1. muc' = r
      BY <1>2, <1>6 DEF PresenceArrives, SelfPresence, Alike
    <2>. HIDE DEF r
    <2>2. ~Kept(muc) \/ muc.told \notin {"nothing", "exited"}
      BY <1>3 DEF LifeInv, StoryInv, Story, Routed
    <2>3. StoryInv' /\ OnlyIfAuto' /\ Proceeds /\ (Waiting' <=> Waiting)
      BY <1>1, <1>2, <2>1, <2>2, StoryKept
    <2>4. muc'.monitor = "armed" /\ muc'.told = muc.told /\ muc'.fut = muc.fut /\ muc'.pending = muc.pending
      BY <1>2, <2>1 DEF Alike
    <2>5. Waiting => ~muc.active
      BY <1>1 DEF Waiting, Coherent
    <2>6. Waiting => Head(toClient) \notin {"enter", "refused"}
      BY <1>6, <2>5
    <2>7. JoinIsUnderWay'
      BY <1>1, <1>3, <2>3, <2>6, ArrivalLeaves DEF LifeInv, JoinIsUnderWay
    <2>8. NotRejoining'
      BY <1>1, <1>3, <2>4, ArrivalLeaves DEF LifeInv, NotRejoining, Kept
    <2>9. PingIsLater'
      BY <1>3, <2>4 DEF PingIsLater
    <2>. QED
      BY <1>1, <2>3, <2>7, <2>8, <2>9 DEF LifeInv
  <1>. QED
    BY <1>4, <1>5, <1>6

LEMMA LifeError ==
    ASSUME Inv, LifeInv, Arrival, ErrorArrives PROVE LifeInv' /\ Proceeds
  <1>1. muc \in Room /\ up /\ UNCHANGED <<up, auto>> /\ QuietIfDown' /\ Coherent(muc) /\ toRoom' = toRoom
    BY ArrivalLeaves DEF Inv, ErrorArrives
  <1>2. muc' = [muc EXCEPT !.pending = "no",
                           !.fut = IF muc.pending = "fut" /\ @ = "pending" THEN "failing" ELSE @]
    BY DEF ErrorArrives
  <1>3. /\ muc'.told = muc.told /\ muc'.known = muc.known /\ muc'.joined = muc.joined
        /\ muc'.active = muc.active /\ muc'.me = muc.me /\ muc'.monitor = muc.monitor
        /\ muc'.pending = "no"
        /\ muc'.fut = IF muc.pending = "fut" /\ muc.fut = "pending" THEN "failing" ELSE muc.fut
    BY <1>1, <1>2 DEF Room
  <1>4. Kept(muc') <=> Kept(muc)
    BY <1>3 DEF Kept
  <1>5. Kept(muc) /\ muc.told = "suspended" => muc.pending = "no"
    BY <1>1 DEF LifeInv, NotRejoining
  <1>6. ASSUME Kept(muc) PROVE Story(muc')
    <2>1. Story(muc)
      BY <1>6 DEF LifeInv, StoryInv
    <2>2. CASE muc.pending = "fut"
      <3>1. muc.fut = "pending"
        BY <1>1, <1>6, <2>2 DEF Coherent, Kept
      <3>2. muc.told = "new"
        BY <2>1, <2>2, ArrivalLeaves DEF Story
      <3>. QED
        BY <1>3, <2>1, <2>2, <3>1, <3>2 DEF Story
    <2>3. CASE muc.pending # "fut"
      BY <1>3, <1>5, <1>6, <2>1, <2>3 DEF Story
    <2>. QED
      BY <2>2, <2>3
  <1>7. NotRejoining'
    BY <1>1, <1>3, <1>4, ArrivalLeaves DEF LifeInv, NotRejoining
  <1>. QED
    BY <1>1, <1>3, <1>4, <1>6, <1>7 DEF LifeInv, StoryInv, OnlyIfAuto, Waiting,
              JoinIsUnderWay, PingIsLater, Proceeds

LEMMA LifeMessage ==
    ASSUME Inv, LifeInv, Arrival, NEW subject \in BOOLEAN, MessageArrives(subject)
    PROVE  LifeInv' /\ Proceeds
  <1>. DEFINE r == Alive(muc)
  <1>1. muc \in Room /\ up /\ UNCHANGED <<up, auto>> /\ QuietIfDown' /\ toRoom' = toRoom /\ muc.known
        /\ UNCHANGED dispatch
    BY ArrivalLeaves DEF MessageArrives
  <1>2. r \in Room /\ Alike(muc, r)
    BY <1>1, AliveRoom, AlikeRoom DEF Inv
  <1>3. muc' = [r EXCEPT !.state = "active"] \/ muc' = ReplayOver(r)
    BY DEF MessageArrives
  <1>. HIDE DEF r
  <1>4. Alike(r, muc')
    BY <1>2, <1>3, AlikeRoom
  <1>5. Alike(muc, muc')
    BY <1>2, <1>4, AlikeTransitive
  <1>6. Kept(muc) => muc.told \notin {"nothing", "exited"} /\ muc.pending # "fut"
    BY <1>1, ArrivalLeaves DEF LifeInv, StoryInv, Story
  <1>7. StoryInv' /\ OnlyIfAuto' /\ Proceeds /\ (Waiting' <=> Waiting)
    BY <1>1, <1>5, <1>6, StoryKept
  <1>8. ~Waiting
    BY <1>6 DEF Waiting
  <1>9. NotRejoining'
    BY <1>1, <1>5, ArrivalLeaves DEF LifeInv, NotRejoining, Kept, Alike
  <1>. QED
    BY <1>1, <1>7, <1>8, <1>9 DEF LifeInv, JoinIsUnderWay, PingIsLater

\* The room lives on, whatever the monitor makes of the answer.
LEMMA LifeAlike ==
    ASSUME Inv, LifeInv, Arrival, Alike(muc, muc'), UNCHANGED <<toRoom, dispatch>>,
           muc.monitor # "off", muc'.monitor \notin {"off", "pinging"}, Head(toClient) \in {"pong", "gone"}
    PROVE  LifeInv' /\ Proceeds
  <1>1. muc \in Room /\ up /\ UNCHANGED <<up, auto>> /\ QuietIfDown'
    BY ArrivalLeaves
  <1>2. Kept(muc) => muc.told \notin {"nothing", "exited"}
    BY DEF LifeInv, StoryInv, Story
  <1>3. StoryInv' /\ OnlyIfAuto' /\ Proceeds /\ (Waiting' <=> Waiting)
    BY <1>1, <1>2, StoryKept
  <1>4. NotRejoining'
    BY <1>1, ArrivalLeaves DEF LifeInv, NotRejoining, Kept, Alike
  <1>5. JoinIsUnderWay'
    BY <1>1, <1>3, ArrivalLeaves DEF LifeInv, JoinIsUnderWay
  <1>6. PingIsLater'
    BY <1>3 DEF LifeInv, PingIsLater
  <1>. QED
    BY <1>1, <1>3, <1>4, <1>5, <1>6 DEF LifeInv

\* The service says that we are not inside: without autorejoin, the room is left.
LEMMA LifeGone ==
    ASSUME Inv, LifeInv, Arrival, PingAnswered(TRUE), Head(toClient) = "gone", ~auto
    PROVE  LifeInv' /\ Proceeds
  <1>. DEFINE r == [muc EXCEPT !.monitor = "dead"]
  <1>1. muc \in Room /\ up /\ UNCHANGED <<up, auto, toRoom, dispatch>> /\ QuietIfDown' /\ Coherent(muc)
        /\ muc.monitor = "pinging"
    BY ArrivalLeaves DEF PingAnswered, Inv
  <1>2. r \in Room /\ Alike(muc, r) /\ r.monitor = "dead"
    BY <1>1, AlikeRoom DEF Room
  <1>3. muc' = Disconnect(r)
    BY DEF PingAnswered
  <1>. HIDE DEF r
  <1>4. CASE ~r.joined
    <2>1. muc' = r
      BY <1>3, <1>4 DEF Disconnect
    <2>. QED
      BY <1>1, <1>2, <2>1, LifeAlike
  <1>5. CASE r.joined
    <2>1. muc' = [Exited(r) EXCEPT !.monitor = "off", !.joined = FALSE, !.active = FALSE,
                                   !.state = "disconnected"]
      BY <1>3, <1>5 DEF Disconnect
    <2>2. muc.joined
      BY <1>2, <1>5 DEF Alike
    <2>3. ASSUME ~Kept(muc) PROVE LifeInv' /\ Proceeds
      <3>. DEFINE x == Exited(r)
      <3>1. x \in Room /\ x.fut = muc.fut /\ (x.pending = muc.pending \/ x.pending = "no")
        BY <1>2, ExitedRoom DEF Alike
      <3>2. muc' = [x EXCEPT !.monitor = "off", !.joined = FALSE, !.active = FALSE,
                             !.state = "disconnected"]
        BY <2>1
      <3>. HIDE DEF x
      <3>3. muc'.fut = x.fut /\ muc'.pending = x.pending
        BY <3>1, <3>2 DEF Room
      <3>4. ~Kept(muc')
        BY <2>3, <3>1, <3>3 DEF Kept
      <3>. QED
        BY <1>1, <2>3, <3>1, <3>3, <3>4 DEF LifeInv, StoryInv, OnlyIfAuto, NotRejoining, Waiting,
                  JoinIsUnderWay, PingIsLater, Proceeds
    <2>4. ASSUME Kept(muc) PROVE LifeInv' /\ Proceeds
      <3>1. Story(muc) /\ muc.told = "entered" /\ muc.known /\ muc.pending = "no"
        BY <1>1, <2>2, <2>4, ArrivalLeaves DEF LifeInv, StoryInv, OnlyIfAuto, Story, Coherent
      <3>2. /\ muc'.told = "exited" /\ ~muc'.known /\ ~muc'.joined /\ ~muc'.active /\ muc'.monitor = "off"
            /\ muc'.fut = r.fut /\ muc'.pending = r.pending
        BY <1>2, <2>1, <3>1, ExitFields DEF Alike
      <3>3. muc'.fut = muc.fut /\ muc'.pending = muc.pending
        BY <1>2, <3>2 DEF Alike
      <3>4. Story(muc') /\ Follows(muc.told, muc'.told)
        BY <1>1, <3>1, <3>2, <3>3, ExitProceeds
      <3>. QED
        BY <1>1, <3>1, <3>2, <3>3, <3>4 DEF LifeInv, StoryInv, OnlyIfAuto, NotRejoining, Waiting,
                  JoinIsUnderWay, PingIsLater, Proceeds
    <2>. QED
      BY <2>3, <2>4
  <1>. QED
    BY <1>4, <1>5

\* With autorejoin it is cycled; it had been entered then.
LEMMA LifeCycle ==
    ASSUME Inv, LifeInv, Arrival, PingAnswered(TRUE), Head(toClient) = "gone", auto
    PROVE  LifeInv' /\ Proceeds
  <1>. DEFINE r == [muc EXCEPT !.monitor = "dead"]
  <1>1. muc \in Room /\ up /\ UNCHANGED <<up, auto, dispatch>> /\ QuietIfDown' /\ Coherent(muc)
        /\ muc.monitor = "pinging"
    BY ArrivalLeaves DEF PingAnswered, Inv
  <1>2. r \in Room /\ Alike(muc, r) /\ r.monitor = "dead"
    BY <1>1, AlikeRoom DEF Room
  <1>3. Cycle(r)
    BY DEF PingAnswered
  <1>. HIDE DEF r
  <1>4. CASE r.pending = "no" /\ ~r.me
    <2>1. muc' = r /\ toRoom' = toRoom
      BY <1>3, <1>4 DEF Cycle
    <2>. QED
      BY <1>1, <1>2, <2>1, LifeAlike
  <1>5. CASE ~(r.pending = "no" /\ ~r.me)
    <2>1. muc' = Resume(Suspend(r))
      BY <1>3, <1>5 DEF Cycle
    <2>2. /\ muc'.told = "resumed" /\ ~muc'.active /\ muc'.known = r.known /\ muc'.joined = r.joined
          /\ muc'.fut = r.fut /\ muc'.pending = r.pending
      BY <1>2, <2>1, ResumeFields
    <2>3. /\ muc'.known = muc.known /\ muc'.joined = muc.joined
          /\ muc'.fut = muc.fut /\ muc'.pending = muc.pending
      BY <1>2, <2>2 DEF Alike
    <2>4. ~(muc.pending = "no" /\ ~muc.me)
      BY <1>2, <1>5 DEF Alike
    <2>5. ASSUME Kept(muc)
          PROVE  muc.told \in {"entered", "resumed"} /\ Story(muc)
      <3>1. Story(muc)
        BY <2>5 DEF LifeInv, StoryInv
      <3>2. muc.told \notin {"nothing", "exited", "failed"}
        BY <1>1, <2>4, <3>1 DEF Story
      <3>3. muc.told # "suspended"
        BY <1>1, <2>4, <2>5, <3>1 DEF LifeInv, NotRejoining, Story
      <3>4. ASSUME muc.told = "new" PROVE FALSE
        <4>1. muc.pending = "fut"
          BY <2>4, <3>1, <3>4 DEF Story
        <4>2. Led(toClient, {"pong", "gone"}, {"enter", "refused"})
          BY <1>1, <2>5, <4>1 DEF LifeInv, PingIsLater, Waiting
        <4>. QED
          BY <4>2, ArrivalLeaves
      <3>. QED
        BY <3>1, <3>2, <3>3, <3>4, ArrivalLeaves
    <2>6. Kept(muc) => /\ Story(muc') /\ muc'.pending # "fut"
                       /\ muc'.told = muc.told \/ Follows(muc.told, muc'.told)
      BY <2>2, <2>3, <2>5 DEF Story, Follows
    <2>7. Kept(muc') <=> Kept(muc)
      BY <2>3 DEF Kept
    <2>. QED
      BY <1>1, <2>2, <2>3, <2>6, <2>7 DEF LifeInv, StoryInv, OnlyIfAuto, NotRejoining, Waiting,
                JoinIsUnderWay, PingIsLater, Proceeds
  <1>. QED
    BY <1>4, <1>5

\* What is dropped is not what a room waits for.
LEMMA LifeUnhandled ==
    ASSUME Inv, LifeInv, Arrival, Unhandled(Head(toClient)) PROVE LifeInv' /\ Proceeds
  <1>. DEFINE kind == Head(toClient)
  <1>1. muc \in Room /\ up /\ UNCHANGED <<up, auto, muc, dispatch, toRoom>> /\ QuietIfDown'
    BY ArrivalLeaves DEF Unhandled
  <1>2. Waiting /\ dispatch => kind \notin {"enter", "refused"}
    BY DEF Unhandled, Waiting, Routed
  <1>4. JoinIsUnderWay'
    BY <1>1, <1>2, ArrivalLeaves DEF LifeInv, JoinIsUnderWay, Waiting
  <1>5. NotRejoining'
    BY <1>1, ArrivalLeaves DEF LifeInv, NotRejoining
  <1>6. PingIsLater'
    BY <1>1, <1>2, ArrivalLeaves DEF LifeInv, PingIsLater, Waiting
  <1>. QED
    BY <1>1, <1>4, <1>5, <1>6 DEF LifeInv, StoryInv, OnlyIfAuto, Proceeds

LEMMA LifeArrival == ASSUME Inv, LifeInv, Arrival PROVE LifeInv' /\ Proceeds
  <1>. DEFINE kind == Head(toClient)
  <1>1. CASE kind \in {"enter", "left"} /\ PresenceArrives(kind = "enter")
    <2>1. CASE kind = "enter"
      <3>1. (kind = "enter") = TRUE /\ PresenceArrives(TRUE)
        BY <1>1, <2>1
      <3>. QED
        BY <2>1, <3>1, LifePresence
    <2>2. CASE kind = "left"
      <3>1. (kind = "enter") = FALSE /\ PresenceArrives(FALSE)
        BY <1>1, <2>2
      <3>. QED
        BY <2>2, <3>1, LifePresence
    <2>. QED
      BY <1>1, <2>1, <2>2
  <1>2. CASE ErrorArrives
    BY <1>2, LifeError
  <1>3. CASE MessageArrives(kind = "subject")
    <2>1. (kind = "subject") \in BOOLEAN
      OBVIOUS
    <2>. QED
      BY <1>3, <2>1, LifeMessage
  <1>4. CASE kind \in {"pong", "gone"} /\ PingAnswered(kind = "gone")
    <2>1. CASE kind = "gone"
      <3>1. (kind = "gone") = TRUE /\ PingAnswered(TRUE)
        BY <1>4, <2>1
      <3>. QED
        BY <2>1, <3>1, LifeGone, LifeCycle DEF Inv, TypeOK
    <2>2. CASE kind = "pong"
      <3>1. PingAnswered(FALSE)
        <4>1. (kind = "gone") = FALSE
          BY <2>2
        <4>. QED
          BY <1>4, <4>1
      <3>2. muc' = Alive(muc) /\ UNCHANGED <<toRoom, dispatch>> /\ muc.monitor = "pinging" /\ muc \in Room
        BY <3>1 DEF PingAnswered, Inv, TypeOK
      <3>. QED
        BY <2>2, <3>2, AlikeRoom, LifeAlike
    <2>. QED
      BY <1>4, <2>1, <2>2
  <1>5. CASE Unhandled(kind)
    BY <1>5, LifeUnhandled
  <1>. QED
    BY <1>1, <1>2, <1>3, <1>4, <1>5 DEF Arrival

LEMMA LifeSoftLimit == ASSUME Inv, LifeInv, SoftLimit PROVE LifeInv' /\ Proceeds
  <1>1. muc \in Room /\ UNCHANGED <<up, auto, dispatch, toRoom, toClient>> /\ muc.monitor = "armed"
    BY DEF SoftLimit, env, Inv, TypeOK
  <1>2. Alike(muc, muc')
    BY <1>1, AlikeRoom DEF SoftLimit
  <1>3. Kept(muc) => muc.told \notin {"nothing", "exited"}
    BY <1>1 DEF LifeInv, StoryInv, Story
  <1>4. StoryInv' /\ OnlyIfAuto' /\ Proceeds /\ (Waiting' <=> Waiting)
    BY <1>1, <1>2, <1>3, StoryKept
  <1>5. Led(toRoom, {"ping"}, {"join"}) /\ Led(toClient, {"pong", "gone"}, {"enter", "refused"})
    BY DEF SoftLimit, NoPing, InFlight, Answers, Led
  <1>6. PingIsLater'
    BY <1>1, <1>4, <1>5 DEF LifeInv, PingIsLater
  <1>7. NotRejoining' /\ JoinIsUnderWay' /\ QuietIfDown'
    BY <1>1, <1>2, <1>4 DEF LifeInv, NotRejoining, JoinIsUnderWay, QuietIfDown, Kept, Alike
  <1>. QED
    BY <1>4, <1>6, <1>7 DEF LifeInv

LEMMA LifePing == ASSUME Inv, LifeInv, Ping PROVE LifeInv' /\ Proceeds
  <1>1. up /\ UNCHANGED <<up, auto, muc, dispatch, toClient>>
    BY DEF Ping, env
  <1>2. toRoom \in Seq(ToRoom) /\ toRoom' = Append(toRoom, "ping") /\ "ping" \in ToRoom
    BY DEF Ping, Inv, TypeOK, ToRoom
  <1>3. /\ Holds(toRoom', {"join"}) <=> Holds(toRoom, {"join"})
        /\ Led(toRoom, {"ping"}, {"join"}) /\ Holds(toRoom, {"join"}) => Led(toRoom', {"ping"}, {"join"})
    BY <1>2, HoldsAppend
  <1>4. NotRejoining' /\ JoinIsUnderWay'
    BY <1>1, <1>3 DEF LifeInv, NotRejoining, JoinIsUnderWay, Waiting
  <1>5. PingIsLater'
    BY <1>1, <1>3 DEF LifeInv, PingIsLater, JoinIsUnderWay, Waiting
  <1>. QED
    BY <1>1, <1>4, <1>5 DEF LifeInv, StoryInv, OnlyIfAuto, QuietIfDown, Proceeds

LEMMA LifeEstablished == ASSUME Inv, LifeInv, Established PROVE LifeInv' /\ Proceeds
  <1>1. ~up /\ up' /\ UNCHANGED <<auto, dispatch, toClient>> /\ toRoom = <<>> /\ toClient = <<>>
        /\ muc \in Room /\ Coherent(muc)
    BY DEF Established, LifeInv, QuietIfDown, Inv, TypeOK
  <1>2. \A K, L : ~Holds(toClient, K) /\ Led(toClient, K, L) /\ ~Holds(toRoom, K) /\ Led(toRoom, K, L)
    BY <1>1, HoldsEmpty
  <1>3. CASE muc.pending = "no"
    <2>1. muc' = muc /\ toRoom' = toRoom
      BY <1>3 DEF Established
    <2>2. NotRejoining'
      BY <1>1, <1>2, <1>3, <2>1 DEF NotRejoining
    <2>. QED
      BY <1>1, <1>3, <2>1, <2>2 DEF LifeInv, StoryInv, OnlyIfAuto, QuietIfDown, Waiting,
                JoinIsUnderWay, PingIsLater, Proceeds
  <1>4. CASE muc.pending # "no"
    <2>1. toRoom' = Append(toRoom, "join") /\ muc' = IF muc.joined THEN Resume(muc) ELSE muc
      BY <1>4 DEF Established
    <2>2. Holds(toRoom', {"join"}) /\ Led(toRoom', {"ping"}, {"join"})
      <3>1. <<>> \in Seq(ToRoom) /\ "join" \in ToRoom
        BY DEF ToRoom
      <3>2. \A q \in Seq(ToRoom) :
              /\ Holds(Append(q, "join"), {"join"}) <=> Holds(q, {"join"}) \/ "join" \in {"join"}
              /\ Led(q, {"ping"}, {"join"}) /\ (Holds(q, {"join"}) \/ "join" \notin {"ping"})
                    => Led(Append(q, "join"), {"ping"}, {"join"})
        BY <3>1, HoldsAppend
      <3>. QED
        BY <1>1, <1>2, <2>1, <3>1, <3>2
    <2>3. CASE ~muc.joined
      <3>1. muc' = muc
        BY <2>1, <2>3
      <3>2. Kept(muc) => muc.told # "suspended"
        BY <2>3 DEF LifeInv, StoryInv, Story
      <3>3. NotRejoining' /\ JoinIsUnderWay'
        BY <2>2, <3>1, <3>2 DEF NotRejoining, JoinIsUnderWay
      <3>4. PingIsLater'
        BY <1>1, <1>2, <2>2, <3>1 DEF LifeInv, PingIsLater, Waiting
      <3>. QED
        BY <1>1, <3>1, <3>3, <3>4 DEF LifeInv, StoryInv, OnlyIfAuto, QuietIfDown, Proceeds
    <2>4. CASE muc.joined
      <3>1. /\ muc'.told = "resumed" /\ ~muc'.active /\ muc'.known = muc.known /\ muc'.joined = muc.joined
            /\ muc'.fut = muc.fut /\ muc'.pending = muc.pending
        BY <1>1, <2>1, <2>4, ResumeFields
      <3>2. Kept(muc') <=> Kept(muc)
        BY <3>1 DEF Kept
      <3>3. ASSUME Kept(muc)
            PROVE  Story(muc') /\ auto /\ muc'.pending # "fut"
                   /\ (muc'.told = muc.told \/ Follows(muc.told, muc'.told))
        <4>1. Story(muc)
          BY <3>3 DEF LifeInv, StoryInv
        <4>2. muc.told \in {"entered", "suspended", "resumed"}
          BY <1>1, <2>4, <4>1 DEF Story, Room
        <4>3. auto
          BY <1>1, <1>4, <4>1, <4>2 DEF LifeInv, OnlyIfAuto, Story, Room
        <4>. QED
          BY <3>1, <4>1, <4>2, <4>3 DEF Story, Follows
      <3>. QED
        BY <1>1, <3>1, <3>2, <3>3 DEF LifeInv, StoryInv, OnlyIfAuto, QuietIfDown, NotRejoining, Waiting,
                  JoinIsUnderWay, PingIsLater, Proceeds
    <2>. QED
      BY <2>3, <2>4
  <1>. QED
    BY <1>3, <1>4

\* What _stream_destroyed makes of the room.
LEMMA LifeCleanup ==
    ASSUME Inv, LifeInv, PendingFails \/ JoinedLost \/ NothingToClean
    PROVE  /\ (Kept(muc') <=> Kept(muc)) /\ (~auto => muc'.pending # "none")
           /\ Kept(muc) => /\ Story(muc') /\ (~auto => muc'.told \notin {"suspended", "resumed"})
                           /\ muc'.pending = "fut" => muc.pending = "fut" /\ muc'.monitor = muc.monitor
                           /\ muc'.told = muc.told \/ Follows(muc.told, muc'.told)
  <1>. DEFINE Goal == /\ (Kept(muc') <=> Kept(muc)) /\ (~auto => muc'.pending # "none")
                      /\ Kept(muc) => /\ Story(muc') /\ (~auto => muc'.told \notin {"suspended", "resumed"})
                                      /\ muc'.pending = "fut" => muc.pending = "fut" /\ muc'.monitor = muc.monitor
                                      /\ muc'.told = muc.told \/ Follows(muc.told, muc'.told)
  <1>1. muc \in Room /\ Coherent(muc) /\ (Kept(muc) => Story(muc))
        /\ (~auto => muc.pending # "none" /\ (Kept(muc) => muc.told \notin {"suspended", "resumed"}))
    BY DEF Inv, TypeOK, LifeInv, StoryInv, OnlyIfAuto
  <1>2. CASE muc' = muc
    BY <1>1, <1>2
  <1>3. CASE PendingFails /\ muc' # muc
    <2>1. muc.pending = "fut" /\ muc.fut = "pending" /\ muc' = [muc EXCEPT !.pending = "no", !.fut = "failing"]
      BY <1>3 DEF PendingFails
    <2>2. /\ muc'.told = muc.told /\ muc'.known = muc.known /\ muc'.joined = muc.joined
          /\ muc'.active = muc.active /\ muc'.me = muc.me /\ muc'.monitor = muc.monitor
          /\ muc'.pending = "no" /\ muc'.fut = "failing"
      BY <1>1, <2>1 DEF Room
    <2>3. Kept(muc) /\ Kept(muc')
      BY <2>1, <2>2 DEF Kept
    <2>4. muc.told = "new"
      BY <1>1, <2>1, <2>3 DEF Story, Room
    <2>5. Story(muc')
      BY <1>1, <2>2, <2>3, <2>4 DEF Story
    <2>. QED
      BY <1>1, <2>2, <2>3, <2>5
  <1>4. CASE JoinedLost /\ auto /\ muc' # muc
    <2>1. /\ muc.known
          /\ \/ muc.me /\ muc' = [Suspend(muc) EXCEPT !.pending = "none"]
             \/ ~muc.me /\ muc' = Suspend(muc)
      BY <1>4 DEF JoinedLost
    <2>2. /\ muc'.told = "suspended" /\ ~muc'.active /\ muc'.known = muc.known /\ muc'.joined = muc.joined
          /\ muc'.me = muc.me /\ muc'.fut = muc.fut /\ muc'.monitor = "off"
          /\ muc'.pending = "none" \/ muc'.pending = muc.pending
          /\ muc.me => muc'.pending = "none"
      <3>1. CASE muc' = [Suspend(muc) EXCEPT !.pending = "none"]
        <4>1. muc'.pending = "none"
          BY <1>1, <3>1, SuspendRoom DEF Room
        <4>. QED
          BY <1>1, <3>1, <4>1, SuspendFields
      <3>2. CASE ~muc.me /\ muc' = Suspend(muc)
        BY <1>1, <3>2, SuspendFields
      <3>. QED
        BY <2>1, <3>1, <3>2
    <2>3. Kept(muc') <=> Kept(muc)
      BY <2>2 DEF Kept
    <2>4. ASSUME Kept(muc)
          PROVE  /\ Story(muc') /\ muc'.pending # "fut"
                 /\ muc'.told = muc.told \/ Follows(muc.told, muc'.told)
      <3>1. Story(muc) /\ muc.told \in {"entered", "suspended", "resumed"}
        BY <1>1, <2>1, <2>4 DEF Story, Room
      <3>2. muc'.told = muc.told \/ Follows(muc.told, muc'.told)
        BY <2>2, <3>1 DEF Follows
      <3>3. muc'.known /\ muc'.joined /\ muc'.pending # "fut" /\ muc'.fut # "failing"
        BY <2>2, <3>1 DEF Story
      <3>4. muc'.pending = "no" => ~muc'.me
        BY <2>2
      <3>5. Story(muc')
        BY <2>2, <3>3, <3>4 DEF Story
      <3>. QED
        BY <3>2, <3>3, <3>5
    <2>. QED
      BY <1>4, <2>3, <2>4
  <1>5. CASE JoinedLost /\ ~auto /\ muc' # muc
    <2>1. muc.known /\ muc.joined
          /\ muc' = [Exited(muc) EXCEPT !.monitor = "off", !.joined = FALSE, !.active = FALSE,
                                        !.state = "disconnected"]
      BY <1>5 DEF JoinedLost, Disconnect
    <2>2. /\ muc'.told = "exited" /\ ~muc'.known /\ ~muc'.joined /\ ~muc'.active /\ muc'.monitor = "off"
          /\ muc'.fut = muc.fut /\ muc'.pending = muc.pending
      BY <1>1, <2>1, ExitFields
    <2>3. Kept(muc') <=> Kept(muc)
      BY <2>2 DEF Kept
    <2>4. ASSUME Kept(muc) PROVE Story(muc') /\ Follows(muc.told, muc'.told) /\ muc.pending = "no"
      <3>1. Story(muc) /\ muc.told = "entered"
        BY <1>1, <1>5, <2>1, <2>4 DEF Story, Room
      <3>2. muc.pending = "no"
        BY <1>1, <1>5, <3>1 DEF Story, Room
      <3>. QED
        BY <1>1, <2>2, <3>1, <3>2, ExitProceeds
    <2>. QED
      BY <1>1, <1>5, <2>2, <2>3, <2>4
  <1>6. Goal
    BY <1>2, <1>3, <1>4, <1>5 DEF NothingToClean
  <1>. QED
    BY <1>6

LEMMA LifeDestroyed == ASSUME Inv, LifeInv, Destroyed PROVE LifeInv' /\ Proceeds
  <1>1. /\ up' = FALSE /\ toRoom' = <<>> /\ toClient' = <<>> /\ UNCHANGED <<auto, dispatch>>
        /\ PendingFails \/ JoinedLost \/ NothingToClean
    BY DEF Destroyed
  <1>2. /\ (Kept(muc') <=> Kept(muc)) /\ (~auto => muc'.pending # "none")
        /\ Kept(muc) => /\ Story(muc') /\ (~auto => muc'.told \notin {"suspended", "resumed"})
                        /\ muc'.pending = "fut" => muc.pending = "fut" /\ muc'.monitor = muc.monitor
                        /\ muc'.told = muc.told \/ Follows(muc.told, muc'.told)
    BY <1>1, LifeCleanup
  <1>3. \A K, L : Led(toRoom', K, L) /\ Led(toClient', K, L)
    BY <1>1, HoldsEmpty
  <1>4. PingIsLater'
    BY <1>1, <1>2, <1>3 DEF LifeInv, PingIsLater, Waiting
  <1>. QED
    BY <1>1, <1>2, <1>4 DEF LifeInv, StoryInv, OnlyIfAuto, QuietIfDown, NotRejoining,
              JoinIsUnderWay, Proceeds

\* The room answers one request, and what it sends is behind what it sent before.
LEMMA LifeRoomActs == ASSUME Inv, LifeInv, RoomActs PROVE LifeInv' /\ Proceeds
  <1>. DEFINE h == Head(toRoom)
  <1>1. up /\ UNCHANGED <<up, auto, muc, dispatch>> /\ toRoom \in Seq(ToRoom) /\ toClient \in Seq(ToClient)
        /\ toRoom # <<>> /\ toRoom' = Tail(toRoom)
    BY DEF RoomActs, Inv, TypeOK, ToRoom, ToClient
  <1>2. /\ \A K : Holds(toRoom, K) <=> Holds(toRoom', K) \/ h \in K
        /\ \A K, L : Led(toRoom, K, L) => h \notin K /\ (h \notin L => Led(toRoom', K, L))
    BY <1>1, HoldsTail
  <1>3. PICK k \in Seq(ToClient) :
          /\ Sends(k)
          /\ \/ h = "join" /\ Holds(k, {"enter", "refused"}) /\ ~Holds(k, {"pong", "gone"})
             \/ h = "leave" /\ ~Holds(k, {"enter", "refused", "pong", "gone"})
             \/ h = "ping" /\ ~Holds(k, {"enter", "refused"})
    <2>1. CASE Admit
      <3>1. <<"enter", "subject">> \in Seq(ToClient)
        BY DEF ToClient
      <3>2. Holds(<<"enter", "subject">>, {"enter", "refused"}) /\ ~Holds(<<"enter", "subject">>, {"pong", "gone"})
        BY DEF Holds
      <3>. QED
        BY <2>1, <3>1, <3>2 DEF Admit
    <2>2. CASE Refuse
      <3>1. <<"refused">> \in Seq(ToClient)
        BY DEF ToClient
      <3>2. Holds(<<"refused">>, {"enter", "refused"}) /\ ~Holds(<<"refused">>, {"pong", "gone"})
        BY DEF Holds
      <3>. QED
        BY <2>2, <3>1, <3>2 DEF Refuse
    <2>3. CASE Dismiss
      <3>1. <<"left">> \in Seq(ToClient) /\ <<>> \in Seq(ToClient)
        BY DEF ToClient
      <3>2. /\ ~Holds(<<"left">>, {"enter", "refused", "pong", "gone"})
            /\ ~Holds(<<>>, {"enter", "refused", "pong", "gone"})
        BY DEF Holds
      <3>. QED
        BY <2>3, <3>1, <3>2 DEF Dismiss
    <2>4. CASE AnswerPing
      <3>1. <<"pong">> \in Seq(ToClient) /\ <<"gone">> \in Seq(ToClient)
        BY DEF ToClient
      <3>2. ~Holds(<<"pong">>, {"enter", "refused"}) /\ ~Holds(<<"gone">>, {"enter", "refused"})
        BY DEF Holds
      <3>3. Sends(<<"pong">>) \/ Sends(<<"gone">>)
        BY <2>4 DEF AnswerPing
      <3>. QED
        BY <2>4, <3>1, <3>2, <3>3 DEF AnswerPing
    <2>. QED
      BY <2>1, <2>2, <2>3, <2>4 DEF RoomActs
  <1>4. toClient' = toClient \o k
    BY <1>3 DEF Sends
  <1>5. /\ \A K : Holds(toClient', K) <=> Holds(toClient, K) \/ Holds(k, K)
        /\ \A K, L : Led(toClient, K, L) /\ (Holds(toClient, L) \/ ~Holds(k, K)) => Led(toClient', K, L)
    BY <1>1, <1>4, HoldsConcat
  <1>. HIDE DEF h
  <1>6. JoinIsUnderWay'
    BY <1>1, <1>2, <1>3, <1>5 DEF LifeInv, JoinIsUnderWay, Waiting
  <1>7. NotRejoining'
    <2>1. ASSUME NotRejoining, Kept(muc) /\ muc.told = "suspended"
          PROVE  ~Holds(toRoom', {"join"}) /\ ~Holds(toClient', {"enter"})
      <3>1. h # "join" /\ ~Holds(toRoom', {"join"}) /\ ~Holds(toClient, {"enter"})
        BY <1>1, <1>2, <2>1 DEF NotRejoining
      <3>2. ~Holds(k, {"enter", "refused"})
        <4>1. CASE h = "leave"
          BY <1>3, <4>1 DEF Holds
        <4>2. CASE h = "ping"
          BY <1>3, <4>2
        <4>. QED
          BY <1>3, <3>1, <4>1, <4>2
      <3>3. ~Holds(k, {"enter"})
        BY <3>2 DEF Holds
      <3>. QED
        BY <1>5, <3>1, <3>3
    <2>. QED
      BY <1>1, <2>1 DEF LifeInv, NotRejoining
  <1>8. PingIsLater'
    <2>. SUFFICES ASSUME Waiting, muc.monitor = "pinging"
                  PROVE  /\ Led(toRoom', {"ping"}, {"join"}) \/ Holds(toClient', {"enter", "refused"})
                         /\ Led(toClient', {"pong", "gone"}, {"enter", "refused"})
      BY <1>1 DEF LifeInv, PingIsLater, Waiting
    <2>1. /\ Led(toRoom, {"ping"}, {"join"}) \/ Holds(toClient, {"enter", "refused"})
          /\ Led(toClient, {"pong", "gone"}, {"enter", "refused"})
      BY DEF LifeInv, PingIsLater
    <2>2. Led(toRoom', {"ping"}, {"join"}) \/ Holds(toClient', {"enter", "refused"})
      BY <1>2, <1>3, <1>5, <2>1
    <2>3. ~Holds(k, {"pong", "gone"}) \/ Holds(toClient, {"enter", "refused"})
      <3>1. CASE h = "leave"
        BY <1>3, <3>1 DEF Holds
      <3>2. CASE h # "leave"
        BY <1>2, <1>3, <2>1, <3>2
      <3>. QED
        BY <3>1, <3>2
    <2>. QED
      BY <1>5, <2>1, <2>2, <2>3
  <1>. QED
    BY <1>1, <1>6, <1>7, <1>8 DEF LifeInv, StoryInv, OnlyIfAuto, QuietIfDown, Proceeds

LEMMA LifeRemove == ASSUME Inv, LifeInv, Remove \/ Talk PROVE LifeInv' /\ Proceeds
  <1>1. UNCHANGED <<up, auto, muc, dispatch, toRoom>> /\ toClient \in Seq(ToClient)
    BY DEF Remove, Talk, env, Inv, TypeOK, ToClient
  <1>2. PICK k \in Seq(ToClient) :
          /\ Sends(k) /\ (~up => k = <<>>)
          /\ ~Holds(k, {"enter"}) /\ ~Holds(k, {"pong", "gone"})
    <2>1. /\ <<"left">> \in Seq(ToClient) /\ <<"talk">> \in Seq(ToClient) /\ <<>> \in Seq(ToClient)
      BY DEF ToClient
    <2>2. \A K : {"left", "talk"} \cap K = {} => ~Holds(<<"left">>, K) /\ ~Holds(<<"talk">>, K) /\ ~Holds(<<>>, K)
      BY DEF Holds
    <2>3. \/ Sends(<<"left">>) /\ up
          \/ Sends(<<"talk">>) /\ up
          \/ Sends(<<>>)
      BY DEF Remove, Talk
    <2>. QED
      BY <2>1, <2>2, <2>3
  <1>3. toClient' = toClient \o k
    BY <1>2 DEF Sends
  <1>4. /\ \A K : Holds(toClient', K) <=> Holds(toClient, K) \/ Holds(k, K)
        /\ \A K, L : Led(toClient, K, L) /\ (Holds(toClient, L) \/ ~Holds(k, K)) => Led(toClient', K, L)
    BY <1>1, <1>3, HoldsConcat
  <1>5. QuietIfDown'
    BY <1>1, <1>2, <1>3 DEF LifeInv, QuietIfDown
  <1>6. NotRejoining' /\ JoinIsUnderWay' /\ PingIsLater'
    BY <1>1, <1>2, <1>4 DEF LifeInv, NotRejoining, JoinIsUnderWay, PingIsLater, Waiting
  <1>. QED
    BY <1>1, <1>5, <1>6 DEF LifeInv, StoryInv, OnlyIfAuto, Proceeds

LEMMA LifeStep == ASSUME Inv, LifeInv, [Next]_vars PROVE LifeInv' /\ Proceeds
  <1>1. CASE UNCHANGED vars
    BY <1>1 DEF vars, env, LifeInv, StoryInv, OnlyIfAuto, QuietIfDown, NotRejoining, Waiting,
              JoinIsUnderWay, PingIsLater, Proceeds
  <1>2. CASE Next
    BY <1>2, LifeJoin, LifeCancelJoin, LifeLeave, LifeJoinDone, LifeArrival, LifeSoftLimit, LifePing,
       LifeEstablished, LifeDestroyed, LifeRoomActs, LifeRemove DEF Next
  <1>. QED
    BY <1>1, <1>2

-----------------------------------------------------------------------------
(* Theorems *)

\* The room's tables, flags and future agree as Inv says, in every state: the
\* inductive invariant the theorems below follow from.
THEOREM Invariance == Spec => []Inv
  <1>1. Init => Inv
    BY InitInv
  <1>2. Inv /\ [Next]_vars => Inv'
    <2> SUFFICES ASSUME Inv, [Next]_vars PROVE Inv'
      OBVIOUS
    <2>1. CASE UNCHANGED vars
      BY <2>1 DEF vars, env, Inv, TypeOK, Coherent, Kept
    <2>2. CASE Next
      BY <2>2, JoinStep, CancelJoinStep, LeaveStep, JoinDoneStep, ArrivalStep, MonitorStep,
         EstablishedStep, DestroyedStep, ServiceStep
      DEF Next
    <2> QED
      BY <2>1, <2>2
  <1> QED
    BY <1>1, <1>2, PTL DEF Spec

\* The state has its type, for any bounds.
THEOREM TypeCorrect == Spec => []TypeOK
  <1>1. Inv => TypeOK
    BY DEF Inv
  <1> QED
    BY <1>1, Invariance, PTL

\* A room in use is in the table by which presence and messages reach it, however
\* often the stream is lost and the room cycled, and in no other (MUCClient).
THEOREM ActiveIsKnownThm == Spec => []ActiveIsKnown
  <1>1. Inv => ActiveIsKnown
    BY DEF Inv, Coherent, Kept, ActiveIsKnown, NotCancelled
  <1> QED
    BY <1>1, Invariance, PTL

\* What the room tells the application agrees with its entries, and the answers under way
\* with what it waits for: the inductive invariant behind the order of its signals.
THEOREM LifeInvariance == Spec => []LifeInv
  <1>1. Init => LifeInv
    BY LifeInit
  <1>2. Inv /\ LifeInv /\ [Next]_vars => LifeInv'
    BY LifeStep
  <1>. QED
    BY <1>1, <1>2, Invariance, PTL DEF Spec

\* A room's signals come in an order an application can follow, as long as its join() was
\* not cancelled: entered before anything else, exited at most once and then nothing
\* more, resumed only after it was entered, failed only instead of it. (Room's on_enter,
\* on_suspend, on_resume, on_exit and on_failure)
THEOREM LifecycleThm == Spec => Lifecycle
  <1>1. Inv /\ LifeInv /\ [Next]_vars =>
          [muc'.told # muc.told /\ NotCancelled /\ muc'.told # "new" =>
              \/ muc.told \in {"new", "resumed"} /\ muc'.told = "entered"
              \/ muc.told = "new" /\ muc'.told = "failed"
              \/ muc.told \in {"entered", "resumed"} /\ muc'.told = "suspended"
              \/ muc.told = "entered" /\ muc'.told = "exited"
              \/ muc.told \in {"entered", "suspended"} /\ muc'.told = "resumed"]_vars
    BY LifeStep DEF Proceeds, Follows, Kept, NotCancelled
  <1>. QED
    BY <1>1, Invariance, LifeInvariance, PTL DEF Spec, Lifecycle
=============================================================================
