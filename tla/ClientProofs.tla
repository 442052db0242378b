---------------------------- MODULE ClientProofs ----------------------------
(***************************************************************************)
(* The safety properties of Client hold for every bound on the attempts,   *)
(* every set of errors and whatever the servers offer.                     *)
(***************************************************************************)
EXTENDS Client, TLAPS

(***************************************************************************)
(* The inductive invariant. SessionIsKnown says nothing of when the event  *)
(* is set or how the broker may end meanwhile: MainInv and BrokerInv tie   *)
(* the broker to the place of the main task, SessionInv the event to the   *)
(* session.                                                                *)
(***************************************************************************)

\* What the main task may rely on at the place where it is.
MainInv ==
    /\ main # "off" => NotFailed
    /\ main \in {"off", "fresh"} /\ NotFailed => run = "no"
    /\ main = "resuming" => run = "no" /\ ~due /\ sm # "off" /\ "sm" \in offer
    /\ main = "binding" /\ sm # "off" => "sm" \in offer
    /\ main = "enabling" => run # "no"
    /\ main \in {"binding", "session"} /\ answer = "ok" => run # "no"

\* A running broker has a session and has not ended yet; cancelled twice, it is
\* that of an attempt given up.
BrokerInv ==
    /\ run # "no" => live /\ ~due
    /\ run = "twice" => main \in {"off", "connecting", "backoff"} /\ ~view.established

SessionInv ==
    /\ SessionIsKnown /\ FreshStart /\ WaitingIsUsable
    /\ NotFailed /\ sm = "off" /\ run = "no" => ~view.established

IInv == TypeOK /\ MainInv /\ BrokerInv /\ SessionInv

-----------------------------------------------------------------------------
(* What the shared parts of the actions do. *)

\* What the signal handlers make of the view is a view.
LEMMA Views ==
    ASSUME view \in View
    PROVE  /\ Lost \in View
           /\ \A b \in BOOLEAN : [view EXCEPT !.suspended = b] \in View
           /\ \A b \in BOOLEAN : [view EXCEPT !.established = b] \in View
           /\ \A t \in {view.told, "established"} :
                  [view EXCEPT !.suspended = FALSE, !.told = t] \in View
BY DEF View, Lost

\* After an exception the main task retries or ends with it, and the session is
\* as before or, the broker having ended, lost to the knowledge of the client.
LEMMA GivesUp ==
    ASSUME IInv, main # "off", NEW k \in Kind, NEW discard \in BOOLEAN,
           DiscardAndRetry(k, discard)
    PROVE  /\ main' \in {"off", "connecting", "backoff"}
           /\ IF main' = "off" THEN ended' \in Kind ELSE ended' = ended
           /\ captured' \in {captured, "none"} /\ attempts' \in 0..MaxAttempts
           /\ hadConn' = hadConn
           /\ sm' \in {"off", sm} /\ live' \in {FALSE, live} /\ view' \in View
           /\ \/ UNCHANGED <<sm, live, view>>
              \/ /\ run = "no" /\ sm' = "off" /\ live' = FALSE
                 /\ IF live /\ main # "fresh" THEN view' = Lost ELSE view' = view
<1>1. view \in View /\ attempts \in 0..MaxAttempts
  BY DEF IInv, TypeOK, States
<1>2. \A j \in Kind : Retry(j) \/ MainEnds(j) =>
        /\ main' \in {"off", "connecting", "backoff"}
        /\ IF main' = "off" THEN ended' \in Kind ELSE ended' = ended
        /\ captured' \in {captured, "none"} /\ attempts' \in 0..MaxAttempts
        /\ hadConn' = hadConn
  BY <1>1, AttemptsAssumption DEF Retry, MainEnds, NextAttempt
<1>3. Retry(k) \/ MainEnds("runtime")
  BY DEF DiscardAndRetry
<1>4. \/ UNCHANGED <<sm, live, view>>
      \/ run = "no" /\ SessionLost
  BY DEF DiscardAndRetry
<1>5. Lost \in View
  BY <1>1, Views
<1> QED
  BY <1>1, <1>2, <1>3, <1>4, <1>5 DEF SessionLost, Listening, Kind

\* An exception that leaves the try block of _main_impl preserves the invariant.
LEMMA Leaves ==
    ASSUME IInv, main \in Inside, NEW k \in Kind, Leave(k)
    PROVE  IInv'
<1>1. /\ main' \in {"off", "connecting", "backoff"}
      /\ IF main' = "off" THEN ended' \in Kind ELSE ended' = ended
      /\ captured' \in {captured, "none"} /\ attempts' \in 0..MaxAttempts
      /\ hadConn' = hadConn
      /\ sm' \in {"off", sm} /\ live' \in {FALSE, live} /\ view' \in View
      /\ \/ UNCHANGED <<sm, live, view>>
         \/ /\ run = "no" /\ sm' = "off" /\ live' = FALSE
            /\ IF live /\ main # "fresh" THEN view' = Lost ELSE view' = view
  <2>1. (k \in {"stream", "conflict", "refused"}) \in BOOLEAN
    OBVIOUS
  <2>2. DiscardAndRetry(k, k \in {"stream", "conflict", "refused"}) /\ main # "off"
    BY DEF Leave, Inside
  <2> QED
    BY <2>1, <2>2, GivesUp
<1>2. Flags'
  BY <1>1 DEF IInv, TypeOK, Flags, Leave, StreamStop, linkVars
<1>3. States'
  BY <1>1 DEF IInv, TypeOK, States, Leave, StreamStop, MainState, linkVars
<1>4. MainInv'
  BY <1>1 DEF IInv, MainInv, NotFailed, Kind, Leave, StreamStop, Inside, linkVars
<1>5. BrokerInv'
  BY <1>1 DEF IInv, TypeOK, MainInv, BrokerInv, SessionInv, SessionIsKnown, FreshStart,
     WaitingIsUsable, NotFailed, Flags, States, View, Lost, Kind,
     Leave, StreamStop, Inside, linkVars
<1>6. SessionInv'
  BY <1>1 DEF IInv, TypeOK, MainInv, BrokerInv, SessionInv, SessionIsKnown, FreshStart,
     WaitingIsUsable, NotFailed, Flags, States, View, Lost, Kind,
     Leave, StreamStop, Inside, linkVars
<1> QED
  BY <1>2, <1>3, <1>4, <1>5, <1>6 DEF IInv, TypeOK


\* So does one that close() raises.
LEMMA CloseRaising ==
    ASSUME IInv, main \in Inside \cup {"stopping"}, NEW k \in Kind, CloseRaises(k)
    PROVE  IInv'
<1>1. /\ main' \in {"off", "connecting", "backoff"}
      /\ IF main' = "off" THEN ended' \in Kind ELSE ended' = ended
      /\ captured' \in {captured, "none"} /\ attempts' \in 0..MaxAttempts
      /\ hadConn' = hadConn
      /\ sm' \in {"off", sm} /\ live' \in {FALSE, live} /\ view' \in View
      /\ \/ UNCHANGED <<sm, live, view>>
         \/ /\ run = "no" /\ sm' = "off" /\ live' = FALSE
            /\ IF live /\ main # "fresh" THEN view' = Lost ELSE view' = view
  BY GivesUp DEF CloseRaises, Inside
<1>2. Flags'
  BY <1>1 DEF IInv, TypeOK, Flags, CloseRaises, StreamStop, linkVars
<1>3. States'
  BY <1>1 DEF IInv, TypeOK, States, CloseRaises, StreamStop, MainState, linkVars
<1>4. MainInv'
  BY <1>1 DEF IInv, MainInv, NotFailed, Kind, CloseRaises, StreamStop, Inside, linkVars
<1>5. BrokerInv'
  BY <1>1 DEF IInv, TypeOK, MainInv, BrokerInv, SessionInv, SessionIsKnown, FreshStart,
     WaitingIsUsable, NotFailed, Flags, States, View, Lost, Kind,
     CloseRaises, StreamStop, Inside, linkVars
<1>6. SessionInv'
  BY <1>1 DEF IInv, TypeOK, MainInv, BrokerInv, SessionInv, SessionIsKnown, FreshStart,
     WaitingIsUsable, NotFailed, Flags, States, View, Lost, Kind,
     CloseRaises, StreamStop, Inside, linkVars
<1> QED
  BY <1>2, <1>3, <1>4, <1>5, <1>6 DEF IInv, TypeOK


\* And the end of a client that close() has stopped.
LEMMA CloseEnding ==
    ASSUME IInv, main \in Inside \cup {"closing", "stopping"}, run = "no", CloseEnds,
           UNCHANGED run
    PROVE  IInv'
<1>1. view' \in View
  BY Views DEF IInv, TypeOK, States, CloseEnds, SessionLost
<1>2. Flags'
  BY <1>1 DEF IInv, TypeOK, Flags, CloseEnds, SessionLost, Listening, MainEnds, linkVars
<1>3. States'
  BY <1>1 DEF IInv, TypeOK, States, CloseEnds, SessionLost, Listening, MainEnds, MainState, linkVars
<1>4. MainInv'
  BY <1>1 DEF IInv, MainInv, NotFailed, Kind, CloseEnds, SessionLost, Listening, MainEnds, Inside, linkVars
<1>5. BrokerInv'
  BY <1>1 DEF IInv, TypeOK, MainInv, BrokerInv, SessionInv, SessionIsKnown, FreshStart,
     WaitingIsUsable, NotFailed, Flags, States, View, Lost, Kind,
     CloseEnds, SessionLost, Listening, MainEnds, Inside, linkVars
<1>6. SessionInv'
  BY <1>1 DEF IInv, TypeOK, MainInv, BrokerInv, SessionInv, SessionIsKnown, FreshStart,
     WaitingIsUsable, NotFailed, Flags, States, View, Lost, Kind,
     CloseEnds, SessionLost, Listening, MainEnds, Inside, linkVars
<1> QED
  BY <1>2, <1>3, <1>4, <1>5, <1>6 DEF IInv, TypeOK

\* The end of a broker that nobody locks out preserves it.
LEMMA BrokerEnding ==
    ASSUME IInv, run # "no", LockFree, NEW why \in Kind \cup {"none"}, BrokerEnds(why)
    PROVE  IInv'
<1>1. /\ view' \in View /\ outcome' \in Kind \cup {"none"}
      /\ answer' \in Kind \cup {"none", "ok", "bad"}
      /\ answer' = "ok" => answer = "ok"
  <2>1. view \in View /\ exc \in Kind \cup {"none"}
        /\ answer \in Kind \cup {"none", "ok", "bad"}
    BY DEF IInv, TypeOK, States
  <2> QED
    BY <2>1, Views DEF BrokerEnds, SessionLost, Reason, Kind
<1>2. Flags'
  BY <1>1 DEF IInv, TypeOK, Flags, BrokerEnds, SessionLost, clientVars, linkVars
<1>3. States'
  BY <1>1 DEF IInv, TypeOK, States, BrokerEnds, SessionLost, clientVars, linkVars
<1>4. MainInv'
  BY <1>1 DEF IInv, MainInv, NotFailed, BrokerEnds, LockFree, SessionLost, Listening,
     clientVars, linkVars
<1>5. BrokerInv'
  BY <1>1 DEF IInv, TypeOK, MainInv, BrokerInv, SessionInv, SessionIsKnown, FreshStart,
     WaitingIsUsable, NotFailed, Flags, States, View, Lost,
     BrokerEnds, LockFree, SessionLost, Listening, clientVars, linkVars
<1>6. SessionInv'
  <2>1. CASE sm = "resumable"
    BY <2>1 DEF IInv, SessionInv, SessionIsKnown, FreshStart, WaitingIsUsable, NotFailed,
       BrokerEnds, clientVars
  <2>2. CASE sm # "resumable"
    <3>1. live /\ (NotFailed => Listening)
      BY DEF IInv, MainInv, BrokerInv, NotFailed, Listening
    <3>2. NotFailed => ~view'.established
      BY <2>2, <3>1 DEF BrokerEnds, SessionLost, Lost
    <3>3. main \in {"binding", "enabling", "session"} => NotFailed
      BY DEF IInv, MainInv
    <3> QED
      BY <3>2, <3>3 DEF SessionInv, SessionIsKnown, FreshStart, WaitingIsUsable, NotFailed,
         BrokerEnds, clientVars
  <2> QED
    BY <2>1, <2>2
<1> QED
  BY <1>2, <1>3, <1>4, <1>5, <1>6 DEF IInv, TypeOK

-----------------------------------------------------------------------------

\* The initial state satisfies the invariant.
LEMMA IInvInit == Init => IInv
<1> SUFFICES ASSUME Init PROVE IInv
  OBVIOUS
<1>1. Flags
  BY DEF Init, Flags
<1>2. States
  BY AttemptsAssumption DEF Init, States, View, MainState
<1>3. MainInv /\ BrokerInv /\ SessionInv
  BY DEF Init, MainInv, BrokerInv, SessionInv, SessionIsKnown, FreshStart,
     WaitingIsUsable
<1> QED
  BY <1>1, <1>2, <1>3 DEF IInv, TypeOK

\* Every step preserves it.
LEMMA IInvStep == IInv /\ [Next]_vars => IInv'
<1> SUFFICES ASSUME IInv, [Next]_vars PROVE IInv'
  OBVIOUS
<1> USE DEF clientVars, streamVars, linkVars
<1>1. view \in View /\ attempts \in 0..MaxAttempts /\ answer \in Kind \cup {"none", "ok", "bad"}
      /\ captured \in Kind \cup {"none"} /\ linkErr \in Kind \cup {"none"}
  BY DEF IInv, TypeOK, States
<1>2. CASE StartClient
  <2>1. Flags'
    BY <1>2, <1>1 DEF IInv, TypeOK, Flags, StartClient, Settled
  <2>2. States'
    BY <1>2, <1>1 DEF IInv, TypeOK, States, MainState, Inside, StartClient, Settled
  <2>3. MainInv'
    BY <1>2, <1>1 DEF IInv, MainInv, NotFailed, StartClient, Settled
  <2>4. BrokerInv'
    BY <1>2, <1>1 DEF IInv, BrokerInv, StartClient, Settled
  <2>5. SessionInv'
    BY <1>2, <1>1 DEF IInv, SessionInv, SessionIsKnown, FreshStart,
       WaitingIsUsable, NotFailed, StartClient, Settled
  <2> QED
    BY <2>1, <2>2, <2>3, <2>4, <2>5 DEF IInv, TypeOK
<1>3. CASE StopClient
  <2>1. Flags'
    BY <1>3, <1>1 DEF IInv, TypeOK, Flags, StopClient
  <2>2. States'
    BY <1>3, <1>1 DEF IInv, TypeOK, States, MainState, Inside, StopClient
  <2>3. MainInv'
    BY <1>3, <1>1 DEF IInv, MainInv, NotFailed, StopClient
  <2>4. BrokerInv'
    BY <1>3, <1>1 DEF IInv, BrokerInv, StopClient
  <2>5. SessionInv'
    BY <1>3, <1>1 DEF IInv, SessionInv, SessionIsKnown, FreshStart,
       WaitingIsUsable, NotFailed, StopClient
  <2> QED
    BY <2>1, <2>2, <2>3, <2>4, <2>5 DEF IInv, TypeOK
<1>4. CASE MainBegins
  <2>1. Flags'
    BY <1>4, <1>1 DEF IInv, TypeOK, Flags, MainBegins, NextAttempt
  <2>2. States'
    BY <1>4, <1>1, AttemptsAssumption DEF IInv, TypeOK, States, MainState,
       Inside, MainBegins, NextAttempt
  <2>3. MainInv'
    BY <1>4, <1>1 DEF IInv, MainInv, NotFailed, MainBegins, NextAttempt
  <2>4. BrokerInv'
    BY <1>4, <1>1 DEF IInv, BrokerInv, MainBegins, NextAttempt
  <2>5. SessionInv'
    BY <1>4, <1>1 DEF IInv, SessionInv, SessionIsKnown, FreshStart,
       WaitingIsUsable, NotFailed, MainBegins, NextAttempt
  <2> QED
    BY <2>1, <2>2, <2>3, <2>4, <2>5 DEF IInv, TypeOK
<1>5. CASE BackoffOver
  <2>1. Flags'
    BY <1>5, <1>1 DEF IInv, TypeOK, Flags, BackoffOver, NextAttempt
  <2>2. States'
    BY <1>5, <1>1, AttemptsAssumption DEF IInv, TypeOK, States, MainState,
       Inside, BackoffOver, NextAttempt
  <2>3. MainInv'
    BY <1>5, <1>1 DEF IInv, MainInv, NotFailed, BackoffOver, NextAttempt
  <2>4. BrokerInv'
    BY <1>5, <1>1 DEF IInv, BrokerInv, BackoffOver, NextAttempt
  <2>5. SessionInv'
    BY <1>5, <1>1 DEF IInv, SessionInv, SessionIsKnown, FreshStart,
       WaitingIsUsable, NotFailed, BackoffOver, NextAttempt
  <2> QED
    BY <2>1, <2>2, <2>3, <2>4, <2>5 DEF IInv, TypeOK
<1>6. ASSUME NEW f \in Offers, Connected(f) PROVE IInv'
  <2>0. view' \in View
    BY <1>6, <1>1, Views DEF Connected, StreamStarts, Settled, Inside
  <2>1. Flags'
    BY <1>6, <1>1 DEF IInv, TypeOK, Flags, Connected, StreamStarts, Settled, Inside
  <2>2. States'
    BY <1>6, <2>0, <1>1, OffersAssumption DEF IInv, TypeOK, States, MainState,
       Inside, Connected, StreamStarts, Settled, Inside
  <2>3. MainInv'
    BY <1>6, <1>1 DEF IInv, MainInv, NotFailed, Connected, StreamStarts,
       Settled, Inside
  <2>4. BrokerInv'
    BY <1>6, <1>1 DEF IInv, BrokerInv, Connected, StreamStarts, Settled, Inside
  <2>5. SessionInv'
    BY <1>6, <1>1 DEF IInv, MainInv, BrokerInv, SessionInv, SessionIsKnown,
       FreshStart, WaitingIsUsable, NotFailed, Lost, Connected, StreamStarts,
       Settled, Inside
  <2> QED
    BY <2>1, <2>2, <2>3, <2>4, <2>5 DEF IInv, TypeOK
<1>7. ASSUME NEW k \in Errors \cup {"refused", "other"}, ConnectFails(k) PROVE IInv'
  <2>1. k \in Kind /\ main = "connecting"
    BY <1>7, ErrorsAssumption DEF ConnectFails, Kind
  <2>2. (k = "refused") \in BOOLEAN /\ DiscardAndRetry(k, k = "refused")
    BY <1>7 DEF ConnectFails
  <2>3. /\ main' \in {"off", "connecting", "backoff"}
        /\ IF main' = "off" THEN ended' \in Kind ELSE ended' = ended
        /\ captured' \in {captured, "none"} /\ attempts' \in 0..MaxAttempts
        /\ hadConn' = hadConn
        /\ sm' \in {"off", sm} /\ live' \in {FALSE, live} /\ view' \in View
        /\ \/ UNCHANGED <<sm, live, view>>
           \/ /\ run = "no" /\ sm' = "off" /\ live' = FALSE
              /\ IF live /\ main # "fresh" THEN view' = Lost ELSE view' = view
    BY <2>1, <2>2, GivesUp
  <2> QED
    <3>1. Flags'
      BY <1>7, <2>1, <2>3, <1>1 DEF IInv, TypeOK, Flags, ConnectFails, Settled, Kind
    <3>2. States'
      BY <1>7, <2>1, <2>3, <1>1 DEF IInv, TypeOK, States, MainState, Inside,
         ConnectFails, Settled, Kind
    <3>3. MainInv'
      BY <1>7, <2>1, <2>3, <1>1 DEF IInv, MainInv, NotFailed, ConnectFails,
         Settled, Kind
    <3>4. BrokerInv'
      BY <1>7, <2>1, <2>3, <1>1 DEF IInv, BrokerInv, ConnectFails, Settled, Kind
    <3>5. SessionInv'
      BY <1>7, <2>1, <2>3, <1>1 DEF IInv, MainInv, BrokerInv, SessionInv,
         SessionIsKnown, FreshStart, WaitingIsUsable, NotFailed, Lost,
         ConnectFails, Settled, Kind
    <3> QED
      BY <3>1, <3>2, <3>3, <3>4, <3>5 DEF IInv, TypeOK
<1>8. CASE AfterResume
  <2>1. CASE Raises
    BY <1>8, <2>1, <1>1, Leaves DEF AfterResume, Raises, Resumes, Inside, Kind
  <2>2. CASE ResumeSucceeds
    <3>0. view' \in View
      BY <1>8, <2>2, <1>1, Views DEF AfterResume, Resumes, ResumeSucceeds,
         StreamUsable
    <3>1. Flags'
      BY <1>8, <2>2, <1>1 DEF IInv, TypeOK, Flags, AfterResume, Resumes,
         ResumeSucceeds, StreamUsable
    <3>2. States'
      BY <1>8, <2>2, <3>0, <1>1 DEF IInv, TypeOK, States, MainState, Inside,
         AfterResume, Resumes, ResumeSucceeds, StreamUsable
    <3>3. MainInv'
      BY <1>8, <2>2, <1>1 DEF IInv, MainInv, NotFailed, AfterResume, Resumes,
         ResumeSucceeds, StreamUsable
    <3>4. BrokerInv'
      BY <1>8, <2>2, <1>1 DEF IInv, MainInv, BrokerInv, SessionInv,
         FreshStart, NotFailed, AfterResume, Resumes, ResumeSucceeds,
         StreamUsable
    <3>5. SessionInv'
      BY <1>8, <2>2, <1>1 DEF IInv, SessionInv, SessionIsKnown, FreshStart,
         WaitingIsUsable, NotFailed, Lost, AfterResume, Resumes,
         ResumeSucceeds, StreamUsable
    <3> QED
      BY <3>1, <3>2, <3>3, <3>4, <3>5 DEF IInv, TypeOK
  <2>3. CASE ResumeRefused
    <3>0. view' \in View
      BY <1>8, <2>3, <1>1, Views DEF AfterResume, Resumes, ResumeRefused,
         StreamStarts
    <3>1. Flags'
      BY <1>8, <2>3, <1>1 DEF IInv, TypeOK, Flags, AfterResume, Resumes,
         ResumeRefused, StreamStarts
    <3>2. States'
      BY <1>8, <2>3, <3>0, <1>1 DEF IInv, TypeOK, States, MainState, Inside,
         AfterResume, Resumes, ResumeRefused, StreamStarts
    <3>3. MainInv'
      BY <1>8, <2>3, <1>1 DEF IInv, MainInv, NotFailed, AfterResume, Resumes,
         ResumeRefused, StreamStarts
    <3>4. BrokerInv'
      BY <1>8, <2>3, <1>1 DEF IInv, MainInv, BrokerInv, SessionInv,
         FreshStart, NotFailed, AfterResume, Resumes, ResumeRefused,
         StreamStarts
    <3>5. SessionInv'
      BY <1>8, <2>3, <1>1 DEF IInv, MainInv, BrokerInv, SessionInv,
         SessionIsKnown, FreshStart, WaitingIsUsable, NotFailed, Lost,
         AfterResume, Resumes, ResumeRefused, StreamStarts
    <3> QED
      BY <3>1, <3>2, <3>3, <3>4, <3>5 DEF IInv, TypeOK
  <2>4. CASE ResumeMiscounts
    <3>1. Flags'
      BY <1>8, <2>4, <1>1 DEF IInv, TypeOK, Flags, AfterResume, Resumes,
         ResumeMiscounts, StreamStarts
    <3>2. States'
      BY <1>8, <2>4, <1>1 DEF IInv, TypeOK, States, MainState, Inside,
         AfterResume, Resumes, ResumeMiscounts, StreamStarts
    <3>3. MainInv'
      BY <1>8, <2>4, <1>1 DEF IInv, MainInv, NotFailed, AfterResume, Resumes,
         ResumeMiscounts, StreamStarts
    <3>4. BrokerInv'
      BY <1>8, <2>4, <1>1 DEF IInv, MainInv, BrokerInv, SessionInv,
         FreshStart, NotFailed, AfterResume, Resumes, ResumeMiscounts,
         StreamStarts
    <3>5. SessionInv'
      BY <1>8, <2>4, <1>1 DEF IInv, MainInv, BrokerInv, SessionInv,
         SessionIsKnown, FreshStart, WaitingIsUsable, NotFailed, Lost,
         AfterResume, Resumes, ResumeMiscounts, StreamStarts
    <3> QED
      BY <3>1, <3>2, <3>3, <3>4, <3>5 DEF IInv, TypeOK
  <2> QED
    BY <1>8, <2>1, <2>2, <2>3, <2>4 DEF AfterResume
<1>9. CASE AfterBind
  <2>1. CASE Raises
    BY <1>9, <2>1, <1>1, Leaves DEF AfterBind, Raises, Resumes, Inside, Kind
  <2>2. CASE StartSM
    <3>1. Flags'
      BY <1>9, <2>2, <1>1 DEF IInv, TypeOK, Flags, AfterBind, Resumes, StartSM
    <3>2. States'
      BY <1>9, <2>2, <1>1 DEF IInv, TypeOK, States, MainState, Inside,
         AfterBind, Resumes, StartSM
    <3>3. MainInv'
      BY <1>9, <2>2, <1>1 DEF IInv, MainInv, NotFailed, AfterBind, Resumes, StartSM
    <3>4. BrokerInv'
      BY <1>9, <2>2, <1>1 DEF IInv, BrokerInv, AfterBind, Resumes, StartSM
    <3>5. SessionInv'
      BY <1>9, <2>2, <1>1 DEF IInv, SessionInv, SessionIsKnown, FreshStart,
         WaitingIsUsable, NotFailed, AfterBind, Resumes, StartSM
    <3> QED
      BY <3>1, <3>2, <3>3, <3>4, <3>5 DEF IInv, TypeOK
  <2>3. CASE StartSMRaises
    BY <1>9, <2>3, <1>1, Leaves DEF AfterBind, StartSMRaises, Reason, Resumes,
       Inside, Kind
  <2>4. CASE answer = "refused" /\ Leave("refused")
    BY <1>9, <2>4, <1>1, Leaves DEF AfterBind, Resumes, Inside, Kind
  <2>5. CASE answer = "ok" /\ "sm" \notin offer /\ Proceed
    <3>0. view' \in View
      BY <1>9, <2>5, <1>1, Views DEF AfterBind, Resumes, Proceed
    <3>1. Flags'
      BY <1>9, <2>5, <1>1 DEF IInv, TypeOK, Flags, AfterBind, Resumes, Proceed
    <3>2. States'
      BY <1>9, <2>5, <3>0, <1>1 DEF IInv, TypeOK, States, MainState, Inside,
         AfterBind, Resumes, Proceed
    <3>3. MainInv'
      BY <1>9, <2>5, <1>1 DEF IInv, MainInv, NotFailed, AfterBind, Resumes, Proceed
    <3>4. BrokerInv'
      BY <1>9, <2>5, <1>1 DEF IInv, BrokerInv, AfterBind, Resumes, Proceed
    <3>5. SessionInv'
      BY <1>9, <2>5, <1>1 DEF IInv, MainInv, BrokerInv, SessionInv,
         SessionIsKnown, FreshStart, WaitingIsUsable, NotFailed, Lost,
         AfterBind, Resumes, Proceed
    <3> QED
      BY <3>1, <3>2, <3>3, <3>4, <3>5 DEF IInv, TypeOK
  <2> QED
    BY <1>9, <2>1, <2>2, <2>3, <2>4, <2>5 DEF AfterBind
<1>10. CASE AfterEnable
  <2>1. CASE Raises
    BY <1>10, <2>1, <1>1, Leaves DEF AfterEnable, Raises, Resumes, Inside, Kind
  <2>2. CASE answer = "ok" /\ Proceed
    <3>0. view' \in View
      BY <1>10, <2>2, <1>1, Views DEF AfterEnable, Resumes, Proceed
    <3>1. Flags'
      BY <1>10, <2>2, <1>1 DEF IInv, TypeOK, Flags, AfterEnable, Resumes, Proceed
    <3>2. States'
      BY <1>10, <2>2, <3>0, <1>1 DEF IInv, TypeOK, States, MainState, Inside,
         AfterEnable, Resumes, Proceed
    <3>3. MainInv'
      BY <1>10, <2>2, <1>1 DEF IInv, MainInv, NotFailed, AfterEnable, Resumes,
         Proceed
    <3>4. BrokerInv'
      BY <1>10, <2>2, <1>1 DEF IInv, BrokerInv, AfterEnable, Resumes, Proceed
    <3>5. SessionInv'
      BY <1>10, <2>2, <1>1 DEF IInv, MainInv, BrokerInv, SessionInv,
         SessionIsKnown, FreshStart, WaitingIsUsable, NotFailed, Lost,
         AfterEnable, Resumes, Proceed
    <3> QED
      BY <3>1, <3>2, <3>3, <3>4, <3>5 DEF IInv, TypeOK
  <2> QED
    BY <1>10, <2>1, <2>2 DEF AfterEnable
<1>11. CASE AfterSession
  <2>1. CASE Raises \/ ErrorResponse
    BY <1>11, <2>1, <1>1, Leaves DEF AfterSession, Raises, ErrorResponse,
       Resumes, Inside, Kind
  <2>2. CASE answer = "ok" /\ Proceed
    <3>0. view' \in View
      BY <1>11, <2>2, <1>1, Views DEF AfterSession, Resumes, Proceed
    <3>1. Flags'
      BY <1>11, <2>2, <1>1 DEF IInv, TypeOK, Flags, AfterSession, Resumes, Proceed
    <3>2. States'
      BY <1>11, <2>2, <3>0, <1>1 DEF IInv, TypeOK, States, MainState, Inside,
         AfterSession, Resumes, Proceed
    <3>3. MainInv'
      BY <1>11, <2>2, <1>1 DEF IInv, MainInv, NotFailed, AfterSession,
         Resumes, Proceed
    <3>4. BrokerInv'
      BY <1>11, <2>2, <1>1 DEF IInv, BrokerInv, AfterSession, Resumes, Proceed
    <3>5. SessionInv'
      BY <1>11, <2>2, <1>1 DEF IInv, MainInv, BrokerInv, SessionInv,
         SessionIsKnown, FreshStart, WaitingIsUsable, NotFailed, Lost,
         AfterSession, Resumes, Proceed
    <3> QED
      BY <3>1, <3>2, <3>3, <3>4, <3>5 DEF IInv, TypeOK
  <2> QED
    BY <1>11, <2>1, <2>2 DEF AfterSession
<1>12. CASE AfterHandlers
  <2>1. CASE Raises \/ ErrorResponse
    BY <1>12, <2>1, <1>1, Leaves DEF AfterHandlers, Raises, ErrorResponse,
       Resumes, Inside, Kind
  <2>2. CASE HandlersReturn
    <3>0. view' \in View
      BY <1>12, <2>2, <1>1, Views DEF AfterHandlers, Resumes, HandlersReturn,
         StreamUsable
    <3>1. Flags'
      BY <1>12, <2>2, <1>1 DEF IInv, TypeOK, Flags, AfterHandlers, Resumes,
         HandlersReturn, StreamUsable
    <3>2. States'
      BY <1>12, <2>2, <3>0, <1>1 DEF IInv, TypeOK, States, MainState, Inside,
         AfterHandlers, Resumes, HandlersReturn, StreamUsable
    <3>3. MainInv'
      BY <1>12, <2>2, <1>1 DEF IInv, MainInv, NotFailed, AfterHandlers,
         Resumes, HandlersReturn, StreamUsable
    <3>4. BrokerInv'
      BY <1>12, <2>2, <1>1 DEF IInv, BrokerInv, AfterHandlers, Resumes,
         HandlersReturn, StreamUsable
    <3>5. SessionInv'
      BY <1>12, <2>2, <1>1 DEF IInv, MainInv, BrokerInv, SessionInv,
         SessionIsKnown, FreshStart, WaitingIsUsable, NotFailed, Lost,
         AfterHandlers, Resumes, HandlersReturn, StreamUsable
    <3> QED
      BY <3>1, <3>2, <3>3, <3>4, <3>5 DEF IInv, TypeOK
  <2> QED
    BY <1>12, <2>1, <2>2 DEF AfterHandlers
<1>13. CASE HandlersElsewhere
  <2>1. CASE \E k \in {"os", "other"} : Leave(k)
    BY <1>13, <2>1, <1>1, Leaves DEF HandlersElsewhere, Inside, Kind
  <2>2. CASE HandlersReturn
    <3>0. view' \in View
      BY <1>13, <2>2, <1>1, Views DEF HandlersElsewhere, HandlersReturn,
         StreamUsable
    <3>1. Flags'
      BY <1>13, <2>2, <1>1 DEF IInv, TypeOK, Flags, HandlersElsewhere,
         HandlersReturn, StreamUsable
    <3>2. States'
      BY <1>13, <2>2, <3>0, <1>1 DEF IInv, TypeOK, States, MainState, Inside,
         HandlersElsewhere, HandlersReturn, StreamUsable
    <3>3. MainInv'
      BY <1>13, <2>2, <1>1 DEF IInv, MainInv, NotFailed, HandlersElsewhere,
         HandlersReturn, StreamUsable
    <3>4. BrokerInv'
      BY <1>13, <2>2, <1>1 DEF IInv, BrokerInv, HandlersElsewhere,
         HandlersReturn, StreamUsable
    <3>5. SessionInv'
      BY <1>13, <2>2, <1>1 DEF IInv, MainInv, BrokerInv, SessionInv,
         SessionIsKnown, FreshStart, WaitingIsUsable, NotFailed, Lost,
         HandlersElsewhere, HandlersReturn, StreamUsable
    <3> QED
      BY <3>1, <3>2, <3>3, <3>4, <3>5 DEF IInv, TypeOK
  <2> QED
    BY <1>13, <2>1, <2>2 DEF HandlersElsewhere
<1>14. CASE StreamFailed
  BY <1>14, <1>1, Leaves DEF StreamFailed, Inside
<1>15. CASE CloseGoesOn
  <2>1. CASE CloseEnds /\ UNCHANGED run /\ run = "no"
    BY <1>15, <2>1, CloseEnding DEF CloseGoesOn, Inside
  <2>2. CASE run # "no"
    <3>1. Flags'
      BY <1>15, <2>2, <1>1 DEF IInv, TypeOK, Flags, CloseGoesOn
    <3>2. States'
      BY <1>15, <2>2, <1>1 DEF IInv, TypeOK, States, MainState, Inside, CloseGoesOn
    <3>3. MainInv'
      BY <1>15, <2>2, <1>1 DEF IInv, MainInv, NotFailed, CloseGoesOn
    <3>4. BrokerInv'
      BY <1>15, <2>2, <1>1 DEF IInv, BrokerInv, CloseGoesOn
    <3>5. SessionInv'
      BY <1>15, <2>2, <1>1 DEF IInv, SessionInv, SessionIsKnown, FreshStart,
         WaitingIsUsable, NotFailed, CloseGoesOn
    <3> QED
      BY <3>1, <3>2, <3>3, <3>4, <3>5 DEF IInv, TypeOK
  <2> QED
    BY <1>15, <2>1, <2>2 DEF CloseGoesOn
<1>16. CASE CloseReturns
  <2>1. CASE CloseEnds /\ UNCHANGED run
    BY <1>16, <2>1, CloseEnding DEF CloseReturns, Settled, Inside
  <2>2. CASE CloseRaises(outcome) /\ outcome # "none"
    BY <1>16, <2>2, CloseRaising DEF CloseReturns, Inside, IInv, TypeOK, States,
       Kind
  <2> QED
    BY <1>16, <2>1, <2>2 DEF CloseReturns
<1>17. CASE CancelledOutside
  <2>1. Flags'
    BY <1>17, <1>1 DEF IInv, TypeOK, Flags, CancelledOutside, MainEnds
  <2>2. States'
    BY <1>17, <1>1 DEF IInv, TypeOK, States, MainState, Inside,
       CancelledOutside, MainEnds
  <2>3. MainInv'
    BY <1>17, <1>1 DEF IInv, MainInv, NotFailed, CancelledOutside, MainEnds
  <2>4. BrokerInv'
    BY <1>17, <1>1 DEF IInv, BrokerInv, CancelledOutside, MainEnds
  <2>5. SessionInv'
    BY <1>17, <1>1 DEF IInv, MainInv, BrokerInv, SessionInv, SessionIsKnown,
       FreshStart, WaitingIsUsable, NotFailed, Lost, CancelledOutside, MainEnds
  <2> QED
    BY <2>1, <2>2, <2>3, <2>4, <2>5 DEF IInv, TypeOK
<1>18. CASE CancelledInside
  <2>1. CASE run = "no" /\ CloseEnds /\ UNCHANGED run
    BY <1>18, <2>1, CloseEnding DEF CancelledInside, Inside
  <2>2. CASE run # "no" /\ CloseBegins
    <3>1. Flags'
      BY <1>18, <2>2, <1>1 DEF IInv, TypeOK, Flags, CancelledInside, Inside,
         CloseBegins
    <3>2. States'
      BY <1>18, <2>2, <1>1 DEF IInv, TypeOK, States, MainState, Inside,
         CancelledInside, Inside, CloseBegins
    <3>3. MainInv'
      BY <1>18, <2>2, <1>1 DEF IInv, MainInv, NotFailed, CancelledInside,
         Inside, CloseBegins
    <3>4. BrokerInv'
      BY <1>18, <2>2, <1>1 DEF IInv, BrokerInv, CancelledInside, Inside, CloseBegins
    <3>5. SessionInv'
      BY <1>18, <2>2, <1>1 DEF IInv, SessionInv, SessionIsKnown, FreshStart,
         WaitingIsUsable, NotFailed, CancelledInside, Inside, CloseBegins
    <3> QED
      BY <3>1, <3>2, <3>3, <3>4, <3>5 DEF IInv, TypeOK
  <2>3. CASE CloseCannotBegin
    BY <1>18, <2>3, CloseRaising DEF CancelledInside, CloseCannotBegin, Reason,
       Inside, IInv, TypeOK, States, Kind
  <2> QED
    BY <1>18, <2>1, <2>2, <2>3 DEF CancelledInside
<1>19. CASE ClosingCancelled
  <2>1. Flags'
    BY <1>19, <1>1 DEF IInv, TypeOK, Flags, ClosingCancelled, StreamStop, MainEnds
  <2>2. States'
    BY <1>19, <1>1 DEF IInv, TypeOK, States, MainState, Inside,
       ClosingCancelled, StreamStop, MainEnds
  <2>3. MainInv'
    BY <1>19, <1>1 DEF IInv, MainInv, NotFailed, ClosingCancelled, StreamStop,
       MainEnds
  <2>4. BrokerInv'
    BY <1>19, <1>1 DEF IInv, BrokerInv, ClosingCancelled, StreamStop, MainEnds
  <2>5. SessionInv'
    BY <1>19, <1>1 DEF IInv, SessionInv, SessionIsKnown, FreshStart,
       WaitingIsUsable, NotFailed, ClosingCancelled, StreamStop, MainEnds
  <2> QED
    BY <2>1, <2>2, <2>3, <2>4, <2>5 DEF IInv, TypeOK
<1>20. CASE StoppingCancelled
  <2>1. CASE CloseEnds /\ UNCHANGED run /\ run = "no"
    BY <1>20, <2>1, CloseEnding DEF StoppingCancelled, Inside
  <2>2. CASE run # "no"
    <3>1. Flags'
      BY <1>20, <2>2, <1>1 DEF IInv, TypeOK, Flags, StoppingCancelled
    <3>2. States'
      BY <1>20, <2>2, <1>1 DEF IInv, TypeOK, States, MainState, Inside,
         StoppingCancelled
    <3>3. MainInv'
      BY <1>20, <2>2, <1>1 DEF IInv, MainInv, NotFailed, StoppingCancelled
    <3>4. BrokerInv'
      BY <1>20, <2>2, <1>1 DEF IInv, BrokerInv, StoppingCancelled
    <3>5. SessionInv'
      BY <1>20, <2>2, <1>1 DEF IInv, SessionInv, SessionIsKnown, FreshStart,
         WaitingIsUsable, NotFailed, StoppingCancelled
    <3> QED
      BY <3>1, <3>2, <3>3, <3>4, <3>5 DEF IInv, TypeOK
  <2> QED
    BY <1>20, <2>1, <2>2 DEF StoppingCancelled
<1>21. CASE BrokerStopped
  BY <1>21, BrokerEnding DEF BrokerStopped
<1>22. CASE BrokerDiesUncleanly
  <2>1. Flags'
    BY <1>22, <1>1 DEF IInv, TypeOK, Flags, BrokerDiesUncleanly
  <2>2. States'
    BY <1>22, <1>1 DEF IInv, TypeOK, States, MainState, Inside, BrokerDiesUncleanly
  <2>3. MainInv'
    BY <1>22, <1>1 DEF IInv, TypeOK, States, MainInv, BrokerInv, NotFailed,
       BrokerDiesUncleanly
  <2>4. BrokerInv'
    BY <1>22, <1>1 DEF IInv, BrokerInv, BrokerDiesUncleanly
  <2>5. SessionInv'
    BY <1>22, <1>1 DEF IInv, MainInv, BrokerInv, SessionInv, SessionIsKnown,
       FreshStart, WaitingIsUsable, NotFailed, Lost, BrokerDiesUncleanly
  <2> QED
    BY <2>1, <2>2, <2>3, <2>4, <2>5 DEF IInv, TypeOK
<1>23. CASE BrokerFails
  BY <1>23, <1>1, BrokerEnding DEF BrokerFails, Reason, Kind
<1>24. CASE DoneHandler
  <2>0. view' \in View
    BY <1>24, <1>1, Views DEF DoneHandler, Listening, Kind
  <2>1. Flags'
    BY <1>24, <1>1 DEF IInv, TypeOK, Flags, DoneHandler, Listening, Kind
  <2>2. States'
    BY <1>24, <2>0, <1>1 DEF IInv, TypeOK, States, MainState, Inside,
       DoneHandler, Listening, Kind
  <2>3. MainInv'
    BY <1>24, <1>1 DEF IInv, MainInv, NotFailed, DoneHandler, Listening, Kind
  <2>4. BrokerInv'
    BY <1>24, <1>1 DEF IInv, BrokerInv, DoneHandler, Listening, Kind
  <2>5. SessionInv'
    BY <1>24, <1>1 DEF IInv, TypeOK, MainInv, BrokerInv, SessionInv,
       SessionIsKnown, FreshStart, WaitingIsUsable, NotFailed, Flags, States,
       View, Lost, DoneHandler, Listening, Kind
  <2> QED
    BY <2>1, <2>2, <2>3, <2>4, <2>5 DEF IInv, TypeOK
<1>25. ASSUME NEW k \in Errors, LinkFails(k) PROVE IInv'
  <2>1. Flags'
    BY <1>25, <1>1 DEF IInv, TypeOK, Flags, LinkFails, Kind
  <2>2. States'
    BY <1>25, <1>1, ErrorsAssumption DEF IInv, TypeOK, States, MainState,
       Inside, LinkFails, Kind
  <2>3. MainInv'
    BY <1>25, <1>1 DEF IInv, MainInv, NotFailed, LinkFails, Kind
  <2>4. BrokerInv'
    BY <1>25, <1>1 DEF IInv, BrokerInv, LinkFails, Kind
  <2>5. SessionInv'
    BY <1>25, <1>1 DEF IInv, SessionInv, SessionIsKnown, FreshStart,
       WaitingIsUsable, NotFailed, LinkFails, Kind
  <2> QED
    BY <2>1, <2>2, <2>3, <2>4, <2>5 DEF IInv, TypeOK
<1>26. CASE LinkEof
  <2>1. Flags'
    BY <1>26, <1>1 DEF IInv, TypeOK, Flags, LinkEof
  <2>2. States'
    BY <1>26, <1>1 DEF IInv, TypeOK, States, MainState, Inside, LinkEof
  <2>3. MainInv'
    BY <1>26, <1>1 DEF IInv, MainInv, NotFailed, LinkEof
  <2>4. BrokerInv'
    BY <1>26, <1>1 DEF IInv, BrokerInv, LinkEof
  <2>5. SessionInv'
    BY <1>26, <1>1 DEF IInv, SessionInv, SessionIsKnown, FreshStart,
       WaitingIsUsable, NotFailed, LinkEof
  <2> QED
    BY <2>1, <2>2, <2>3, <2>4, <2>5 DEF IInv, TypeOK
<1>27. CASE LinkCloses
  <2>1. Flags'
    BY <1>27, <1>1 DEF IInv, TypeOK, Flags, LinkCloses
  <2>2. States'
    BY <1>27, <1>1 DEF IInv, TypeOK, States, MainState, Inside, LinkCloses
  <2>3. MainInv'
    BY <1>27, <1>1 DEF IInv, MainInv, NotFailed, LinkCloses
  <2>4. BrokerInv'
    BY <1>27, <1>1 DEF IInv, BrokerInv, LinkCloses
  <2>5. SessionInv'
    BY <1>27, <1>1 DEF IInv, SessionInv, SessionIsKnown, FreshStart,
       WaitingIsUsable, NotFailed, LinkCloses
  <2> QED
    BY <2>1, <2>2, <2>3, <2>4, <2>5 DEF IInv, TypeOK
<1>28. CASE OnClosing
  <2>1. Flags'
    BY <1>28, <1>1 DEF IInv, TypeOK, Flags, OnClosing, Reason, Kind
  <2>2. States'
    BY <1>28, <1>1 DEF IInv, TypeOK, States, MainState, Inside, OnClosing,
       Reason, Kind
  <2>3. MainInv'
    BY <1>28, <1>1 DEF IInv, MainInv, NotFailed, OnClosing, Reason, Kind
  <2>4. BrokerInv'
    BY <1>28, <1>1 DEF IInv, BrokerInv, OnClosing, Reason, Kind
  <2>5. SessionInv'
    BY <1>28, <1>1 DEF IInv, SessionInv, SessionIsKnown, FreshStart,
       WaitingIsUsable, NotFailed, OnClosing, Reason, Kind
  <2> QED
    BY <2>1, <2>2, <2>3, <2>4, <2>5 DEF IInv, TypeOK
<1>29. CASE ResumeAnswered
  <2>1. Flags'
    BY <1>29, <1>1 DEF IInv, TypeOK, Flags, ResumeAnswered, Answer, Kind
  <2>2. States'
    BY <1>29, <1>1 DEF IInv, TypeOK, States, MainState, Inside, ResumeAnswered,
       Answer, Kind
  <2>3. MainInv'
    BY <1>29, <1>1 DEF IInv, MainInv, NotFailed, ResumeAnswered, Answer, Kind
  <2>4. BrokerInv'
    BY <1>29, <1>1 DEF IInv, BrokerInv, ResumeAnswered, Answer, Kind
  <2>5. SessionInv'
    BY <1>29, <1>1 DEF IInv, SessionInv, SessionIsKnown, FreshStart,
       WaitingIsUsable, NotFailed, ResumeAnswered, Answer, Kind
  <2> QED
    BY <2>1, <2>2, <2>3, <2>4, <2>5 DEF IInv, TypeOK
<1>30. CASE EnableAnswered
  <2>1. Flags'
    BY <1>30, <1>1 DEF IInv, TypeOK, Flags, EnableAnswered, Answer, Kind
  <2>2. States'
    BY <1>30, <1>1 DEF IInv, TypeOK, States, MainState, Inside, EnableAnswered,
       Answer, Kind
  <2>3. MainInv'
    BY <1>30, <1>1 DEF IInv, MainInv, NotFailed, EnableAnswered, Answer, Kind
  <2>4. BrokerInv'
    BY <1>30, <1>1 DEF IInv, BrokerInv, EnableAnswered, Answer, Kind
  <2>5. SessionInv'
    BY <1>30, <1>1 DEF IInv, SessionInv, SessionIsKnown, FreshStart,
       WaitingIsUsable, NotFailed, EnableAnswered, Answer, Kind
  <2> QED
    BY <2>1, <2>2, <2>3, <2>4, <2>5 DEF IInv, TypeOK
<1>31. CASE IQAnswered
  <2>1. Flags'
    BY <1>31, <1>1 DEF IInv, TypeOK, Flags, IQAnswered, Answer, Kind
  <2>2. States'
    BY <1>31, <1>1 DEF IInv, TypeOK, States, MainState, Inside, IQAnswered,
       Answer, Kind
  <2>3. MainInv'
    BY <1>31, <1>1 DEF IInv, MainInv, NotFailed, IQAnswered, Answer, Kind
  <2>4. BrokerInv'
    BY <1>31, <1>1 DEF IInv, BrokerInv, IQAnswered, Answer, Kind
  <2>5. SessionInv'
    BY <1>31, <1>1 DEF IInv, SessionInv, SessionIsKnown, FreshStart,
       WaitingIsUsable, NotFailed, IQAnswered, Answer, Kind
  <2> QED
    BY <2>1, <2>2, <2>3, <2>4, <2>5 DEF IInv, TypeOK
<1>32. CASE UNCHANGED vars
  <2>1. Flags'
    BY <1>32, <1>1 DEF IInv, TypeOK, Flags, vars
  <2>2. States'
    BY <1>32, <1>1 DEF IInv, TypeOK, States, MainState, Inside, vars
  <2>3. MainInv'
    BY <1>32, <1>1 DEF IInv, MainInv, NotFailed, vars
  <2>4. BrokerInv'
    BY <1>32, <1>1 DEF IInv, BrokerInv, vars
  <2>5. SessionInv'
    BY <1>32, <1>1 DEF IInv, SessionInv, SessionIsKnown, FreshStart,
       WaitingIsUsable, NotFailed, vars
  <2> QED
    BY <2>1, <2>2, <2>3, <2>4, <2>5 DEF IInv, TypeOK
<1> QED
  BY <1>2, <1>3, <1>4, <1>5, <1>6, <1>7, <1>8, <1>9, <1>10, <1>11, <1>12, <1>13,
     <1>14, <1>15, <1>16, <1>17, <1>18, <1>19, <1>20, <1>21, <1>22, <1>23, <1>24,
     <1>25, <1>26, <1>27, <1>28, <1>29, <1>30, <1>31, <1>32
  DEF Next, Connect, MainContinues, Broker, Connection, Server

-----------------------------------------------------------------------------
(* The theorems *)

\* IInv holds in every reachable state.
THEOREM Invariance == Spec => []IInv
BY IInvInit, IInvStep, PTL DEF Spec

\* Every variable keeps to its type; the attempts to their bound.
THEOREM TypeCorrect == Spec => []TypeOK
BY Invariance, PTL DEF IInv

\* established_event is not left set when the session is lost, however it is lost:
\* by a broker without resumption, a server that refuses to resume or no longer
\* offers SM, an error during the negotiation, or close().
THEOREM SessionIsKnownThm == Spec => []SessionIsKnown
<1>1. IInv => SessionIsKnown
  BY DEF IInv, SessionInv
<1> QED
  BY <1>1, Invariance, PTL

\* A session is not negotiated before the loss of the last one was announced.
THEOREM FreshStartThm == Spec => []FreshStart
<1>1. IInv => FreshStart
  BY DEF IInv, SessionInv
<1> QED
  BY <1>1, Invariance, PTL

\* A client that waits for the failure of its running stream is usable.
THEOREM WaitingIsUsableThm == Spec => []WaitingIsUsable
<1>1. IInv => WaitingIsUsable
  BY DEF IInv, SessionInv
<1> QED
  BY <1>1, Invariance, PTL
=============================================================================
