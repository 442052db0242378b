-------------------------- MODULE XMLStreamProofs --------------------------
(***************************************************************************)
(* Proofs about XMLStream, for any set of error futures and with or        *)
(* without a dead-time hard limit: it implements the Connection its user   *)
(* relies on.  The inductive invariant ties the writer, the transport, the *)
(* recorded exception and the task that waits for CLOSING to the state of  *)
(* the state machine.                                                      *)
(***************************************************************************)
EXTENDS XMLStream, TLAPS

\* Types of the variables the argument depends on.
StreamTypes ==
    /\ st \in State
    /\ task \in {"waiting", "woken", "fired"}
    /\ transport \in {"none", "up", "closing", "gone"}
    /\ writer \in {"none", "open", "closed"}
    /\ written \in {"nothing", "header", "xso", "footer"}

LifeInv ==
    /\ OpenIsWritable
    /\ st = STREAM_HEADER_SENT => writer = "open" /\ transport \in {"up", "closing"}
    /\ task = "waiting" <=> st < CLOSING
    /\ written = "footer" => st >= CLOSING
    /\ inUse => st >= OPEN
    /\ st <= OPEN => ~exc

XInv == StreamTypes /\ LifeInv


LEMMA TypesStep == StreamTypes /\ [XNext]_xvars => StreamTypes'
  <1>. SUFFICES ASSUME StreamTypes, [XNext]_xvars PROVE StreamTypes'
    OBVIOUS
  <1>. USE DEF StreamTypes, State, TaskVars, Advance, CloseWriter, CloseTransport, READY,
               STREAM_HEADER_SENT, OPEN, CLOSING, CLOSING_STREAM_FOOTER_RECEIVED, CLOSED
  <1>1. CASE ConnectionMade
    BY <1>1 DEF ConnectionMade
  <1>2. CASE RxStreamHeader
    BY <1>2 DEF RxStreamHeader
  <1>3. CASE BadData
    BY <1>3 DEF BadData
  <1>4. CASE RxStreamError
    BY <1>4 DEF RxStreamError
  <1>5. CASE EofReceived
    BY <1>5 DEF EofReceived
  <1>6. CASE DeadtimeHardLimitTriggered
    BY <1>6 DEF DeadtimeHardLimitTriggered
  <1>7. CASE Close
    BY <1>7 DEF Close, DoClose
  <1>8. CASE CloseAndWait
    BY <1>8 DEF CloseAndWait, DoClose
  <1>9. CASE Abort
    BY <1>9 DEF Abort
  <1>10. CASE Reset
    BY <1>10 DEF Reset
  <1>11. CASE SendXSO
    BY <1>11 DEF SendXSO
  <1>12. CASE Negotiated
    BY <1>12 DEF Negotiated
  <1>13. CASE StreamStartsClosing
    BY <1>13 DEF StreamStartsClosing
  <1>14. CASE CloseAndWaitReturns
    BY <1>14 DEF CloseAndWaitReturns
  <1>15. ASSUME NEW err \in BOOLEAN, ConnectionLost(err) PROVE StreamTypes'
    BY <1>15 DEF ConnectionLost
  <1>16. ASSUME NEW junk \in BOOLEAN, RxStreamFooter(junk) PROVE StreamTypes'
    BY <1>16 DEF RxStreamFooter
  <1>17. ASSUME NEW f \in Futures, ErrorFuture(f) PROVE StreamTypes'
    BY <1>17 DEF ErrorFuture
  <1>18. CASE UNCHANGED xvars
    BY <1>18 DEF xvars
  <1>. QED
    BY <1>1, <1>2, <1>3, <1>4, <1>5, <1>6, <1>7, <1>8, <1>9, <1>10, <1>11, <1>12, 
       <1>13, <1>14, <1>15, <1>16, <1>17, <1>18
    DEF XNext, Lost, Footer

LEMMA LifeStep == StreamTypes /\ LifeInv /\ [XNext]_xvars => LifeInv'
  <1>. SUFFICES ASSUME StreamTypes, LifeInv, [XNext]_xvars PROVE LifeInv'
    OBVIOUS
  <1>. USE DEF StreamTypes, LifeInv, OpenIsWritable, State, TaskVars, Advance, CloseWriter,
               CloseTransport, READY, STREAM_HEADER_SENT, OPEN, CLOSING,
               CLOSING_STREAM_FOOTER_RECEIVED, CLOSED
  <1>1. CASE ConnectionMade
    BY <1>1 DEF ConnectionMade
  <1>2. CASE RxStreamHeader
    BY <1>2 DEF RxStreamHeader
  <1>3. CASE BadData
    BY <1>3 DEF BadData
  <1>4. CASE RxStreamError
    BY <1>4 DEF RxStreamError
  <1>5. CASE EofReceived
    BY <1>5 DEF EofReceived
  <1>6. CASE DeadtimeHardLimitTriggered
    BY <1>6 DEF DeadtimeHardLimitTriggered
  <1>7. CASE Close
    BY <1>7 DEF Close, DoClose
  <1>8. CASE CloseAndWait
    BY <1>8 DEF CloseAndWait, DoClose
  <1>9. CASE Abort
    BY <1>9 DEF Abort
  <1>10. CASE Reset
    BY <1>10 DEF Reset
  <1>11. CASE SendXSO
    BY <1>11 DEF SendXSO
  <1>12. CASE Negotiated
    BY <1>12 DEF Negotiated
  <1>13. CASE StreamStartsClosing
    BY <1>13 DEF StreamStartsClosing
  <1>14. CASE CloseAndWaitReturns
    BY <1>14 DEF CloseAndWaitReturns
  <1>15. ASSUME NEW err \in BOOLEAN, ConnectionLost(err) PROVE LifeInv'
    BY <1>15 DEF ConnectionLost
  <1>16. ASSUME NEW junk \in BOOLEAN, RxStreamFooter(junk) PROVE LifeInv'
    BY <1>16 DEF RxStreamFooter
  <1>17. ASSUME NEW f \in Futures, ErrorFuture(f) PROVE LifeInv'
    BY <1>17 DEF ErrorFuture
  <1>18. CASE UNCHANGED xvars
    BY <1>18 DEF xvars
  <1>. QED
    BY <1>1, <1>2, <1>3, <1>4, <1>5, <1>6, <1>7, <1>8, <1>9, <1>10, <1>11, <1>12, 
       <1>13, <1>14, <1>15, <1>16, <1>17, <1>18
    DEF XNext, Lost, Footer

LEMMA XInductive == XSpec => []XInv
  <1>1. XInit => XInv
    BY DEF XInit, XInv, StreamTypes, LifeInv, OpenIsWritable, State, READY, STREAM_HEADER_SENT,
           OPEN, CLOSING, CLOSING_STREAM_FOOTER_RECEIVED, CLOSED
  <1>2. XInv /\ [XNext]_xvars => XInv'
    BY TypesStep, LifeStep DEF XInv
  <1>. QED
    BY <1>1, <1>2, PTL DEF XSpec

\* A stream that is OPEN has a writer to send with and a transport below it.
THEOREM Writable == XSpec => []OpenIsWritable
  <1>1. XInv => OpenIsWritable
    BY DEF XInv, LifeInv
  <1>. QED
    BY <1>1, XInductive, PTL

LEMMA FooterStep ==
    XInv /\ [XNext]_xvars => (written = "footer" => written' = "footer")
  <1>. SUFFICES ASSUME StreamTypes, LifeInv, [XNext]_xvars, written = "footer"
                PROVE  written' = "footer"
    BY DEF XInv
  <1>. USE DEF LifeInv, TaskVars, CloseWriter, READY, STREAM_HEADER_SENT, OPEN, CLOSING
  <1>1. CASE ConnectionMade
    BY <1>1 DEF ConnectionMade
  <1>2. CASE RxStreamHeader
    BY <1>2 DEF RxStreamHeader
  <1>3. CASE BadData
    BY <1>3 DEF BadData
  <1>4. CASE RxStreamError
    BY <1>4 DEF RxStreamError
  <1>5. CASE EofReceived
    BY <1>5 DEF EofReceived
  <1>6. CASE DeadtimeHardLimitTriggered
    BY <1>6 DEF DeadtimeHardLimitTriggered
  <1>7. CASE Close
    BY <1>7 DEF Close, DoClose
  <1>8. CASE CloseAndWait
    BY <1>8 DEF CloseAndWait, DoClose
  <1>9. CASE Abort
    BY <1>9 DEF Abort
  <1>10. CASE Reset
    BY <1>10 DEF Reset
  <1>11. CASE SendXSO
    BY <1>11 DEF SendXSO
  <1>12. CASE Negotiated
    BY <1>12 DEF Negotiated
  <1>13. CASE StreamStartsClosing
    BY <1>13 DEF StreamStartsClosing
  <1>14. CASE CloseAndWaitReturns
    BY <1>14 DEF CloseAndWaitReturns
  <1>15. ASSUME NEW err \in BOOLEAN, ConnectionLost(err) PROVE written' = "footer"
    BY <1>15 DEF ConnectionLost
  <1>16. ASSUME NEW junk \in BOOLEAN, RxStreamFooter(junk) PROVE written' = "footer"
    BY <1>16 DEF RxStreamFooter
  <1>17. ASSUME NEW f \in Futures, ErrorFuture(f) PROVE written' = "footer"
    BY <1>17 DEF ErrorFuture
  <1>18. CASE UNCHANGED xvars
    BY <1>18 DEF xvars
  <1>. QED
    BY <1>1, <1>2, <1>3, <1>4, <1>5, <1>6, <1>7, <1>8, <1>9, <1>10, <1>11, <1>12, 
       <1>13, <1>14, <1>15, <1>16, <1>17, <1>18
    DEF XNext, Lost, Footer

\* Nothing is written after the stream footer.
THEOREM FooterLast == XSpec => FooterIsLast
  <1>1. XInv /\ [XNext]_xvars => [written = "footer" => written' = "footer"]_xvars
    BY FooterStep
  <1>. QED
    BY <1>1, XInductive, PTL DEF XSpec, FooterIsLast

-----------------------------------------------------------------------------
(* Refinement *)

LEMMA ConnectionInit == XInit => C!Init
  BY DEF XInit, C!Init

LEMMA ConnectionStep == XInv /\ [XNext]_xvars => [C!Next]_(C!connection)
  <1>. SUFFICES ASSUME StreamTypes, LifeInv, [XNext]_xvars
                PROVE  [C!Next]_(C!connection)
    BY DEF XInv
  <1>. USE DEF StreamTypes, LifeInv, State, TaskVars, Advance, READY, STREAM_HEADER_SENT, OPEN,
               CLOSING, CLOSING_STREAM_FOOTER_RECEIVED, CLOSED, C!Next, C!connection, C!Ended,
               C!Establish, C!End, C!Fail, C!Gone, C!Notify
  <1>1. CASE ConnectionMade
    BY <1>1 DEF ConnectionMade
  <1>2. CASE RxStreamHeader
    BY <1>2 DEF RxStreamHeader
  <1>3. CASE BadData
    BY <1>3 DEF BadData
  <1>4. CASE RxStreamError
    BY <1>4 DEF RxStreamError
  <1>5. CASE EofReceived
    BY <1>5 DEF EofReceived
  <1>6. CASE DeadtimeHardLimitTriggered
    BY <1>6 DEF DeadtimeHardLimitTriggered
  <1>7. CASE Close
    BY <1>7 DEF Close, DoClose
  <1>8. CASE CloseAndWait
    BY <1>8 DEF CloseAndWait, DoClose
  <1>9. CASE Abort
    BY <1>9 DEF Abort
  <1>10. CASE Reset
    BY <1>10 DEF Reset
  <1>11. CASE SendXSO
    BY <1>11 DEF SendXSO
  <1>12. CASE Negotiated
    BY <1>12 DEF Negotiated
  <1>13. CASE StreamStartsClosing
    BY <1>13 DEF StreamStartsClosing
  <1>14. CASE CloseAndWaitReturns
    BY <1>14 DEF CloseAndWaitReturns
  <1>15. ASSUME NEW err \in BOOLEAN, ConnectionLost(err) PROVE [C!Next]_(C!connection)
    <2>1. CASE ~inUse
      BY <1>15, <2>1 DEF ConnectionLost
    <2>2. CASE inUse /\ task = "fired"
      BY <1>15, <2>2 DEF ConnectionLost
    <2>3. CASE inUse /\ task # "fired" /\ exc'
      BY <1>15, <2>3 DEF ConnectionLost
    <2>4. CASE inUse /\ task # "fired" /\ ~exc'
      <3>1. ~exc
        BY <1>15, <2>4 DEF ConnectionLost
      <3>. QED
        BY <1>15, <2>4, <3>1 DEF ConnectionLost
    <2>. QED
      BY <2>1, <2>2, <2>3, <2>4
  <1>16. ASSUME NEW junk \in BOOLEAN, RxStreamFooter(junk) PROVE [C!Next]_(C!connection)
    <2>1. CASE ~inUse
      BY <1>16, <2>1 DEF RxStreamFooter
    <2>2. CASE inUse /\ task = "fired"
      BY <1>16, <2>2 DEF RxStreamFooter
    <2>3. CASE inUse /\ task # "fired" /\ exc'
      BY <1>16, <2>3 DEF RxStreamFooter
    <2>4. CASE inUse /\ task # "fired" /\ ~exc'
      <3>1. ~exc
        BY <1>16, <2>4 DEF RxStreamFooter
      <3>. QED
        BY <1>16, <2>4, <3>1 DEF RxStreamFooter
    <2>. QED
      BY <2>1, <2>2, <2>3, <2>4
  <1>17. ASSUME NEW f \in Futures, ErrorFuture(f) PROVE [C!Next]_(C!connection)
    BY <1>17 DEF ErrorFuture
  <1>18. CASE UNCHANGED xvars
    BY <1>18 DEF xvars
  <1>. QED
    BY <1>1, <1>2, <1>3, <1>4, <1>5, <1>6, <1>7, <1>8, <1>9, <1>10, <1>11, <1>12, 
       <1>13, <1>14, <1>15, <1>16, <1>17, <1>18
    DEF XNext, Lost, Footer

\* However an XML stream is driven and however it ends, its user sees one
\* opening, one end, and one notification that carries the error known then.
THEOREM ConnectionImplemented == XSpec => ImplementsConnection
  <1>. QED
    BY ConnectionInit, ConnectionStep, XInductive, PTL DEF XSpec, ImplementsConnection, C!Spec
=============================================================================
