------------------------- MODULE StanzaStreamProofs -------------------------
(***************************************************************************)
(* Proofs about StanzaStream, for any sets of tokens and payloads and any  *)
(* modulus of the counters.                                                *)
(*                                                                         *)
(* The inductive invariant has three parts.  ControlInv ties the futures,  *)
(* the lock and the coroutines to the point the broker task has reached;   *)
(* it is what makes the values the handlers take out of the futures well   *)
(* typed.  PlaceInv ties the state of a token to the queues it is in.      *)
(* ClosedInv says what close() leaves.                                     *)
(*                                                                         *)
(* The action properties follow from it: Lifecycle lists the changes of a  *)
(* token's state that any step makes, Senders the steps that send one.     *)
(***************************************************************************)
EXTENDS StanzaStream, TLAPS

-----------------------------------------------------------------------------
(* The elements of sequences (ToSet, IsInjective) under the operations the   *)
(* stream performs on its queues.                                            *)

\* ToSet and the type of the sequence operations _active_queue and
\* _sm_unacked_list go through (append, popleft, extendleft).
LEMMA ElementsOfEmpty ==
    ToSet(<<>>) = {} /\ IsInjective(<<>>)
  BY DEF ToSet, IsInjective

LEMMA ElementsOfSingleton ==
    ASSUME NEW S, NEW e \in S
    PROVE  <<e>> \in Seq(S) /\ ToSet(<<e>>) = {e} /\ IsInjective(<<e>>)
  BY DEF ToSet, IsInjective

LEMMA InSequence ==
    ASSUME NEW S, NEW s \in Seq(S), NEW i \in 1..Len(s)
    PROVE  s[i] \in ToSet(s)
  BY DEF ToSet

LEMMA SequenceWithin ==
    ASSUME NEW S, NEW s \in Seq(S), NEW T, \A i \in 1..Len(s) : s[i] \in T
    PROVE  ToSet(s) \subseteq T
  BY DEF ToSet

LEMMA ElementsInSet ==
    ASSUME NEW S, NEW s \in Seq(S)
    PROVE  /\ ToSet(s) \subseteq S
           /\ s # <<>> => Head(s) \in ToSet(s)
           /\ ToSet(s) = {} <=> s = <<>>
  BY DEF ToSet

LEMMA ElementsOfAppend ==
    ASSUME NEW S, NEW s \in Seq(S), NEW e \in S
    PROVE  /\ Append(s, e) \in Seq(S)
           /\ ToSet(Append(s, e)) = ToSet(s) \cup {e}
           /\ IsInjective(s) /\ e \notin ToSet(s) => IsInjective(Append(s, e))
  <1> DEFINE a == Append(s, e)
  <1>1. /\ a \in Seq(S) /\ Len(a) = Len(s) + 1 /\ a[Len(s) + 1] = e
        /\ \A i \in 1..Len(s) : a[i] = s[i]
    OBVIOUS
  <1>. HIDE DEF a
  <1>2. ToSet(a) = ToSet(s) \cup {e}
    <2>1. \A i \in 1..Len(s) : s[i] \in ToSet(a)
      BY <1>1, InSequence
    <2>2. e \in ToSet(a)
      BY <1>1, InSequence
    <2>3. \A i \in 1..Len(a) : a[i] \in ToSet(s) \cup {e}
      BY <1>1, InSequence
    <2>. QED
      BY <1>1, <2>1, <2>2, <2>3 DEF ToSet
  <1>3. IsInjective(s) /\ e \notin ToSet(s) => IsInjective(a)
    BY <1>1, InSequence DEF IsInjective
  <1>. QED
    BY <1>1, <1>2, <1>3 DEF a

LEMMA ElementsOfTail ==
    ASSUME NEW S, NEW s \in Seq(S), s # <<>>
    PROVE  /\ Head(s) \in S /\ Tail(s) \in Seq(S)
           /\ ToSet(s) = {Head(s)} \cup ToSet(Tail(s))
           /\ IsInjective(s) => IsInjective(Tail(s)) /\ Head(s) \notin ToSet(Tail(s))
  <1>1. Head(s) \in S /\ Tail(s) \in Seq(S)
    OBVIOUS
  <1>2. ToSet(s) = {Head(s)} \cup ToSet(Tail(s))
    <2>1. /\ Len(Tail(s)) = Len(s) - 1 /\ Head(s) = s[1] /\ 1 \in 1..Len(s)
          /\ \A i \in 1..Len(Tail(s)) : Tail(s)[i] = s[i + 1]
      OBVIOUS
    <2>2. \A i \in 1..Len(s) : s[i] \in {Head(s)} \cup ToSet(Tail(s))
      <3>. SUFFICES ASSUME NEW i \in 1..Len(s), i # 1 PROVE s[i] \in ToSet(Tail(s))
        BY <2>1
      <3>1. i - 1 \in 1..Len(Tail(s)) /\ Tail(s)[i - 1] = s[i]
        BY <2>1
      <3>. QED
        BY <1>1, <3>1, InSequence
    <2>3. \A i \in 1..Len(Tail(s)) : Tail(s)[i] \in ToSet(s)
      BY <2>1, InSequence
    <2>4. Head(s) \in ToSet(s)
      BY <2>1, InSequence
    <2>. QED
      BY <1>1, <2>2, <2>3, <2>4 DEF ToSet
  <1>3. IsInjective(s) => IsInjective(Tail(s)) /\ Head(s) \notin ToSet(Tail(s))
    BY DEF ToSet, IsInjective
  <1>. QED
    BY <1>1, <1>2, <1>3

LEMMA ElementsOfConcat ==
    ASSUME NEW S, NEW s \in Seq(S), NEW t \in Seq(S)
    PROVE  /\ s \o t \in Seq(S)
           /\ ToSet(s \o t) = ToSet(s) \cup ToSet(t)
           /\ IsInjective(s) /\ IsInjective(t) /\ ToSet(s) \cap ToSet(t) = {}
                 => IsInjective(s \o t)
  <1>1. s \o t \in Seq(S)
    OBVIOUS
  <1>2. ToSet(s \o t) = ToSet(s) \cup ToSet(t)
    <2>1. /\ Len(s \o t) = Len(s) + Len(t)
          /\ \A i \in 1..Len(s) : (s \o t)[i] = s[i]
          /\ \A i \in 1..Len(t) : (s \o t)[Len(s) + i] = t[i]
      OBVIOUS
    <2>2. \A i \in 1..Len(s \o t) : (s \o t)[i] \in ToSet(s) \cup ToSet(t)
      <3>. SUFFICES ASSUME NEW i \in 1..Len(s \o t), i > Len(s) PROVE (s \o t)[i] \in ToSet(t)
        BY <2>1, InSequence
      <3>1. i - Len(s) \in 1..Len(t) /\ (s \o t)[i] = t[i - Len(s)]
        BY <2>1
      <3>. QED
        BY <3>1, InSequence
    <2>3. \A i \in 1..Len(s) : s[i] \in ToSet(s \o t)
      <3>. SUFFICES ASSUME NEW i \in 1..Len(s) PROVE s[i] \in ToSet(s \o t)
        OBVIOUS
      <3>1. i \in 1..Len(s \o t)
        BY <2>1
      <3>. QED
        BY <1>1, <2>1, <3>1, InSequence
    <2>4. \A i \in 1..Len(t) : t[i] \in ToSet(s \o t)
      <3>. SUFFICES ASSUME NEW i \in 1..Len(t) PROVE t[i] \in ToSet(s \o t)
        OBVIOUS
      <3>1. Len(s) + i \in 1..Len(s \o t)
        BY <2>1
      <3>. QED
        BY <1>1, <2>1, <3>1, InSequence
    <2>5. ToSet(s \o t) \subseteq ToSet(s) \cup ToSet(t)
      BY <1>1, <2>2 DEF ToSet
    <2>6. ToSet(s) \subseteq ToSet(s \o t) /\ ToSet(t) \subseteq ToSet(s \o t)
      BY <2>3, <2>4, SequenceWithin
    <2>. QED
      BY <2>5, <2>6
  <1>3. IsInjective(s) /\ IsInjective(t) /\ ToSet(s) \cap ToSet(t) = {} => IsInjective(s \o t)
    BY DEF ToSet, IsInjective
  <1>. QED
    BY <1>1, <1>2, <1>3

LEMMA ElementsOfReverse ==
    ASSUME NEW S, NEW s \in Seq(S)
    PROVE  /\ Reverse(s) \in Seq(S)
           /\ ToSet(Reverse(s)) = ToSet(s)
           /\ IsInjective(s) => IsInjective(Reverse(s))
  <1>1. Reverse(s) \in Seq(S) /\ Len(Reverse(s)) = Len(s)
    BY DEF Reverse
  <1>2. ToSet(Reverse(s)) = ToSet(s)
    <2>1. \A i \in 1..Len(s) : Reverse(s)[i] \in ToSet(s)
      <3>. SUFFICES ASSUME NEW i \in 1..Len(s) PROVE Reverse(s)[i] \in ToSet(s)
        OBVIOUS
      <3>1. Len(s) - i + 1 \in 1..Len(s) /\ Reverse(s)[i] = s[Len(s) - i + 1]
        BY DEF Reverse
      <3>. QED
        BY <3>1, InSequence
    <2>2. \A i \in 1..Len(s) : s[i] \in ToSet(Reverse(s))
      <3>. SUFFICES ASSUME NEW i \in 1..Len(s) PROVE s[i] \in ToSet(Reverse(s))
        OBVIOUS
      <3>1. Len(s) - i + 1 \in 1..Len(s) /\ Reverse(s)[Len(s) - i + 1] = s[i]
        BY DEF Reverse
      <3>. QED
        BY <1>1, <3>1, InSequence
    <2>. QED
      BY <1>1, <2>1, <2>2 DEF ToSet
  <1>3. IsInjective(s) => IsInjective(Reverse(s))
    BY <1>1 DEF IsInjective, Reverse
  <1>. QED
    BY <1>1, <1>2, <1>3

\* Splitting a list after its first n elements, as sm_ack does.
LEMMA ElementsOfSplit ==
    ASSUME NEW S, NEW s \in Seq(S), NEW n \in 0..Len(s)
    PROVE  LET rest == SubSeq(s, n + 1, Len(s))
               done == {s[i] : i \in 1..n}
           IN  /\ rest \in Seq(S)
               /\ ToSet(s) = done \cup ToSet(rest)
               /\ IsInjective(s) => IsInjective(rest) /\ done \cap ToSet(rest) = {}
  <1> DEFINE rest == SubSeq(s, n + 1, Len(s))
             done == {s[i] : i \in 1..n}
  <1>1. rest \in Seq(S) /\ Len(rest) = Len(s) - n /\ \A i \in 1..Len(rest) : rest[i] = s[n + i]
    OBVIOUS
  <1>2. ToSet(s) = done \cup ToSet(rest)
    <2>1. \A i \in 1..Len(s) : s[i] \in done \cup ToSet(rest)
      <3>. SUFFICES ASSUME NEW i \in 1..Len(s), i > n PROVE s[i] \in ToSet(rest)
        OBVIOUS
      <3>1. i - n \in 1..Len(rest) /\ rest[i - n] = s[i]
        BY <1>1
      <3>. QED
        BY <1>1, <3>1, InSequence
    <2>2. \A i \in 1..Len(rest) : rest[i] \in ToSet(s)
      BY <1>1, InSequence
    <2>. QED
      BY <1>1, <2>1, <2>2 DEF ToSet
  <1>3. IsInjective(s) => IsInjective(rest) /\ done \cap ToSet(rest) = {}
    BY <1>1 DEF ToSet, IsInjective
  <1>. QED
    BY <1>1, <1>2, <1>3

-----------------------------------------------------------------------------
(* The inductive invariant *)

ControlInv ==
    /\ broker \in {"none", "fresh", "final"} => afut = <<>> /\ ifut = <<>>
    /\ broker \in {"first", "bulk"} => afut # <<>>
    /\ broker = "incoming" => ifut # <<>>
    /\ broker = "lock" => bdone # {}
    /\ "active" \in bdone => afut # <<>>
    /\ "incoming" \in bdone => ifut # <<>>
    /\ ~Yielded => smop = "none"
    /\ broker = "first" => ~cancel
    /\ smop = "requested" => ~smEnabled
    /\ rsop # NoResume => ~Running /\ smop = "none"
    /\ rsop.at = "resumed" => rsop.h \in Counter
    /\ closer \in {"xmlstream", "task"} => smop = "none" /\ rsop = NoResume

\* A token in the queue has not got a verdict of the session yet. FAILED and
\* DROPPED ones get there when a batch is abandoned after its last stanza.
QueuedState == {"ACTIVE", "ABORTED", "SENT", "FAILED", "DROPPED"}

PlaceInv ==
    /\ AtMostOnePlace
    /\ ActiveIsQueued
    /\ SentIsTracked
    /\ UnackedIsSent
    /\ \A t \in Queued : state[t] \in QueuedState
    /\ broker = "bulk" =>
          /\ state[Head(afut)] \notin {"NEW", "ACTIVE"}
          /\ conn # "open" => state[Head(afut)] \in {"ABORTED", "DROPPED", "FAILED"}

ClosedInv ==
    closed => /\ ~Running /\ ~smEnabled /\ ~established
              /\ active = <<>> /\ smop = "none" /\ rsop = NoResume

IInv == TypeOK /\ ControlInv /\ PlaceInv /\ ClosedInv

-----------------------------------------------------------------------------
(* Type correctness. The Boolean variables are split off: the two back ends *)
(* are good at one part each.                                               *)

BooleanOK ==
    /\ smEnabled \in BOOLEAN /\ smResumable \in BOOLEAN
    /\ cancel \in BOOLEAN
    /\ established \in BOOLEAN /\ closed \in BOOLEAN
    /\ connErr \in BOOLEAN /\ notified \in BOOLEAN

DataOK ==
    /\ state \in [Tokens -> TokenState]
    /\ active \in Seq(Tokens) /\ unacked \in Seq(Tokens)
    /\ incoming \in Seq(Element)
    /\ afut \in Seq(Tokens) /\ Len(afut) <= 1
    /\ ifut \in Seq(Element) /\ Len(ifut) <= 1
    /\ outBase \in Counter /\ inCtr \in Counter
    /\ broker \in BrokerState
    /\ bdone \subseteq {"active", "incoming"}
    /\ raised \in {"cancelled", "error"}
    /\ exc \in {"none", "conn", "destruction"}
    /\ smop \in {"none", "requested", "replied", "refused"}
    /\ rsop \in [at : {"none", "requested", "resumed", "refused"},
                 h : Counter \cup {NoCounter}]
    /\ closer \in {"none", "xmlstream", "task", "raised"}
    /\ conn \in {"none", "open", "closing", "down"}
    /\ classes \subseteq {"stanza", "nonza"}

LEMMA TypeParts == TypeOK <=> BooleanOK /\ DataOK
  BY DEF TypeOK, BooleanOK, DataOK

LEMMA BooleanStep == BooleanOK /\ [Next]_vars => BooleanOK'
  <1>. SUFFICES ASSUME BooleanOK, [Next]_vars PROVE BooleanOK'
    OBVIOUS
  <1>. USE DEF BooleanOK, smVars, taskVars, streamVars, connVars
  <1>1. CASE Stop
    BY <1>1, Zenon DEF Stop
  <1>2. CASE BrokerStart
    BY <1>2, Zenon DEF BrokerStart
  <1>3. CASE BrokerNeverRuns
    BY <1>3, Zenon DEF BrokerNeverRuns
  <1>4. CASE BrokerWake
    BY <1>4, Zenon DEF BrokerWake, Serve, FuturesDone, LockFree
  <1>5. CASE BrokerLocks
    BY <1>5, Zenon DEF BrokerLocks, Serve, LockFree
  <1>6. CASE SendFirst
    BY <1>6, Zenon DEF SendFirst, SendStanza, Aborted
  <1>7. CASE SendNext
    BY <1>7, Zenon DEF SendNext, SendStanza, Aborted
  <1>8. CASE BatchDone
    BY <1>8, Zenon DEF BatchDone, AfterBatch
  <1>9. CASE BatchRaises
    BY <1>9, Zenon DEF BatchRaises, Terminate, Cleanup, DestroyState, LockFree, Rescued, Drain, SMOff, Abandoned
  <1>10. CASE ProcessStanza
    BY <1>10, Zenon DEF ProcessStanza, IncomingDone
  <1>11. CASE ProcessAck
    BY <1>11, Zenon DEF ProcessAck, IncomingDone, AckUpTo
  <1>12. CASE ProcessRequest
    BY <1>12, Zenon DEF ProcessRequest, IncomingDone
  <1>13. CASE ProcessRaises
    BY <1>13, Zenon DEF ProcessRaises, Terminate, Cleanup, DestroyState, LockFree, Rescued, Drain, SMOff, Abandoned
  <1>14. CASE BrokerCancelled
    BY <1>14, Zenon DEF BrokerCancelled, Terminate, Cleanup, DestroyState, LockFree, Rescued, Drain, SMOff, Abandoned
  <1>15. CASE FinalLocked
    BY <1>15, Zenon DEF FinalLocked, Cleanup, DestroyState, LockFree, SMOff, Abandoned
  <1>16. CASE FinalCancelled
    BY <1>16, Zenon DEF FinalCancelled
  <1>17. CASE GetActive
    BY <1>17, Zenon DEF GetActive
  <1>18. CASE GetIncoming
    BY <1>18, Zenon DEF GetIncoming
  <1>19. CASE Connect
    BY <1>19, Zenon DEF Connect
  <1>20. CASE Start
    BY <1>20, Zenon DEF Start, Commit
  <1>21. CASE StartSM
    BY <1>21, Zenon DEF StartSM
  <1>22. CASE StartSMCancelled
    BY <1>22, Zenon DEF StartSMCancelled, ReleaseLock
  <1>23. CASE StopSM
    BY <1>23, Zenon DEF StopSM, DestroyState, SMOff, Abandoned
  <1>24. CASE ResumeSM
    BY <1>24, Zenon DEF ResumeSM
  <1>25. CASE CloseStopped
    BY <1>25, Zenon DEF CloseStopped, CloseFinish, DestroyState, SMOff, Abandoned
  <1>26. CASE CloseRunning
    BY <1>26, Zenon DEF CloseRunning
  <1>27. CASE CloseRaises
    BY <1>27, Zenon DEF CloseRaises
  <1>28. CASE StartSMAnswered
    BY <1>28, Zenon DEF StartSMAnswered, ReleaseLock
  <1>29. CASE StartSMDies
    BY <1>29, Zenon DEF StartSMDies, ReleaseLock
  <1>30. CASE Resumed
    BY <1>30, Zenon DEF Resumed, Commit, ResumeOver, AckUpTo, Retransmit
  <1>31. CASE ResumeRaises
    BY <1>31, Zenon DEF ResumeRaises, ResumeOver
  <1>32. CASE ResumeRefused
    BY <1>32, Zenon DEF ResumeRefused, ResumeOver, SMOff
  <1>33. CASE ResumeDies
    BY <1>33, Zenon DEF ResumeDies, ResumeOver
  <1>34. CASE CloseStops
    BY <1>34, Zenon DEF CloseStops
  <1>35. CASE CloseEnds
    BY <1>35, Zenon DEF CloseEnds, CloseFinish, DestroyState, SMOff, Abandoned
  <1>36. CASE CloseFails
    BY <1>36, Zenon DEF CloseFails
  <1>37. CASE ConnFails
    BY <1>37, Zenon DEF ConnFails
  <1>38. CASE PeerEof
    BY <1>38, Zenon DEF PeerEof
  <1>39. CASE ConnGone
    BY <1>39, Zenon DEF ConnGone
  <1>40. CASE SoftLimitTripped
    BY <1>40, Zenon DEF SoftLimitTripped
  <1>41. CASE RecvSMFailed
    BY <1>41, Zenon DEF RecvSMFailed
  <1>42. CASE OnClosing
    BY <1>42, Zenon DEF OnClosing, Running
  <1>43. ASSUME NEW t \in Tokens, Enqueue(t) PROVE BooleanOK'
    BY <1>43, Zenon DEF Enqueue, MayEnqueue
  <1>44. ASSUME NEW t \in Tokens, Abort(t) PROVE BooleanOK'
    BY <1>44, Zenon DEF Abort
  <1>45. ASSUME NEW e \in Element, Recv(e) PROVE BooleanOK'
    BY <1>45, Zenon DEF Recv
  <1>46. ASSUME NEW e \in Element, RecvUnknown(e) PROVE BooleanOK'
    BY <1>46, Zenon DEF RecvUnknown
  <1>47. ASSUME NEW r \in BOOLEAN, RecvEnabled(r) PROVE BooleanOK'
    BY <1>47, Zenon DEF RecvEnabled
  <1>48. ASSUME NEW h \in Counter, RecvResumed(h) PROVE BooleanOK'
    BY <1>48, Zenon DEF RecvResumed
  <1>49. ASSUME NEW h \in Counter \cup {NoCounter}, RecvResumeFailed(h) PROVE BooleanOK'
    BY <1>49, Zenon DEF RecvResumeFailed
  <1>50. CASE UNCHANGED vars
    BY <1>50, Zenon DEF vars
  <1>. QED
    BY <1>1, <1>2, <1>3, <1>4, <1>5, <1>6, <1>7, <1>8, <1>9, <1>10, <1>11, <1>12,
       <1>13, <1>14, <1>15, <1>16, <1>17, <1>18, <1>19, <1>20, <1>21, <1>22, <1>23,
       <1>24, <1>25, <1>26, <1>27, <1>28, <1>29, <1>30, <1>31, <1>32, <1>33, <1>34,
       <1>35, <1>36, <1>37, <1>38, <1>39, <1>40, <1>41, <1>42, <1>43, <1>44, <1>45,
       <1>46, <1>47, <1>48, <1>49, <1>50
    DEF Next, Application, Broker, Owner, Continuation, Peer

LEMMA CounterType ==
    /\ 0 \in Counter
    /\ \A n \in Counter : (n + 1) % W \in Counter
    /\ outBase \in Counter => \A h \in Counter : ToDrop(h) \in Counter
  BY ModulusAssumption DEF Counter, ToDrop

LEMMA SetAllType ==
    ASSUME NEW f \in [Tokens -> TokenState], NEW S, NEW s \in TokenState
    PROVE  SetAll(f, S, s) \in [Tokens -> TokenState]
  BY DEF SetAll

LEMMA DestroyType ==
    ASSUME DataOK, NEW q, DestroyState(q)
    PROVE  /\ state' \in [Tokens -> TokenState]
           /\ active' \in Seq(Tokens) /\ unacked' \in Seq(Tokens)
           /\ outBase' \in Counter /\ inCtr' \in Counter
  <1>1. "DISCONNECTED" \in TokenState /\ "SENT_WITHOUT_SM" \in TokenState
    BY DEF TokenState
  <1>. QED
    BY <1>1, CounterType, SetAllType DEF DataOK, DestroyState, SMOff, Abandoned

LEMMA CleanupType ==
    ASSUME DataOK, NEW q \in Seq(Tokens), NEW why \in {"cancelled", "error"}, Cleanup(q, why)
    PROVE  /\ state' \in [Tokens -> TokenState]
           /\ active' \in Seq(Tokens) /\ unacked' \in Seq(Tokens)
           /\ outBase' \in Counter /\ inCtr' \in Counter
           /\ broker' \in BrokerState /\ raised' \in {"cancelled", "error"}
           /\ conn' \in {"none", "open", "closing", "down"}
           /\ classes' \subseteq {"stanza", "nonza"}
  <1>1. /\ broker' = "none" /\ raised' \in {"cancelled", "error"}
        /\ conn' \in {"none", "open", "closing", "down"}
        /\ classes' \subseteq {"stanza", "nonza"}
    BY DEF Cleanup, DataOK
  <1>2. CASE smEnabled /\ smResumable
    BY <1>1, <1>2 DEF Cleanup, DataOK, BrokerState, smVars
  <1>3. CASE ~(smEnabled /\ smResumable)
    <2>1. DestroyState(q)
      BY <1>3 DEF Cleanup
    <2>. QED
      BY <1>1, <2>1, DestroyType DEF BrokerState
  <1>. QED
    BY <1>2, <1>3

LEMMA TerminateType ==
    ASSUME DataOK, NEW why \in {"cancelled", "error"}, Terminate(why)
    PROVE  DataOK'
  <1>1. afut \o active \in Seq(Tokens)
    BY DEF DataOK
  <1>2. /\ afut' = <<>> /\ ifut' = <<>> /\ incoming' = <<>> /\ bdone' = {}
        /\ UNCHANGED <<exc, smop, rsop, closer>>
        /\ incoming' \in Seq(Element) /\ afut' \in Seq(Tokens) /\ ifut' \in Seq(Element)
        /\ Len(afut') <= 1 /\ Len(ifut') <= 1
    BY DEF Terminate, opVars, LockFree, Rescued, Drain
  <1>3. CASE smop = "none"
    <2>1. Cleanup(afut \o active, why)
      BY <1>3 DEF Terminate, LockFree, Rescued, Drain
    <2>. QED
      BY <1>1, <1>2, <2>1, CleanupType DEF DataOK
  <1>4. CASE smop # "none"
    <2>1. /\ active' = afut \o active /\ broker' = "final" /\ raised' = why
          /\ UNCHANGED <<state, unacked, outBase, inCtr, conn, classes>>
      BY <1>4, Zenon DEF Terminate, smVars, LockFree, Rescued, Drain
    <2>. QED
      BY <1>1, <1>2, <2>1 DEF DataOK, BrokerState
  <1>. QED
    BY <1>3, <1>4

LEMMA SendType ==
    ASSUME DataOK, NEW t \in Tokens, SendStanza(t)
    PROVE  state' \in [Tokens -> TokenState] /\ unacked' \in Seq(Tokens)
  <1>1. {"ABORTED", "DROPPED", "FAILED", "SENT", "SENT_WITHOUT_SM"} \subseteq TokenState
    BY DEF TokenState
  <1>2. unacked' = unacked \/ unacked' = Append(unacked, t)
    BY Zenon DEF SendStanza, Aborted
  <1>3. unacked' \in Seq(Tokens)
    <2>1. unacked \in Seq(Tokens) /\ Append(unacked, t) \in Seq(Tokens)
      BY DEF DataOK
    <2>. QED
      BY <1>2, <2>1, Zenon
  <1>4. state' = state \/ \E s \in TokenState : state' = [state EXCEPT ![t] = s]
    BY <1>1, Zenon DEF SendStanza, Aborted
  <1>5. state' \in [Tokens -> TokenState]
    BY <1>4 DEF DataOK
  <1>. QED
    BY <1>3, <1>5

LEMMA AckType ==
    ASSUME DataOK, NEW h \in Counter, ToDrop(h) <= Len(unacked)
    PROVE  /\ AckUpTo(h) => state' \in [Tokens -> TokenState] /\ outBase' \in Counter
           /\ SubSeq(unacked, ToDrop(h) + 1, Len(unacked)) \in Seq(Tokens)
  <1>1. ToDrop(h) \in 0..Len(unacked)
    BY CounterType DEF DataOK, Counter
  <1>2. SubSeq(unacked, ToDrop(h) + 1, Len(unacked)) \in Seq(Tokens)
    BY <1>1, ElementsOfSplit DEF DataOK
  <1>3. "ACKED" \in TokenState
    BY DEF TokenState
  <1>. QED
    BY <1>2, <1>3, SetAllType DEF DataOK, AckUpTo

\* What the handlers take out of the futures.
LEMMA FetchedType ==
    ASSUME DataOK, ControlInv
    PROVE  /\ broker \in {"first", "bulk"} => Head(afut) \in Tokens
           /\ broker = "incoming" => Head(ifut) \in Element
           /\ active # <<>> => Head(active) \in Tokens /\ Tail(active) \in Seq(Tokens)
           /\ broker = "incoming" /\ Head(ifut).k = "a" => Head(ifut).h \in Counter
  <1>1. broker = "incoming" => Head(ifut) \in Element
    BY DEF DataOK, ControlInv
  <1>2. broker = "incoming" /\ Head(ifut).k = "a" => Head(ifut).h \in Counter
    BY <1>1 DEF Element, Stanza, SMRequest, SMAck
  <1>. QED
    BY <1>1, <1>2 DEF DataOK, ControlInv

LEMMA DataStep == DataOK /\ ControlInv /\ [Next]_vars => DataOK'
  <1>. SUFFICES ASSUME DataOK, ControlInv, [Next]_vars PROVE DataOK'
    OBVIOUS
  <1>. USE DEF DataOK, BrokerState, tokenVars, futVars, smVars, taskVars, streamVars, opVars, connVars
  <1>1. CASE Stop
    BY <1>1 DEF Stop
  <1>2. CASE BrokerStart
    BY <1>2 DEF BrokerStart
  <1>3. CASE BrokerNeverRuns
    BY <1>3 DEF BrokerNeverRuns
  <1>4. CASE BrokerWake
    BY <1>4 DEF BrokerWake, Serve, FuturesDone, LockFree
  <1>5. CASE BrokerLocks
    BY <1>5 DEF BrokerLocks, Serve, LockFree
  <1>6. CASE SendFirst
    BY <1>6, FetchedType, SendType DEF SendFirst
  <1>7. CASE SendNext
    BY <1>7, FetchedType, SendType DEF SendNext
  <1>8. CASE BatchDone
    BY <1>8 DEF BatchDone, AfterBatch
  <1>9. CASE BatchRaises
    BY <1>9, TerminateType DEF BatchRaises
  <1>10. CASE ProcessStanza
    BY <1>10, CounterType DEF ProcessStanza, IncomingDone
  <1>11. CASE ProcessAck
    <2>1. CASE smEnabled
      <3>1. Head(ifut).h \in Counter
        BY <1>11, FetchedType DEF ProcessAck
      <3>2. /\ state' \in [Tokens -> TokenState] /\ outBase' \in Counter
            /\ unacked' \in Seq(Tokens)
        BY <1>11, <2>1, <3>1, AckType DEF ProcessAck
      <3>. QED
        BY <1>11, <3>2 DEF ProcessAck, IncomingDone
    <2>2. CASE ~smEnabled
      BY <1>11, <2>2 DEF ProcessAck, IncomingDone
    <2>. QED
      BY <2>1, <2>2
  <1>12. CASE ProcessRequest
    BY <1>12 DEF ProcessRequest, IncomingDone
  <1>13. CASE ProcessRaises
    BY <1>13, TerminateType DEF ProcessRaises
  <1>14. CASE BrokerCancelled
    BY <1>14, TerminateType DEF BrokerCancelled
  <1>15. CASE FinalLocked
    BY <1>15, CleanupType DEF FinalLocked, LockFree
  <1>16. CASE FinalCancelled
    BY <1>16 DEF FinalCancelled
  <1>17. CASE GetActive
    BY <1>17 DEF GetActive
  <1>18. CASE GetIncoming
    BY <1>18 DEF GetIncoming
  <1>19. CASE Connect
    BY <1>19 DEF Connect
  <1>20. CASE Start
    BY <1>20 DEF Start, Commit
  <1>21. CASE StartSM
    BY <1>21 DEF StartSM
  <1>22. CASE StartSMCancelled
    BY <1>22 DEF StartSMCancelled, ReleaseLock
  <1>23. CASE StopSM
    BY <1>23, DestroyType DEF StopSM
  <1>24. CASE ResumeSM
    BY <1>24 DEF ResumeSM
  <1>25. CASE CloseStopped
    BY <1>25, DestroyType DEF CloseStopped, CloseFinish
  <1>26. CASE CloseRunning
    BY <1>26 DEF CloseRunning
  <1>27. CASE CloseRaises
    BY <1>27 DEF CloseRaises
  <1>28. CASE StartSMAnswered
    BY <1>28 DEF StartSMAnswered, ReleaseLock
  <1>29. CASE StartSMDies
    BY <1>29 DEF StartSMDies, ReleaseLock
  <1>30. CASE Resumed
    <2>1. rsop.h \in Counter
      BY <1>30 DEF Resumed, ControlInv, Retransmit
    <2>2. active' \in Seq(Tokens)
      <3>. DEFINE rest == SubSeq(unacked, ToDrop(rsop.h) + 1, Len(unacked))
      <3>1. rest \in Seq(Tokens)
        BY <1>30, <2>1, AckType DEF Resumed, Retransmit
      <3>2. Reverse(rest) \in Seq(Tokens)
        BY <3>1, ElementsOfReverse
      <3>. QED
        BY <1>30, <3>2 DEF Resumed, Retransmit
    <2>3. state' \in [Tokens -> TokenState] /\ outBase' \in Counter
      BY <1>30, <2>1, AckType DEF Resumed, Retransmit
    <2>. QED
      BY <1>30, <2>2, <2>3 DEF Resumed, Commit, ResumeOver, NoResume, Retransmit
  <1>31. CASE ResumeRaises
    BY <1>31 DEF ResumeRaises, ResumeOver, NoResume
  <1>32. CASE ResumeRefused
    <2>1. state' \in [Tokens -> TokenState]
      <3>1. {"ACKED", "DISCONNECTED", "SENT_WITHOUT_SM"} \subseteq TokenState
        BY DEF TokenState
      <3>. QED
        BY <1>32, <3>1, SetAllType DEF ResumeRefused, SMOff
    <2>2. 0 \in Counter
      BY CounterType
    <2>. QED
      BY <1>32, <2>1, <2>2 DEF ResumeRefused, ResumeOver, NoResume, SMOff
  <1>33. CASE ResumeDies
    BY <1>33 DEF ResumeDies, ResumeOver, NoResume
  <1>34. CASE CloseStops
    BY <1>34 DEF CloseStops
  <1>35. CASE CloseEnds
    BY <1>35, DestroyType DEF CloseEnds, CloseFinish
  <1>36. CASE CloseFails
    BY <1>36 DEF CloseFails
  <1>37. CASE ConnFails
    BY <1>37 DEF ConnFails
  <1>38. CASE PeerEof
    BY <1>38 DEF PeerEof
  <1>39. CASE ConnGone
    BY <1>39 DEF ConnGone
  <1>40. CASE SoftLimitTripped
    BY <1>40 DEF SoftLimitTripped
  <1>41. CASE RecvSMFailed
    BY <1>41 DEF RecvSMFailed
  <1>42. CASE OnClosing
    BY <1>42 DEF OnClosing
  <1>43. ASSUME NEW t \in Tokens, Enqueue(t) PROVE DataOK'
    BY <1>43 DEF Enqueue, TokenState, MayEnqueue
  <1>44. ASSUME NEW t \in Tokens, Abort(t) PROVE DataOK'
    BY <1>44 DEF Abort, TokenState
  <1>45. ASSUME NEW e \in Element, Recv(e) PROVE DataOK'
    BY <1>45 DEF Recv
  <1>46. ASSUME NEW e \in Element, RecvUnknown(e) PROVE DataOK'
    BY <1>46 DEF RecvUnknown
  <1>47. ASSUME NEW r \in BOOLEAN, RecvEnabled(r) PROVE DataOK'
    BY <1>47, CounterType DEF RecvEnabled
  <1>48. ASSUME NEW h \in Counter, RecvResumed(h) PROVE DataOK'
    BY <1>48 DEF RecvResumed
  <1>49. ASSUME NEW h \in Counter \cup {NoCounter}, RecvResumeFailed(h) PROVE DataOK'
    BY <1>49 DEF RecvResumeFailed
  <1>50. CASE UNCHANGED vars
    BY <1>50 DEF vars
  <1>. QED
    BY <1>1, <1>2, <1>3, <1>4, <1>5, <1>6, <1>7, <1>8, <1>9, <1>10, <1>11, <1>12,
       <1>13, <1>14, <1>15, <1>16, <1>17, <1>18, <1>19, <1>20, <1>21, <1>22, <1>23,
       <1>24, <1>25, <1>26, <1>27, <1>28, <1>29, <1>30, <1>31, <1>32, <1>33, <1>34,
       <1>35, <1>36, <1>37, <1>38, <1>39, <1>40, <1>41, <1>42, <1>43, <1>44, <1>45,
       <1>46, <1>47, <1>48, <1>49, <1>50
    DEF Next, Application, Broker, Owner, Continuation, Peer

-----------------------------------------------------------------------------
(* Where the task is tells what the futures, the lock and the coroutines hold. *)

LEMMA ControlStep == TypeOK /\ ControlInv /\ [Next]_vars => ControlInv'
  <1>. SUFFICES ASSUME TypeOK, ControlInv, [Next]_vars PROVE ControlInv'
    OBVIOUS
  <1>. USE DEF ControlInv, Yielded, Running, NoResume, OwnerIdle, smVars, futVars, taskVars, opVars
  <1>1. CASE Stop
    BY <1>1 DEF Stop, MayCall
  <1>2. CASE BrokerStart
    BY <1>2 DEF BrokerStart
  <1>3. CASE BrokerNeverRuns
    BY <1>3 DEF BrokerNeverRuns
  <1>4. CASE BrokerWake
    BY <1>4 DEF BrokerWake, Serve, FuturesDone, LockFree
  <1>5. CASE BrokerLocks
    <2>1. bdone \subseteq {"active", "incoming"}
      BY DEF TypeOK
    <2>. QED
      BY <1>5, <2>1 DEF BrokerLocks, Serve, LockFree
  <1>6. CASE SendFirst
    BY <1>6 DEF SendFirst, SendStanza, Aborted
  <1>7. CASE SendNext
    BY <1>7 DEF SendNext, SendStanza, Aborted
  <1>8. CASE BatchDone
    BY <1>8 DEF BatchDone, AfterBatch
  <1>9. CASE BatchRaises
    BY <1>9 DEF BatchRaises, Terminate, Cleanup, DestroyState, LockFree, Rescued, Drain, SMOff, Abandoned
  <1>10. CASE ProcessStanza
    BY <1>10 DEF ProcessStanza, IncomingDone
  <1>11. CASE ProcessAck
    BY <1>11 DEF ProcessAck, IncomingDone, AckUpTo
  <1>12. CASE ProcessRequest
    BY <1>12 DEF ProcessRequest, IncomingDone
  <1>13. CASE ProcessRaises
    BY <1>13 DEF ProcessRaises, Terminate, Cleanup, DestroyState, LockFree, Rescued, Drain, SMOff, Abandoned
  <1>14. CASE BrokerCancelled
    BY <1>14 DEF BrokerCancelled, Terminate, Cleanup, DestroyState, LockFree, Rescued, Drain, SMOff, Abandoned
  <1>15. CASE FinalLocked
    BY <1>15 DEF FinalLocked, Cleanup, DestroyState, LockFree, SMOff, Abandoned
  <1>16. CASE FinalCancelled
    BY <1>16 DEF FinalCancelled
  <1>17. CASE GetActive
    BY <1>17 DEF GetActive
  <1>18. CASE GetIncoming
    BY <1>18 DEF GetIncoming
  <1>19. CASE Connect
    BY <1>19 DEF Connect
  <1>20. CASE Start
    BY <1>20 DEF Start, Commit
  <1>21. CASE StartSM
    BY <1>21 DEF StartSM
  <1>22. CASE StartSMCancelled
    BY <1>22 DEF StartSMCancelled, ReleaseLock
  <1>23. CASE StopSM
    BY <1>23 DEF StopSM, DestroyState, SMOff, Abandoned
  <1>24. CASE ResumeSM
    BY <1>24 DEF ResumeSM
  <1>25. CASE CloseStopped
    BY <1>25 DEF CloseStopped, CloseFinish, DestroyState, SMOff, Abandoned
  <1>26. CASE CloseRunning
    BY <1>26 DEF CloseRunning
  <1>27. CASE CloseRaises
    BY <1>27 DEF CloseRaises
  <1>28. CASE StartSMAnswered
    BY <1>28 DEF StartSMAnswered, ReleaseLock
  <1>29. CASE StartSMDies
    BY <1>29 DEF StartSMDies, ReleaseLock
  <1>30. CASE Resumed
    BY <1>30 DEF Resumed, Commit, ResumeOver, AckUpTo, Retransmit
  <1>31. CASE ResumeRaises
    BY <1>31 DEF ResumeRaises, ResumeOver
  <1>32. CASE ResumeRefused
    BY <1>32 DEF ResumeRefused, ResumeOver, SMOff
  <1>33. CASE ResumeDies
    BY <1>33 DEF ResumeDies, ResumeOver
  <1>34. CASE CloseStops
    BY <1>34 DEF CloseStops
  <1>35. CASE CloseEnds
    BY <1>35 DEF CloseEnds, CloseFinish, DestroyState, SMOff, Abandoned
  <1>36. CASE CloseFails
    BY <1>36 DEF CloseFails
  <1>37. CASE ConnFails
    BY <1>37 DEF ConnFails
  <1>38. CASE PeerEof
    BY <1>38 DEF PeerEof
  <1>39. CASE ConnGone
    BY <1>39 DEF ConnGone
  <1>40. CASE SoftLimitTripped
    BY <1>40 DEF SoftLimitTripped
  <1>41. CASE RecvSMFailed
    BY <1>41 DEF RecvSMFailed
  <1>42. CASE OnClosing
    BY <1>42 DEF OnClosing
  <1>43. ASSUME NEW t \in Tokens, Enqueue(t) PROVE ControlInv'
    BY <1>43 DEF Enqueue, MayEnqueue
  <1>44. ASSUME NEW t \in Tokens, Abort(t) PROVE ControlInv'
    BY <1>44 DEF Abort
  <1>45. ASSUME NEW e \in Element, Recv(e) PROVE ControlInv'
    BY <1>45 DEF Recv
  <1>46. ASSUME NEW e \in Element, RecvUnknown(e) PROVE ControlInv'
    BY <1>46 DEF RecvUnknown
  <1>47. ASSUME NEW r \in BOOLEAN, RecvEnabled(r) PROVE ControlInv'
    BY <1>47 DEF RecvEnabled
  <1>48. ASSUME NEW h \in Counter, RecvResumed(h) PROVE ControlInv'
    BY <1>48 DEF RecvResumed
  <1>49. ASSUME NEW h \in Counter \cup {NoCounter}, RecvResumeFailed(h) PROVE ControlInv'
    BY <1>49 DEF RecvResumeFailed
  <1>50. CASE UNCHANGED vars
    BY <1>50 DEF vars
  <1>. QED
    BY <1>1, <1>2, <1>3, <1>4, <1>5, <1>6, <1>7, <1>8, <1>9, <1>10, <1>11, <1>12,
       <1>13, <1>14, <1>15, <1>16, <1>17, <1>18, <1>19, <1>20, <1>21, <1>22, <1>23,
       <1>24, <1>25, <1>26, <1>27, <1>28, <1>29, <1>30, <1>31, <1>32, <1>33, <1>34,
       <1>35, <1>36, <1>37, <1>38, <1>39, <1>40, <1>41, <1>42, <1>43, <1>44, <1>45,
       <1>46, <1>47, <1>48, <1>49, <1>50
    DEF Next, Application, Broker, Owner, Continuation, Peer

-----------------------------------------------------------------------------
(* Where a token is tells its state. *)

LEMMA PlaceTypes ==
    ASSUME TypeOK
    PROVE  /\ active \in Seq(Tokens) /\ unacked \in Seq(Tokens) /\ afut \in Seq(Tokens)
           /\ Len(afut) <= 1
           /\ state \in [Tokens -> TokenState]
           /\ ToSet(active) \subseteq Tokens /\ ToSet(unacked) \subseteq Tokens
           /\ ToSet(afut) \subseteq Tokens /\ IsInjective(afut)
  <1>1. /\ active \in Seq(Tokens) /\ unacked \in Seq(Tokens) /\ afut \in Seq(Tokens)
        /\ Len(afut) <= 1 /\ state \in [Tokens -> TokenState]
    BY DEF TypeOK
  <1>2. IsInjective(afut)
    BY <1>1 DEF IsInjective
  <1>. QED
    BY <1>1, <1>2, ElementsInSet

\* Steps that move no token.
LEMMA PlaceUntouched ==
    ASSUME PlaceInv,
           UNCHANGED <<state, active, unacked, afut>>,
           smEnabled' = smEnabled \/ unacked = <<>>,
           (broker' = "bulk") <=> (broker = "bulk"),
           broker = "bulk" => conn' = conn
    PROVE  PlaceInv'
  BY DEF PlaceInv, AtMostOnePlace, ActiveIsQueued, SentIsTracked, UnackedIsSent,
         Queued, Fetched, Unacked

\* The session state is destroyed, and every queued token with it.
LEMMA PlaceDestroyed ==
    ASSUME TypeOK, PlaceInv, NEW q \in Seq(Tokens), Queued \subseteq ToSet(q), DestroyState(q),
           afut' = <<>>, broker' # "bulk"
    PROVE  PlaceInv'
  <1>1. active' = <<>> /\ unacked' = <<>> /\ Queued' = {} /\ Unacked' = {}
    BY ElementsOfEmpty DEF DestroyState, Queued, Fetched, Unacked, SMOff, Abandoned
  <1>2. \A t \in Tokens : state'[t] \notin {"ACTIVE", "SENT"}
    BY DEF DestroyState, SetAll, PlaceInv, ActiveIsQueued, SentIsTracked, Unacked, SMOff, Abandoned
  <1>. QED
    BY <1>1, <1>2, ElementsOfEmpty
    DEF PlaceInv, AtMostOnePlace, ActiveIsQueued, SentIsTracked, UnackedIsSent, Unacked

\* The queue becomes q, which holds what was queued and perhaps settled tokens
\* of an abandoned batch; the fetched token is among them.
LEMMA PlaceRequeued ==
    ASSUME TypeOK, PlaceInv, NEW q \in Seq(Tokens),
           IsInjective(q), Queued \subseteq ToSet(q), ToSet(q) \cap Unacked = {},
           \A t \in ToSet(q) : state[t] \in QueuedState,
           active' = q, afut' = <<>>, broker' # "bulk",
           UNCHANGED <<state, unacked, smEnabled>>
    PROVE  PlaceInv'
  <1>1. ToSet(afut') = {}
    BY ElementsOfEmpty
  <1>2. Queued' = ToSet(q) /\ Fetched' = {} /\ Unacked' = Unacked
    BY <1>1 DEF Queued, Fetched, Unacked
  <1>. QED
    BY <1>1, <1>2
    DEF PlaceInv, AtMostOnePlace, ActiveIsQueued, SentIsTracked, UnackedIsSent, Unacked

\* The fetched token and the queue, put together when the broker terminates.
LEMMA RescuedQueue ==
    ASSUME TypeOK, ControlInv, PlaceInv,
           broker = "bulk" => active = <<>> /\ conn # "open"
    PROVE  LET q == afut \o active IN
           /\ q \in Seq(Tokens) /\ IsInjective(q)
           /\ Queued \subseteq ToSet(q) /\ ToSet(q) \cap Unacked = {}
           /\ \A t \in ToSet(q) : state[t] \in QueuedState
  <1> DEFINE q == afut \o active
  <1>1. /\ q \in Seq(Tokens) /\ ToSet(q) = ToSet(afut) \cup ToSet(active)
        /\ ToSet(afut) \cap ToSet(active) = {} => IsInjective(q)
    BY PlaceTypes, ElementsOfConcat DEF PlaceInv, AtMostOnePlace
  <1>2. CASE broker # "bulk"
    <2>1. ToSet(q) = Queued /\ ToSet(afut) \cap ToSet(active) = {}
      BY <1>1, <1>2 DEF Queued, Fetched, PlaceInv, AtMostOnePlace
    <2>. QED
      BY <1>1, <2>1 DEF PlaceInv, AtMostOnePlace
  <1>3. CASE broker = "bulk"
    <2>1. ToSet(active) = {} /\ Queued = {}
      BY <1>3, ElementsOfEmpty DEF Queued, Fetched
    <2>2. ToSet(afut) = {Head(afut)} /\ Head(afut) \in Tokens
      <3>1. afut # <<>> /\ Tail(afut) = <<>>
        BY <1>3, PlaceTypes DEF ControlInv
      <3>. QED
        <4>1. ToSet(afut) = {Head(afut)} \cup ToSet(Tail(afut)) /\ Head(afut) \in Tokens
          BY <3>1, PlaceTypes, ElementsOfTail
        <4>2. ToSet(Tail(afut)) = {}
          BY <3>1, ElementsOfEmpty
        <4>. QED
          BY <4>1, <4>2
    <2>3. state[Head(afut)] \in {"ABORTED", "DROPPED", "FAILED"}
      BY <1>3 DEF PlaceInv
    <2>4. \A t \in Unacked : state[t] = "SENT"
      BY PlaceTypes, ElementsOfEmpty DEF PlaceInv, UnackedIsSent, Unacked
    <2>. QED
      BY <1>1, <2>1, <2>2, <2>3, <2>4 DEF QueuedState
  <1>. QED
    BY <1>2, <1>3

LEMMA PlaceCleanup ==
    ASSUME TypeOK, PlaceInv, NEW q \in Seq(Tokens), NEW why,
           IsInjective(q), Queued \subseteq ToSet(q), ToSet(q) \cap Unacked = {},
           \A t \in ToSet(q) : state[t] \in QueuedState,
           Cleanup(q, why), afut' = <<>>
    PROVE  PlaceInv'
  <1>1. broker' = "none"
    BY DEF Cleanup
  <1>2. CASE smEnabled /\ smResumable
    <2>1. active' = q /\ UNCHANGED <<state, unacked, smEnabled>>
      BY <1>2, Zenon DEF Cleanup, smVars
    <2>. QED
      BY <1>1, <2>1, PlaceRequeued
  <1>3. CASE ~(smEnabled /\ smResumable)
    <2>1. DestroyState(q)
      BY <1>3, Zenon DEF Cleanup
    <2>. QED
      BY <1>1, <2>1, PlaceDestroyed
  <1>. QED
    BY <1>2, <1>3

LEMMA PlaceTerminate ==
    ASSUME TypeOK, ControlInv, PlaceInv, NEW why, Terminate(why),
           broker = "bulk" => active = <<>> /\ conn # "open"
    PROVE  PlaceInv'
  <1>1. afut' = <<>>
    BY DEF Terminate, LockFree, Rescued, Drain
  <1>2. CASE smop = "none"
    <2>1. Cleanup(afut \o active, why)
      BY <1>2, Zenon DEF Terminate, LockFree, Rescued, Drain
    <2>. QED
      BY <1>1, <2>1, RescuedQueue, PlaceCleanup
  <1>3. CASE smop # "none"
    <2>1. /\ active' = afut \o active /\ broker' = "final"
          /\ UNCHANGED <<state, unacked, smEnabled>>
      BY <1>3, Zenon DEF Terminate, smVars, LockFree, Rescued, Drain
    <2>. QED
      BY <1>1, <2>1, RescuedQueue, PlaceRequeued
  <1>. QED
    BY <1>2, <1>3

\* _send_stanza on a token that leaves the queue.
LEMMA PlaceSend ==
    ASSUME TypeOK, PlaceInv, NEW t \in Tokens, SendStanza(t),
           active' \in Seq(Tokens), IsInjective(active'),
           Queued = {t} \cup ToSet(active'), t \notin ToSet(active'),
           broker' = "bulk", UNCHANGED <<smEnabled, conn>>,
           Head(afut') = t \/ (broker = "bulk" /\ afut' = afut)
    PROVE  PlaceInv'
  <1>1. Queued' = ToSet(active') /\ Fetched' = {}
    BY DEF Queued, Fetched
  <1>2. t \in Queued /\ t \notin Unacked /\ state[t] \in QueuedState
    BY DEF PlaceInv, AtMostOnePlace
  <1>3. PICK s : /\ state' = [state EXCEPT ![t] = s]
                 /\ s \notin {"NEW", "ACTIVE"}
                 /\ conn # "open" => s \in {"ABORTED", "DROPPED", "FAILED"}
                 /\ \/ unacked' = unacked /\ s # "SENT"
                    \/ unacked' = Append(unacked, t) /\ s = "SENT" /\ smEnabled
    <2>1. CASE state[t] = "ABORTED" /\ UNCHANGED <<state, unacked>>
      <3>1. state = [state EXCEPT ![t] = "ABORTED"]
        BY <2>1, PlaceTypes
      <3>. QED
        BY <2>1, <3>1
    <2>2. CASE state' = [state EXCEPT ![t] = "DROPPED"] /\ UNCHANGED unacked
      <3>. WITNESS "DROPPED"
      <3>. QED
        BY <2>2
    <2>3. CASE state' = [state EXCEPT ![t] = "FAILED"] /\ UNCHANGED unacked
      <3>. WITNESS "FAILED"
      <3>. QED
        BY <2>3
    <2>4. CASE /\ conn = "open" /\ smEnabled
               /\ state' = [state EXCEPT ![t] = "SENT"] /\ unacked' = Append(unacked, t)
      BY <2>4
    <2>5. CASE /\ conn = "open" /\ ~smEnabled
               /\ state' = [state EXCEPT ![t] = "SENT_WITHOUT_SM"] /\ unacked' = unacked
      <3>. WITNESS "SENT_WITHOUT_SM"
      <3>. QED
        BY <2>5
    <2>. QED
      BY <2>1, <2>2, <2>3, <2>4, <2>5, Zenon DEF SendStanza, Aborted
  <1>4. state'[t] = s /\ \A u \in Tokens \ {t} : state'[u] = state[u]
    BY <1>3, PlaceTypes
  <1>5. /\ Unacked' = Unacked \/ (Unacked' = Unacked \cup {t} /\ s = "SENT" /\ smEnabled)
        /\ s = "SENT" => t \in Unacked'
        /\ IsInjective(unacked')
        /\ unacked' # <<>> => smEnabled
    <2>1. CASE unacked' = unacked /\ s # "SENT"
      <3>1. /\ Unacked' = Unacked /\ s # "SENT"
            /\ IsInjective(unacked) /\ (unacked # <<>> => smEnabled)
        BY <2>1 DEF Unacked, PlaceInv, AtMostOnePlace, UnackedIsSent
      <3>. QED
        BY <2>1, <3>1, Zenon
    <2>2. CASE unacked' = Append(unacked, t) /\ s = "SENT" /\ smEnabled
      BY <1>2, <2>2, PlaceTypes, ElementsOfAppend DEF Unacked, PlaceInv, AtMostOnePlace
    <2>. QED
      BY <1>3, <2>1, <2>2
  <1>6. Unacked \subseteq Tokens /\ Queued \subseteq Tokens /\ \A u \in Unacked : state[u] = "SENT"
    BY PlaceTypes, ElementsOfEmpty
    DEF Queued, Fetched, Unacked, PlaceInv, UnackedIsSent
  <1>7. AtMostOnePlace'
    BY <1>1, <1>2, <1>5 DEF PlaceInv, AtMostOnePlace
  <1>8. ActiveIsQueued' /\ SentIsTracked'
    BY <1>1, <1>2, <1>3, <1>4, <1>5 DEF PlaceInv, ActiveIsQueued, SentIsTracked
  <1>9. UnackedIsSent'
    BY <1>2, <1>4, <1>5, <1>6 DEF UnackedIsSent
  <1>10. \A u \in Queued' : state'[u] \in QueuedState
    BY <1>1, <1>4, <1>6 DEF PlaceInv
  <1>11. /\ state'[Head(afut')] \notin {"NEW", "ACTIVE"}
         /\ conn' # "open" => state'[Head(afut')] \in {"ABORTED", "DROPPED", "FAILED"}
    BY <1>3, <1>4, PlaceTypes DEF PlaceInv
  <1>. QED
    BY <1>7, <1>8, <1>9, <1>10, <1>11 DEF PlaceInv

LEMMA AckRange ==
    ASSUME TypeOK, NEW h \in Counter, ToDrop(h) <= Len(unacked)
    PROVE  ToDrop(h) \in 0..Len(unacked)
  BY CounterType, PlaceTypes DEF TypeOK, Counter

\* sm_ack: the first unacked tokens get their verdict and are forgotten.
LEMMA PlaceAcked ==
    ASSUME TypeOK, PlaceInv, NEW done, NEW rest,
           ToSet(unacked) = done \cup ToSet(rest), IsInjective(rest), done \cap ToSet(rest) = {},
           state' = SetAll(state, done, "ACKED"), unacked' = rest,
           UNCHANGED <<active, afut>>, broker # "bulk", broker' # "bulk",
           smEnabled, smEnabled'
    PROVE  PlaceInv'
  <1>1. Queued' = Queued /\ Fetched' = Fetched /\ Unacked' = ToSet(rest)
    BY DEF Queued, Fetched, Unacked
  <1>2. Queued \cap ToSet(unacked) = {} /\ Queued \subseteq Tokens /\ ToSet(rest) \subseteq Tokens
    BY PlaceTypes DEF PlaceInv, AtMostOnePlace, Queued, Fetched, Unacked
  <1>3. \A t \in ToSet(unacked) : state[t] = "SENT"
    BY ElementsOfEmpty DEF PlaceInv, UnackedIsSent, Unacked
  <1>4. \A t \in Tokens : state'[t] = IF t \in done THEN "ACKED" ELSE state[t]
    BY DEF SetAll
  <1>5. AtMostOnePlace'
    BY <1>1, <1>2 DEF PlaceInv, AtMostOnePlace
  <1>6. ActiveIsQueued' /\ SentIsTracked'
    BY <1>1, <1>4 DEF PlaceInv, ActiveIsQueued, SentIsTracked, Unacked
  <1>7. UnackedIsSent'
    BY <1>1, <1>2, <1>3, <1>4 DEF UnackedIsSent
  <1>8. \A t \in Queued' : state'[t] \in QueuedState
    BY <1>1, <1>2, <1>4 DEF PlaceInv
  <1>. QED
    BY <1>5, <1>6, <1>7, <1>8 DEF PlaceInv

LEMMA PlaceStep == TypeOK /\ ControlInv /\ PlaceInv /\ [Next]_vars => PlaceInv'
  <1>. SUFFICES ASSUME TypeOK, ControlInv, PlaceInv, [Next]_vars PROVE PlaceInv'
    OBVIOUS
  <1>. USE DEF Yielded, Running, tokenVars, futVars, smVars, taskVars, connVars
  <1>1. CASE Stop
    BY <1>1, PlaceUntouched DEF Stop
  <1>2. CASE BrokerStart
    BY <1>2, PlaceUntouched DEF BrokerStart
  <1>3. CASE BrokerNeverRuns
    BY <1>3, PlaceUntouched DEF BrokerNeverRuns
  <1>4. CASE BrokerWake
    BY <1>4, PlaceUntouched DEF BrokerWake, Serve, FuturesDone, LockFree
  <1>5. CASE BrokerLocks
    BY <1>5, PlaceUntouched DEF BrokerLocks, Serve, LockFree
  <1>6. CASE SendFirst
    <2>1. /\ afut # <<>> /\ Tail(afut) = <<>> /\ broker = "first" /\ broker' = "bulk"
          /\ UNCHANGED <<active, afut, smEnabled, conn>> /\ SendStanza(Head(afut))
      BY <1>6, PlaceTypes DEF SendFirst, ControlInv
    <2>2. Head(afut) \in Tokens /\ ToSet(afut) = {Head(afut)}
      <3>1. Head(afut) \in Tokens /\ ToSet(afut) = {Head(afut)} \cup ToSet(Tail(afut))
        BY <2>1, PlaceTypes, ElementsOfTail
      <3>2. ToSet(Tail(afut)) = {}
        BY <2>1, ElementsOfEmpty
      <3>. QED
        BY <3>1, <3>2
    <2>3. Queued = {Head(afut)} \cup ToSet(active) /\ Head(afut) \notin ToSet(active)
      BY <2>1, <2>2 DEF Queued, Fetched, PlaceInv, AtMostOnePlace
    <2>4. active' \in Seq(Tokens) /\ IsInjective(active') /\ ToSet(active') = ToSet(active)
      BY <2>1, PlaceTypes DEF PlaceInv, AtMostOnePlace
    <2>5. Head(afut') = Head(afut)
      BY <2>1
    <2>. QED
      BY <2>1, <2>2, <2>3, <2>4, <2>5, PlaceSend
  <1>7. CASE SendNext
    <2>1. /\ active # <<>> /\ active' = Tail(active) /\ broker = "bulk" /\ broker' = "bulk"
          /\ UNCHANGED <<afut, smEnabled, conn>> /\ SendStanza(Head(active))
      BY <1>7 DEF SendNext
    <2>2. /\ Head(active) \in Tokens /\ active' \in Seq(Tokens) /\ IsInjective(active')
          /\ ToSet(active) = {Head(active)} \cup ToSet(active')
          /\ Head(active) \notin ToSet(active')
      BY <2>1, PlaceTypes, ElementsOfTail DEF PlaceInv, AtMostOnePlace
    <2>3. Queued = ToSet(active)
      BY <2>1 DEF Queued, Fetched
    <2>. QED
      BY <2>1, <2>2, <2>3, PlaceSend
  <1>8. CASE BatchDone
    <2>1. /\ UNCHANGED <<state, active, unacked, smEnabled>> /\ afut' = <<>>
          /\ broker = "bulk" /\ broker' # "bulk"
      BY <1>8 DEF BatchDone, AfterBatch
    <2>2. Queued' = Queued /\ ToSet(active') = ToSet(active) /\ Fetched' = {} /\ Unacked' = Unacked
      BY <2>1, ElementsOfEmpty DEF Queued, Fetched, Unacked
    <2>. QED
      BY <2>1, <2>2
      DEF PlaceInv, AtMostOnePlace, ActiveIsQueued, SentIsTracked, UnackedIsSent
  <1>9. CASE BatchRaises
    BY <1>9, PlaceTerminate DEF BatchRaises
  <1>10. CASE ProcessStanza
    BY <1>10, PlaceUntouched DEF ProcessStanza, IncomingDone
  <1>11. CASE ProcessAck
    <2>1. CASE ~smEnabled
      BY <1>11, <2>1, PlaceUntouched DEF ProcessAck, IncomingDone
    <2>2. CASE smEnabled
      <3> DEFINE h == Head(ifut).h
                 n == ToDrop(h)
                 done == {unacked[i] : i \in 1..n}
                 rest == SubSeq(unacked, n + 1, Len(unacked))
      <3>1. /\ state' = SetAll(state, done, "ACKED") /\ unacked' = rest
            /\ UNCHANGED <<active, afut, smEnabled>>
            /\ broker = "incoming" /\ broker' # "bulk" /\ n <= Len(unacked)
        BY <1>11, <2>2 DEF ProcessAck, IncomingDone, AckUpTo
      <3>2. n \in 0..Len(unacked)
        <4>1. h \in Counter
          BY <1>11, TypeParts, FetchedType DEF ProcessAck
        <4>. QED
          BY <3>1, <4>1, AckRange
      <3>3. /\ ToSet(unacked) = done \cup ToSet(rest) /\ IsInjective(rest)
            /\ done \cap ToSet(rest) = {}
        BY <3>2, PlaceTypes, ElementsOfSplit DEF PlaceInv, AtMostOnePlace
      <3>. HIDE DEF done, rest
      <3>. QED
        BY <2>2, <3>1, <3>3, PlaceAcked
    <2>. QED
      BY <2>1, <2>2
  <1>12. CASE ProcessRequest
    BY <1>12, PlaceUntouched DEF ProcessRequest, IncomingDone
  <1>13. CASE ProcessRaises
    BY <1>13, PlaceTerminate DEF ProcessRaises
  <1>14. CASE BrokerCancelled
    BY <1>14, PlaceTerminate DEF BrokerCancelled
  <1>15. CASE FinalLocked
    <2>1. broker = "final" /\ afut = <<>> /\ afut' = <<>> /\ Cleanup(active, raised)
      BY <1>15 DEF FinalLocked, ControlInv, LockFree
    <2>2. Queued = ToSet(active)
      BY <2>1, ElementsOfEmpty DEF Queued, Fetched
    <2>. QED
      BY <2>1, <2>2, PlaceTypes, PlaceCleanup DEF PlaceInv, AtMostOnePlace
  <1>16. CASE FinalCancelled
    BY <1>16, PlaceUntouched DEF FinalCancelled
  <1>17. CASE GetActive
    <2>1. /\ afut = <<>> /\ active # <<>> /\ broker # "bulk" /\ broker' # "bulk"
          /\ afut' = <<Head(active)>> /\ active' = Tail(active)
          /\ UNCHANGED <<state, unacked, smEnabled>>
      BY <1>17 DEF GetActive
    <2>2. /\ Head(active) \in Tokens
          /\ ToSet(active) = {Head(active)} \cup ToSet(active')
          /\ Head(active) \notin ToSet(active') /\ IsInjective(active')
      BY <2>1, PlaceTypes, ElementsOfTail DEF PlaceInv, AtMostOnePlace
    <2>3. ToSet(afut') = {Head(active)} /\ ToSet(afut) = {}
      BY <2>1, <2>2, ElementsOfSingleton, ElementsOfEmpty
    <2>4. Queued' = Queued /\ Unacked' = Unacked /\ Fetched' = {Head(active)}
      BY <2>1, <2>2, <2>3 DEF Queued, Fetched, Unacked
    <2>. QED
      BY <2>1, <2>2, <2>4
      DEF PlaceInv, AtMostOnePlace, ActiveIsQueued, SentIsTracked, UnackedIsSent
  <1>18. CASE GetIncoming
    BY <1>18, PlaceUntouched DEF GetIncoming
  <1>19. CASE Connect
    BY <1>19, PlaceUntouched DEF Connect
  <1>20. CASE Start
    BY <1>20, PlaceUntouched DEF Start, Commit
  <1>21. CASE StartSM
    BY <1>21, PlaceUntouched DEF StartSM
  <1>22. CASE StartSMCancelled
    BY <1>22, PlaceUntouched DEF StartSMCancelled, ReleaseLock
  <1>23. CASE StopSM
    <2>1. Queued = ToSet(active) /\ afut' = <<>> /\ broker' = "none" /\ DestroyState(active)
      BY <1>23, ElementsOfEmpty DEF StopSM, ControlInv, Queued, Fetched
    <2>. QED
      BY <2>1, PlaceTypes, PlaceDestroyed
  <1>24. CASE ResumeSM
    BY <1>24, PlaceUntouched DEF ResumeSM
  <1>25. CASE CloseStopped
    <2>1. Queued = ToSet(active) /\ afut' = <<>> /\ broker' = "none" /\ DestroyState(active)
      BY <1>25, ElementsOfEmpty DEF CloseStopped, CloseFinish, ControlInv, Queued, Fetched
    <2>. QED
      BY <2>1, PlaceTypes, PlaceDestroyed
  <1>26. CASE CloseRunning
    BY <1>26, PlaceUntouched DEF CloseRunning
  <1>27. CASE CloseRaises
    BY <1>27, PlaceUntouched DEF CloseRaises
  <1>28. CASE StartSMAnswered
    BY <1>28, PlaceUntouched DEF StartSMAnswered, ReleaseLock
  <1>29. CASE StartSMDies
    BY <1>29, PlaceUntouched DEF StartSMDies, ReleaseLock
  <1>30. CASE Resumed
    <2> DEFINE n == ToDrop(rsop.h)
               done == {unacked[i] : i \in 1..n}
               rest == SubSeq(unacked, n + 1, Len(unacked))
    <2>1. /\ state' = SetAll(state, done, "ACKED") /\ unacked' = <<>>
          /\ active' = Reverse(rest) \o active
          /\ afut = <<>> /\ afut' = <<>> /\ broker' = "fresh" /\ n <= Len(unacked)
      BY <1>30 DEF Resumed, AckUpTo, Commit, ResumeOver, ControlInv, NoResume, Retransmit
    <2>2. n \in 0..Len(unacked)
      BY <1>30, <2>1, AckRange DEF Resumed, ControlInv, Retransmit
    <2>3. /\ rest \in Seq(Tokens) /\ ToSet(unacked) = done \cup ToSet(rest)
          /\ IsInjective(rest) /\ done \cap ToSet(rest) = {}
      BY <2>2, PlaceTypes, ElementsOfSplit DEF PlaceInv, AtMostOnePlace
    <2>. HIDE DEF done, rest
    <2>4. Queued = ToSet(active) /\ ToSet(active) \cap ToSet(unacked) = {}
      BY <2>1, ElementsOfEmpty DEF PlaceInv, AtMostOnePlace, Queued, Fetched, Unacked
    <2>5. /\ Reverse(rest) \in Seq(Tokens) /\ ToSet(Reverse(rest)) = ToSet(rest)
          /\ IsInjective(Reverse(rest))
      BY <2>3, ElementsOfReverse
    <2>6. ToSet(active') = ToSet(rest) \cup ToSet(active) /\ IsInjective(active')
      BY <2>1, <2>3, <2>4, <2>5, PlaceTypes, ElementsOfConcat DEF PlaceInv, AtMostOnePlace
    <2>7. /\ Queued' = ToSet(rest) \cup ToSet(active) /\ Fetched' = {} /\ Unacked' = {}
          /\ IsInjective(unacked')
      BY <2>1, <2>6, ElementsOfEmpty DEF Queued, Fetched, Unacked
    <2>8. AtMostOnePlace' /\ UnackedIsSent'
      BY <2>1, <2>6, <2>7 DEF AtMostOnePlace, UnackedIsSent
    <2>9. ActiveIsQueued' /\ SentIsTracked'
      BY <2>1, <2>3, <2>4, <2>7
      DEF PlaceInv, ActiveIsQueued, SentIsTracked, SetAll, Unacked
    <2>10. \A t \in Queued' : state'[t] \in QueuedState
      <3>1. \A t \in ToSet(unacked) : state[t] = "SENT"
        BY ElementsOfEmpty DEF PlaceInv, UnackedIsSent, Unacked
      <3>2. ToSet(rest) \subseteq Tokens /\ ToSet(active) \subseteq Tokens
        BY <2>3, PlaceTypes
      <3>. QED
        BY <2>1, <2>3, <2>4, <2>7, <3>1, <3>2 DEF PlaceInv, SetAll, QueuedState
    <2>. QED
      BY <2>1, <2>8, <2>9, <2>10 DEF PlaceInv
  <1>31. CASE ResumeRaises
    BY <1>31, PlaceUntouched DEF ResumeRaises, ResumeOver
  <1>32. CASE ResumeRefused
    <2>1. /\ Queued = ToSet(active) /\ active' = <<>> /\ unacked' = <<>> /\ afut' = <<>>
          /\ broker' # "bulk"
      BY <1>32, ElementsOfEmpty DEF ResumeRefused, ResumeOver, ControlInv, NoResume, Queued, Fetched, SMOff
    <2>2. Queued' = {} /\ Unacked' = {}
      BY <2>1, ElementsOfEmpty DEF Queued, Fetched, Unacked
    <2>3. \A t \in Tokens : state'[t] \notin {"ACTIVE", "SENT"}
      BY <1>32, <2>1 DEF ResumeRefused, SetAll, PlaceInv, ActiveIsQueued, SentIsTracked, Unacked, SMOff
    <2>. QED
      BY <2>1, <2>2, <2>3, ElementsOfEmpty
      DEF PlaceInv, AtMostOnePlace, ActiveIsQueued, SentIsTracked, UnackedIsSent, Unacked
  <1>33. CASE ResumeDies
    BY <1>33, PlaceUntouched DEF ResumeDies, ResumeOver
  <1>34. CASE CloseStops
    BY <1>34, PlaceUntouched DEF CloseStops
  <1>35. CASE CloseEnds
    <2>1. Queued = ToSet(active) /\ afut' = <<>> /\ broker' = "none" /\ DestroyState(active)
      BY <1>35, ElementsOfEmpty DEF CloseEnds, CloseFinish, ControlInv, Queued, Fetched
    <2>. QED
      BY <2>1, PlaceTypes, PlaceDestroyed
  <1>36. CASE CloseFails
    BY <1>36, PlaceUntouched DEF CloseFails
  <1>37. CASE ConnFails
    BY <1>37, PlaceUntouched DEF ConnFails
  <1>38. CASE PeerEof
    BY <1>38, PlaceUntouched DEF PeerEof
  <1>39. CASE ConnGone
    BY <1>39, PlaceUntouched DEF ConnGone
  <1>40. CASE SoftLimitTripped
    BY <1>40, PlaceUntouched DEF SoftLimitTripped
  <1>41. CASE RecvSMFailed
    BY <1>41, PlaceUntouched DEF RecvSMFailed
  <1>42. CASE OnClosing
    BY <1>42, PlaceUntouched DEF OnClosing
  <1>43. ASSUME NEW t \in Tokens, Enqueue(t) PROVE PlaceInv'
    <2>1. /\ state[t] = "NEW" /\ state' = [state EXCEPT ![t] = "ACTIVE"]
          /\ active' = Append(active, t)
          /\ UNCHANGED <<unacked, afut, smEnabled, broker, conn>>
      BY <1>43 DEF Enqueue, MayEnqueue
    <2>2. t \notin Queued /\ t \notin Unacked
      BY <2>1, ElementsOfEmpty DEF PlaceInv, QueuedState, UnackedIsSent, Unacked
    <2>3. ToSet(active') = ToSet(active) \cup {t} /\ IsInjective(active')
      BY <2>1, <2>2, PlaceTypes, ElementsOfAppend DEF PlaceInv, AtMostOnePlace, Queued
    <2>4. Queued' = Queued \cup {t} /\ Fetched' = Fetched /\ Unacked' = Unacked
      BY <2>1, <2>3 DEF Queued, Fetched, Unacked
    <2>5. state'[t] = "ACTIVE" /\ \A u \in Tokens \ {t} : state'[u] = state[u]
      BY <2>1, PlaceTypes
    <2>6. Queued \subseteq Tokens /\ Unacked \subseteq Tokens
      BY PlaceTypes DEF Queued, Fetched, Unacked
    <2>7. AtMostOnePlace'
      BY <2>1, <2>2, <2>3, <2>4 DEF PlaceInv, AtMostOnePlace, Queued
    <2>8. ActiveIsQueued' /\ SentIsTracked' /\ UnackedIsSent'
      BY <2>1, <2>2, <2>4, <2>5, <2>6 DEF PlaceInv, ActiveIsQueued, SentIsTracked, UnackedIsSent
    <2>9. \A u \in Queued' : state'[u] \in QueuedState
      BY <2>4, <2>5, <2>6 DEF PlaceInv, QueuedState
    <2>10. broker' = "bulk" => /\ Head(afut') \in Tokens /\ state[Head(afut')] # "NEW"
                               /\ afut' = afut /\ broker = "bulk" /\ conn' = conn
      BY <2>1, PlaceTypes DEF PlaceInv, ControlInv
    <2>. QED
      BY <2>1, <2>5, <2>7, <2>8, <2>9, <2>10 DEF PlaceInv
  <1>44. ASSUME NEW t \in Tokens, Abort(t) PROVE PlaceInv'
    <2>1. /\ state[t] = "ACTIVE" /\ state' = [state EXCEPT ![t] = "ABORTED"]
          /\ UNCHANGED <<active, unacked, afut, smEnabled, broker, conn>>
      BY <1>44 DEF Abort
    <2>2. Queued' = Queued /\ Fetched' = Fetched /\ Unacked' = Unacked
      BY <2>1 DEF Queued, Fetched, Unacked
    <2>3. state'[t] = "ABORTED" /\ \A u \in Tokens \ {t} : state'[u] = state[u]
      BY <2>1, PlaceTypes
    <2>4. Queued \subseteq Tokens /\ Unacked \subseteq Tokens
      BY PlaceTypes DEF Queued, Fetched, Unacked
    <2>5. broker' = "bulk" => /\ Head(afut') \in Tokens \ {t}
                              /\ afut' = afut /\ broker = "bulk" /\ conn' = conn
      BY <2>1, PlaceTypes DEF PlaceInv, ControlInv
    <2>6. AtMostOnePlace'
      BY <2>1, <2>2 DEF PlaceInv, AtMostOnePlace
    <2>7. ActiveIsQueued' /\ SentIsTracked' /\ UnackedIsSent'
      BY <2>1, <2>2, <2>3, <2>4 DEF PlaceInv, ActiveIsQueued, SentIsTracked, UnackedIsSent
    <2>8. \A u \in Queued' : state'[u] \in QueuedState
      BY <2>2, <2>3, <2>4 DEF PlaceInv, QueuedState
    <2>. QED
      BY <2>1, <2>3, <2>5, <2>6, <2>7, <2>8 DEF PlaceInv
  <1>45. ASSUME NEW e \in Element, Recv(e) PROVE PlaceInv'
    BY <1>45, PlaceUntouched DEF Recv
  <1>46. ASSUME NEW e \in Element, RecvUnknown(e) PROVE PlaceInv'
    BY <1>46, PlaceUntouched DEF RecvUnknown
  <1>47. ASSUME NEW r \in BOOLEAN, RecvEnabled(r) PROVE PlaceInv'
    <2>1. unacked = <<>>
      BY <1>47 DEF RecvEnabled, ControlInv, PlaceInv, UnackedIsSent
    <2>. QED
      BY <1>47, <2>1, PlaceUntouched DEF RecvEnabled
  <1>48. ASSUME NEW h \in Counter, RecvResumed(h) PROVE PlaceInv'
    BY <1>48, PlaceUntouched DEF RecvResumed
  <1>49. ASSUME NEW h \in Counter \cup {NoCounter}, RecvResumeFailed(h) PROVE PlaceInv'
    BY <1>49, PlaceUntouched DEF RecvResumeFailed
  <1>50. CASE UNCHANGED vars
    BY <1>50, PlaceUntouched DEF vars
  <1>. QED
    BY <1>1, <1>2, <1>3, <1>4, <1>5, <1>6, <1>7, <1>8, <1>9, <1>10, <1>11, <1>12,
       <1>13, <1>14, <1>15, <1>16, <1>17, <1>18, <1>19, <1>20, <1>21, <1>22, <1>23,
       <1>24, <1>25, <1>26, <1>27, <1>28, <1>29, <1>30, <1>31, <1>32, <1>33, <1>34,
       <1>35, <1>36, <1>37, <1>38, <1>39, <1>40, <1>41, <1>42, <1>43, <1>44, <1>45,
       <1>46, <1>47, <1>48, <1>49, <1>50
    DEF Next, Application, Broker, Owner, Continuation, Peer

-----------------------------------------------------------------------------
(* What close() leaves, and the inductive invariant. *)

LEMMA ClosedStep == TypeOK /\ ControlInv /\ ClosedInv /\ [Next]_vars => ClosedInv'
  <1>. SUFFICES ASSUME TypeOK, ControlInv, ClosedInv, [Next]_vars PROVE ClosedInv'
    OBVIOUS
  <1>. USE DEF ClosedInv, Running, OwnerIdle, NoResume, tokenVars, smVars, taskVars, streamVars, opVars
  <1>1. CASE Stop
    BY <1>1 DEF Stop
  <1>2. CASE BrokerStart
    BY <1>2 DEF BrokerStart
  <1>3. CASE BrokerNeverRuns
    BY <1>3 DEF BrokerNeverRuns
  <1>4. CASE BrokerWake
    BY <1>4 DEF BrokerWake, Serve, FuturesDone, LockFree
  <1>5. CASE BrokerLocks
    BY <1>5 DEF BrokerLocks, Serve, LockFree
  <1>6. CASE SendFirst
    BY <1>6 DEF SendFirst, SendStanza, Aborted
  <1>7. CASE SendNext
    BY <1>7 DEF SendNext, SendStanza, Aborted
  <1>8. CASE BatchDone
    BY <1>8 DEF BatchDone, AfterBatch
  <1>9. CASE BatchRaises
    BY <1>9 DEF BatchRaises, Terminate, Cleanup, DestroyState, LockFree, Rescued, Drain, SMOff, Abandoned
  <1>10. CASE ProcessStanza
    BY <1>10 DEF ProcessStanza, IncomingDone
  <1>11. CASE ProcessAck
    BY <1>11 DEF ProcessAck, IncomingDone, AckUpTo
  <1>12. CASE ProcessRequest
    BY <1>12 DEF ProcessRequest, IncomingDone
  <1>13. CASE ProcessRaises
    BY <1>13 DEF ProcessRaises, Terminate, Cleanup, DestroyState, LockFree, Rescued, Drain, SMOff, Abandoned
  <1>14. CASE BrokerCancelled
    BY <1>14 DEF BrokerCancelled, Terminate, Cleanup, DestroyState, LockFree, Rescued, Drain, SMOff, Abandoned
  <1>15. CASE FinalLocked
    BY <1>15 DEF FinalLocked, Cleanup, DestroyState, LockFree, SMOff, Abandoned
  <1>16. CASE FinalCancelled
    BY <1>16 DEF FinalCancelled
  <1>17. CASE GetActive
    BY <1>17 DEF GetActive
  <1>18. CASE GetIncoming
    BY <1>18 DEF GetIncoming
  <1>19. CASE Connect
    BY <1>19 DEF Connect
  <1>20. CASE Start
    BY <1>20 DEF Start, Commit
  <1>21. CASE StartSM
    BY <1>21 DEF StartSM
  <1>22. CASE StartSMCancelled
    BY <1>22 DEF StartSMCancelled, ReleaseLock
  <1>23. CASE StopSM
    BY <1>23 DEF StopSM, DestroyState, SMOff, Abandoned
  <1>24. CASE ResumeSM
    BY <1>24 DEF ResumeSM
  <1>25. CASE CloseStopped
    BY <1>25 DEF CloseStopped, CloseFinish, DestroyState, SMOff, Abandoned
  <1>26. CASE CloseRunning
    BY <1>26 DEF CloseRunning
  <1>27. CASE CloseRaises
    BY <1>27 DEF CloseRaises
  <1>28. CASE StartSMAnswered
    BY <1>28 DEF StartSMAnswered, ReleaseLock
  <1>29. CASE StartSMDies
    BY <1>29 DEF StartSMDies, ReleaseLock
  <1>30. CASE Resumed
    BY <1>30 DEF Resumed, Commit, ResumeOver, Retransmit
  <1>31. CASE ResumeRaises
    BY <1>31 DEF ResumeRaises, ResumeOver
  <1>32. CASE ResumeRefused
    BY <1>32 DEF ResumeRefused, ResumeOver, SMOff
  <1>33. CASE ResumeDies
    BY <1>33 DEF ResumeDies, ResumeOver
  <1>34. CASE CloseStops
    BY <1>34 DEF CloseStops
  <1>35. CASE CloseEnds
    BY <1>35 DEF CloseEnds, CloseFinish, DestroyState, ControlInv, SMOff, Abandoned
  <1>36. CASE CloseFails
    BY <1>36 DEF CloseFails
  <1>37. CASE ConnFails
    BY <1>37 DEF ConnFails
  <1>38. CASE PeerEof
    BY <1>38 DEF PeerEof
  <1>39. CASE ConnGone
    BY <1>39 DEF ConnGone
  <1>40. CASE SoftLimitTripped
    BY <1>40 DEF SoftLimitTripped
  <1>41. CASE RecvSMFailed
    BY <1>41 DEF RecvSMFailed
  <1>42. CASE OnClosing
    BY <1>42 DEF OnClosing
  <1>43. ASSUME NEW t \in Tokens, Enqueue(t) PROVE ClosedInv'
    BY <1>43 DEF Enqueue, MayEnqueue
  <1>44. ASSUME NEW t \in Tokens, Abort(t) PROVE ClosedInv'
    BY <1>44 DEF Abort
  <1>45. ASSUME NEW e \in Element, Recv(e) PROVE ClosedInv'
    BY <1>45 DEF Recv
  <1>46. ASSUME NEW e \in Element, RecvUnknown(e) PROVE ClosedInv'
    BY <1>46 DEF RecvUnknown
  <1>47. ASSUME NEW r \in BOOLEAN, RecvEnabled(r) PROVE ClosedInv'
    BY <1>47 DEF RecvEnabled
  <1>48. ASSUME NEW h \in Counter, RecvResumed(h) PROVE ClosedInv'
    BY <1>48 DEF RecvResumed
  <1>49. ASSUME NEW h \in Counter \cup {NoCounter}, RecvResumeFailed(h) PROVE ClosedInv'
    BY <1>49 DEF RecvResumeFailed
  <1>50. CASE UNCHANGED vars
    BY <1>50 DEF vars
  <1>. QED
    BY <1>1, <1>2, <1>3, <1>4, <1>5, <1>6, <1>7, <1>8, <1>9, <1>10, <1>11, <1>12,
       <1>13, <1>14, <1>15, <1>16, <1>17, <1>18, <1>19, <1>20, <1>21, <1>22, <1>23,
       <1>24, <1>25, <1>26, <1>27, <1>28, <1>29, <1>30, <1>31, <1>32, <1>33, <1>34,
       <1>35, <1>36, <1>37, <1>38, <1>39, <1>40, <1>41, <1>42, <1>43, <1>44, <1>45,
       <1>46, <1>47, <1>48, <1>49, <1>50
    DEF Next, Application, Broker, Owner, Continuation, Peer

LEMMA InitIInv == Init => IInv
  <1>. SUFFICES ASSUME Init PROVE IInv
    OBVIOUS
  <1>1. TypeOK
    <2>1. BooleanOK
      BY Zenon DEF Init, BooleanOK
    <2>2. DataOK
      BY CounterType DEF Init, DataOK, TokenState, BrokerState, NoResume, NoCounter
    <2>. QED
      BY <2>1, <2>2, TypeParts
  <1>2. ControlInv
    BY DEF Init, ControlInv, Yielded, NoResume
  <1>3. PlaceInv
    <2>1. Queued = {} /\ Unacked = {} /\ ToSet(active) = {}
      BY ElementsOfEmpty DEF Init, Queued, Fetched, Unacked
    <2>. QED
      BY <2>1, ElementsOfEmpty
      DEF Init, PlaceInv, AtMostOnePlace, ActiveIsQueued, SentIsTracked, UnackedIsSent
  <1>4. ClosedInv
    BY DEF Init, ClosedInv
  <1>. QED
    BY <1>1, <1>2, <1>3, <1>4 DEF IInv

LEMMA StepIInv == IInv /\ [Next]_vars => IInv'
  <1>. SUFFICES ASSUME IInv, [Next]_vars PROVE IInv'
    OBVIOUS
  <1>1. TypeOK'
    <2>1. BooleanOK' /\ DataOK'
      BY TypeParts, BooleanStep, DataStep DEF IInv
    <2>. QED
      BY <2>1 DEF TypeOK, BooleanOK, DataOK
  <1>. QED
    BY <1>1, ControlStep, PlaceStep, ClosedStep DEF IInv

\* The inductive invariant holds throughout.
THEOREM Inductive == Spec => []IInv
  <1>1. Init => IInv
    BY InitIInv
  <1>2. IInv /\ [Next]_vars => IInv'
    BY StepIInv
  <1>. QED
    BY <1>1, <1>2, PTL DEF Spec

\* Every variable keeps its type: no handler takes from a future or a list
\* what is not there.
THEOREM TypeCorrect == Spec => []TypeOK
  <1>1. IInv => TypeOK
    BY DEF IInv
  <1>. QED
    BY <1>1, Inductive, PTL

\* Rescuing a fetched stanza, retransmission and shutdown never put a token
\* into two places, or into one place twice.
THEOREM OnePlace == Spec => []AtMostOnePlace
  <1>1. IInv => AtMostOnePlace
    BY DEF IInv, PlaceInv
  <1>. QED
    BY <1>1, Inductive, PTL

\* No accepted stanza is lost before it is sent.
THEOREM ActiveQueued == Spec => []ActiveIsQueued
  <1>1. IInv => ActiveIsQueued
    BY DEF IInv, PlaceInv
  <1>. QED
    BY <1>1, Inductive, PTL

\* No stanza sent under Stream Management is forgotten before its verdict.
THEOREM SentTracked == Spec => []SentIsTracked
  <1>1. IInv => SentIsTracked
    BY DEF IInv, PlaceInv
  <1>. QED
    BY <1>1, Inductive, PTL

\* The list of unacked stanzas holds sent stanzas, and only while Stream
\* Management is on: its length is what the server's counter is compared with.
THEOREM UnackedSent == Spec => []UnackedIsSent
  <1>1. IInv => UnackedIsSent
    BY DEF IInv, PlaceInv
  <1>. QED
    BY <1>1, Inductive, PTL

\* After close() nothing runs, no session is kept and no stanza is unsettled.
THEOREM CloseCleans == Spec => []ClosedIsClean
  <1>1. IInv => ClosedIsClean
    <2>. SUFFICES ASSUME IInv, closed, NEW t \in Tokens, state[t] \in {"ACTIVE", "SENT"}
                  PROVE  FALSE
      BY DEF ClosedIsClean, IInv, ClosedInv
    <2>1. broker = "none" /\ ~smEnabled /\ afut = <<>> /\ active = <<>>
      BY DEF IInv, ClosedInv, ControlInv, Running
    <2>2. unacked = <<>>
      BY <2>1 DEF IInv, PlaceInv, UnackedIsSent
    <2>3. t \in ToSet(active)
      BY <2>1, <2>2, ElementsOfEmpty
      DEF IInv, PlaceInv, ActiveIsQueued, SentIsTracked, Queued, Fetched, Unacked
    <2>. QED
      BY <2>1, <2>3, ElementsOfEmpty
  <1>. QED
    BY <1>1, Inductive, PTL

-----------------------------------------------------------------------------
(* The life of a token: how a step may change its state. *)

MayBecome(s, n) ==
    \/ n = s
    \/ s = "NEW" /\ n = "ACTIVE"
    \/ s = "ACTIVE" /\ n = "ABORTED"
    \/ s \in QueuedState \ {"ABORTED"} /\ n \in {"DROPPED", "FAILED", "SENT", "SENT_WITHOUT_SM"}
    \/ s \in QueuedState /\ n = "DISCONNECTED"
    \/ s = "SENT" /\ n \in {"ACKED", "SENT_WITHOUT_SM"}

Lifecycle == \A t \in Tokens : MayBecome(state[t], state'[t])

LEMMA LifeUnchanged == UNCHANGED state => Lifecycle
  BY DEF Lifecycle, MayBecome

LEMMA LifeDestroyed ==
    ASSUME TypeOK, PlaceInv, NEW q \in Seq(Tokens), DestroyState(q),
           \A t \in ToSet(q) : state[t] \in QueuedState
    PROVE  Lifecycle
  <1>1. \A t \in ToSet(unacked) : state[t] = "SENT"
    BY ElementsOfEmpty DEF PlaceInv, UnackedIsSent, Unacked
  <1>2. \A t \in Tokens : state'[t] = IF t \in ToSet(unacked) THEN "SENT_WITHOUT_SM"
                                      ELSE IF t \in ToSet(q) THEN "DISCONNECTED" ELSE state[t]
    BY DEF DestroyState, SetAll, SMOff, Abandoned
  <1>. QED
    BY <1>1, <1>2 DEF Lifecycle, MayBecome

LEMMA LifeCleanup ==
    ASSUME TypeOK, PlaceInv, NEW q \in Seq(Tokens), NEW why, Cleanup(q, why),
           \A t \in ToSet(q) : state[t] \in QueuedState
    PROVE  Lifecycle
  <1>1. UNCHANGED state \/ DestroyState(q)
    BY Zenon DEF Cleanup
  <1>. QED
    BY <1>1, LifeUnchanged, LifeDestroyed

LEMMA LifeTerminate ==
    ASSUME TypeOK, ControlInv, PlaceInv, NEW why, Terminate(why),
           broker = "bulk" => active = <<>> /\ conn # "open"
    PROVE  Lifecycle
  <1>1. UNCHANGED state \/ Cleanup(afut \o active, why)
    BY Zenon DEF Terminate, LockFree, Rescued, Drain
  <1>. QED
    BY <1>1, LifeUnchanged, LifeCleanup, RescuedQueue

LEMMA LifeSend ==
    ASSUME TypeOK, PlaceInv, NEW t \in Queued, SendStanza(t)
    PROVE  Lifecycle
  <1>1. state[t] \in QueuedState /\ t \in Tokens /\ state \in [Tokens -> TokenState]
    BY PlaceTypes DEF PlaceInv, Queued, Fetched
  <1>2. \/ UNCHANGED state
        \/ /\ state[t] # "ABORTED"
           /\ \E s \in {"DROPPED", "FAILED", "SENT", "SENT_WITHOUT_SM"} :
                 state' = [state EXCEPT ![t] = s]
    BY DEF SendStanza, Aborted
  <1>. QED
    BY <1>1, <1>2 DEF Lifecycle, MayBecome

LEMMA LifeAcked ==
    ASSUME PlaceInv, NEW done, done \subseteq ToSet(unacked),
           state' = SetAll(state, done, "ACKED")
    PROVE  Lifecycle
  <1>1. \A t \in ToSet(unacked) : state[t] = "SENT"
    BY ElementsOfEmpty DEF PlaceInv, UnackedIsSent, Unacked
  <1>. QED
    BY <1>1 DEF Lifecycle, MayBecome, SetAll

LEMMA LifecycleStep == TypeOK /\ ControlInv /\ PlaceInv /\ [Next]_vars => Lifecycle
  <1>. SUFFICES ASSUME TypeOK, ControlInv, PlaceInv, [Next]_vars PROVE Lifecycle
    OBVIOUS
  <1>. USE LifeUnchanged DEF tokenVars
  <1>a. active \in Seq(Tokens) /\ \A t \in ToSet(active) : state[t] \in QueuedState
    BY PlaceTypes DEF PlaceInv, Queued
  <1>b. ASSUME NEW h \in Counter, ToDrop(h) <= Len(unacked)
        PROVE  {unacked[i] : i \in 1..ToDrop(h)} \subseteq ToSet(unacked)
    BY <1>b, AckRange, PlaceTypes, ElementsOfSplit DEF PlaceInv, AtMostOnePlace
  <1>1. CASE Stop
    BY <1>1 DEF Stop
  <1>2. CASE BrokerStart
    BY <1>2 DEF BrokerStart
  <1>3. CASE BrokerNeverRuns
    BY <1>3 DEF BrokerNeverRuns
  <1>4. CASE BrokerWake
    BY <1>4 DEF BrokerWake, Serve, FuturesDone, LockFree
  <1>5. CASE BrokerLocks
    BY <1>5 DEF BrokerLocks, Serve, LockFree
  <1>6. CASE SendFirst
    <2>1. SendStanza(Head(afut)) /\ broker = "first" /\ afut # <<>>
      BY <1>6 DEF SendFirst, ControlInv
    <2>2. Head(afut) \in Queued
      BY <2>1, PlaceTypes, ElementsOfTail DEF Queued, Fetched
    <2>. QED
      BY <2>1, <2>2, LifeSend
  <1>7. CASE SendNext
    <2>1. SendStanza(Head(active)) /\ active # <<>>
      BY <1>7 DEF SendNext
    <2>2. Head(active) \in Queued
      BY <2>1, PlaceTypes, ElementsOfTail DEF Queued
    <2>. QED
      BY <2>1, <2>2, LifeSend
  <1>8. CASE BatchDone
    BY <1>8 DEF BatchDone, AfterBatch
  <1>9. CASE BatchRaises
    BY <1>9, LifeTerminate DEF BatchRaises
  <1>10. CASE ProcessStanza
    BY <1>10 DEF ProcessStanza, IncomingDone
  <1>11. CASE ProcessAck
    <2>1. CASE ~smEnabled
      BY <1>11, <2>1 DEF ProcessAck
    <2>2. CASE smEnabled
      <3> DEFINE h == Head(ifut).h
      <3>1. h \in Counter
        BY <1>11, TypeParts, FetchedType DEF ProcessAck
      <3>2. ToDrop(h) <= Len(unacked) /\ AckUpTo(h)
        BY <1>11, <2>2 DEF ProcessAck
      <3>. QED
        BY <3>1, <3>2, <1>b, LifeAcked DEF AckUpTo
    <2>. QED
      BY <2>1, <2>2
  <1>12. CASE ProcessRequest
    BY <1>12 DEF ProcessRequest, IncomingDone
  <1>13. CASE ProcessRaises
    BY <1>13, LifeTerminate DEF ProcessRaises
  <1>14. CASE BrokerCancelled
    BY <1>14, LifeTerminate DEF BrokerCancelled
  <1>15. CASE FinalLocked
    BY <1>15, <1>a, LifeCleanup DEF FinalLocked, LockFree
  <1>16. CASE FinalCancelled
    BY <1>16 DEF FinalCancelled
  <1>17. CASE GetActive
    BY <1>17 DEF GetActive
  <1>18. CASE GetIncoming
    BY <1>18 DEF GetIncoming
  <1>19. CASE Connect
    BY <1>19 DEF Connect
  <1>20. CASE Start
    BY <1>20 DEF Start, Commit
  <1>21. CASE StartSM
    BY <1>21 DEF StartSM
  <1>22. CASE StartSMCancelled
    BY <1>22 DEF StartSMCancelled, ReleaseLock
  <1>23. CASE StopSM
    BY <1>23, <1>a, LifeDestroyed DEF StopSM
  <1>24. CASE ResumeSM
    BY <1>24 DEF ResumeSM
  <1>25. CASE CloseStopped
    BY <1>25, <1>a, LifeDestroyed DEF CloseStopped, CloseFinish
  <1>26. CASE CloseRunning
    BY <1>26 DEF CloseRunning
  <1>27. CASE CloseRaises
    BY <1>27 DEF CloseRaises
  <1>28. CASE StartSMAnswered
    BY <1>28 DEF StartSMAnswered, ReleaseLock
  <1>29. CASE StartSMDies
    BY <1>29 DEF StartSMDies, ReleaseLock
  <1>30. CASE Resumed
    <2>1. rsop.h \in Counter /\ ToDrop(rsop.h) <= Len(unacked) /\ AckUpTo(rsop.h)
      BY <1>30 DEF Resumed, ControlInv, Retransmit
    <2>. QED
      BY <2>1, <1>b, LifeAcked DEF AckUpTo
  <1>31. CASE ResumeRaises
    BY <1>31 DEF ResumeRaises, ResumeOver
  <1>32. CASE ResumeRefused
    <2> DEFINE counted == rsop.h # NoCounter
               n       == IF counted THEN ToDrop(rsop.h) ELSE 0
               acked   == {unacked[i] : i \in 1..n}
               rest    == ToSet(unacked) \ acked
               verdict == IF counted THEN "DISCONNECTED" ELSE "SENT_WITHOUT_SM"
    <2>1. /\ n <= Len(unacked)
          /\ state' = SetAll(SetAll(SetAll(state, acked, "ACKED"), rest, verdict),
                             ToSet(active), "DISCONNECTED")
      BY <1>32, Zenon DEF ResumeRefused, SMOff
    <2>2. acked \subseteq ToSet(unacked)
      <3>1. CASE counted
        <4>1. rsop.h \in Counter /\ n = ToDrop(rsop.h)
          BY <3>1 DEF TypeOK
        <4>. QED
          BY <2>1, <4>1, <1>b
      <3>2. CASE ~counted
        BY <3>2
      <3>. QED
        BY <3>1, <3>2
    <2>3. \A t \in ToSet(unacked) : state[t] = "SENT"
      BY ElementsOfEmpty DEF PlaceInv, UnackedIsSent, Unacked
    <2>4. verdict \in {"DISCONNECTED", "SENT_WITHOUT_SM"}
      OBVIOUS
    <2>. HIDE DEF acked, n, verdict
    <2>5. \A t \in Tokens : state'[t] = IF t \in ToSet(active) THEN "DISCONNECTED"
                                         ELSE IF t \in rest THEN verdict
                                         ELSE IF t \in acked THEN "ACKED" ELSE state[t]
      BY <2>1 DEF SetAll
    <2>. QED
      BY <2>2, <2>3, <2>4, <2>5, <1>a DEF Lifecycle, MayBecome, QueuedState
  <1>33. CASE ResumeDies
    BY <1>33 DEF ResumeDies, ResumeOver
  <1>34. CASE CloseStops
    BY <1>34 DEF CloseStops
  <1>35. CASE CloseEnds
    BY <1>35, <1>a, LifeDestroyed DEF CloseEnds, CloseFinish
  <1>36. CASE CloseFails
    BY <1>36 DEF CloseFails
  <1>37. CASE ConnFails
    BY <1>37 DEF ConnFails
  <1>38. CASE PeerEof
    BY <1>38 DEF PeerEof
  <1>39. CASE ConnGone
    BY <1>39 DEF ConnGone
  <1>40. CASE SoftLimitTripped
    BY <1>40 DEF SoftLimitTripped
  <1>41. CASE RecvSMFailed
    BY <1>41 DEF RecvSMFailed
  <1>42. CASE OnClosing
    BY <1>42 DEF OnClosing
  <1>43. ASSUME NEW t \in Tokens, Enqueue(t) PROVE Lifecycle
    BY <1>43, PlaceTypes DEF Enqueue, Lifecycle, MayBecome, MayEnqueue
  <1>44. ASSUME NEW t \in Tokens, Abort(t) PROVE Lifecycle
    BY <1>44, PlaceTypes DEF Abort, Lifecycle, MayBecome
  <1>45. ASSUME NEW e \in Element, Recv(e) PROVE Lifecycle
    BY <1>45 DEF Recv
  <1>46. ASSUME NEW e \in Element, RecvUnknown(e) PROVE Lifecycle
    BY <1>46 DEF RecvUnknown
  <1>47. ASSUME NEW r \in BOOLEAN, RecvEnabled(r) PROVE Lifecycle
    BY <1>47 DEF RecvEnabled
  <1>48. ASSUME NEW h \in Counter, RecvResumed(h) PROVE Lifecycle
    BY <1>48 DEF RecvResumed
  <1>49. ASSUME NEW h \in Counter \cup {NoCounter}, RecvResumeFailed(h) PROVE Lifecycle
    BY <1>49 DEF RecvResumeFailed
  <1>50. CASE UNCHANGED vars
    BY <1>50 DEF vars
  <1>. QED
    BY <1>1, <1>2, <1>3, <1>4, <1>5, <1>6, <1>7, <1>8, <1>9, <1>10, <1>11, <1>12,
       <1>13, <1>14, <1>15, <1>16, <1>17, <1>18, <1>19, <1>20, <1>21, <1>22, <1>23,
       <1>24, <1>25, <1>26, <1>27, <1>28, <1>29, <1>30, <1>31, <1>32, <1>33, <1>34,
       <1>35, <1>36, <1>37, <1>38, <1>39, <1>40, <1>41, <1>42, <1>43, <1>44, <1>45,
       <1>46, <1>47, <1>48, <1>49, <1>50
    DEF Next, Application, Broker, Owner, Continuation, Peer

\* The verdict of a session on a stanza is final: no late acknowledgement,
\* resumption or shutdown revises it.
THEOREM SettledFinal == Spec => SettledIsFinal
  <1>1. IInv /\ [Next]_vars => [\A t \in Tokens : state[t] \in Settled => state'[t] = state[t]]_vars
    BY LifecycleStep DEF IInv, Lifecycle, MayBecome, QueuedState, Settled
  <1>. QED
    BY <1>1, Inductive, PTL DEF Spec, SettledIsFinal

\* A stanza aborted while it is queued is never sent, whatever moves it.
THEOREM AbortedNotSent == Spec => AbortedIsNotSent
  <1>1. IInv /\ [Next]_vars
           => [\A t \in Tokens : state[t] = "ABORTED" => state'[t] \in {"ABORTED", "DISCONNECTED"}]_vars
    BY LifecycleStep DEF IInv, Lifecycle, MayBecome, QueuedState
  <1>. QED
    BY <1>1, Inductive, PTL DEF Spec, AbortedIsNotSent

-----------------------------------------------------------------------------
(* When stanzas are sent. *)

LEMMA Senders == Next /\ SendsStanza => SendFirst \/ SendNext
  <1>. SUFFICES ASSUME Next, SendsStanza PROVE SendFirst \/ SendNext
    OBVIOUS
  <1>. USE DEF Emit, Silent, SendsStanza, SMRequest, SMAck
  <1>1. CASE Stop
    BY <1>1 DEF Stop
  <1>2. CASE BrokerStart
    BY <1>2 DEF BrokerStart
  <1>3. CASE BrokerNeverRuns
    BY <1>3 DEF BrokerNeverRuns
  <1>4. CASE BrokerWake
    BY <1>4 DEF BrokerWake, Serve, FuturesDone, LockFree
  <1>5. CASE BrokerLocks
    BY <1>5 DEF BrokerLocks, Serve, LockFree
  <1>6. CASE SendFirst
    BY <1>6
  <1>7. CASE SendNext
    BY <1>7
  <1>8. CASE BatchDone
    BY <1>8 DEF BatchDone, AfterBatch
  <1>9. CASE BatchRaises
    BY <1>9 DEF BatchRaises, Terminate, Cleanup, DestroyState, LockFree, Rescued, Drain, SMOff, Abandoned
  <1>10. CASE ProcessStanza
    BY <1>10 DEF ProcessStanza, IncomingDone
  <1>11. CASE ProcessAck
    BY <1>11 DEF ProcessAck, IncomingDone, AckUpTo
  <1>12. CASE ProcessRequest
    BY <1>12 DEF ProcessRequest, IncomingDone
  <1>13. CASE ProcessRaises
    BY <1>13 DEF ProcessRaises, Terminate, Cleanup, DestroyState, LockFree, Rescued, Drain, SMOff, Abandoned
  <1>14. CASE BrokerCancelled
    BY <1>14 DEF BrokerCancelled, Terminate, Cleanup, DestroyState, LockFree, Rescued, Drain, SMOff, Abandoned
  <1>15. CASE FinalLocked
    BY <1>15 DEF FinalLocked, Cleanup, DestroyState, LockFree, SMOff, Abandoned
  <1>16. CASE FinalCancelled
    BY <1>16 DEF FinalCancelled
  <1>17. CASE GetActive
    BY <1>17 DEF GetActive
  <1>18. CASE GetIncoming
    BY <1>18 DEF GetIncoming
  <1>19. CASE Connect
    BY <1>19 DEF Connect
  <1>20. CASE Start
    BY <1>20 DEF Start, Commit
  <1>21. CASE StartSM
    BY <1>21 DEF StartSM
  <1>22. CASE StartSMCancelled
    BY <1>22 DEF StartSMCancelled, ReleaseLock
  <1>23. CASE StopSM
    BY <1>23 DEF StopSM, DestroyState, SMOff, Abandoned
  <1>24. CASE ResumeSM
    BY <1>24 DEF ResumeSM
  <1>25. CASE CloseStopped
    BY <1>25 DEF CloseStopped, CloseFinish, DestroyState, SMOff, Abandoned
  <1>26. CASE CloseRunning
    BY <1>26 DEF CloseRunning
  <1>27. CASE CloseRaises
    BY <1>27 DEF CloseRaises
  <1>28. CASE StartSMAnswered
    BY <1>28 DEF StartSMAnswered, ReleaseLock
  <1>29. CASE StartSMDies
    BY <1>29 DEF StartSMDies, ReleaseLock
  <1>30. CASE Resumed
    BY <1>30 DEF Resumed, Commit, ResumeOver, AckUpTo, Retransmit
  <1>31. CASE ResumeRaises
    BY <1>31 DEF ResumeRaises, ResumeOver
  <1>32. CASE ResumeRefused
    BY <1>32 DEF ResumeRefused, ResumeOver, SMOff
  <1>33. CASE ResumeDies
    BY <1>33 DEF ResumeDies, ResumeOver
  <1>34. CASE CloseStops
    BY <1>34 DEF CloseStops
  <1>35. CASE CloseEnds
    BY <1>35 DEF CloseEnds, CloseFinish, DestroyState, SMOff, Abandoned
  <1>36. CASE CloseFails
    BY <1>36 DEF CloseFails
  <1>37. CASE ConnFails
    BY <1>37 DEF ConnFails
  <1>38. CASE PeerEof
    BY <1>38 DEF PeerEof
  <1>39. CASE ConnGone
    BY <1>39 DEF ConnGone
  <1>40. CASE SoftLimitTripped
    BY <1>40 DEF SoftLimitTripped
  <1>41. CASE RecvSMFailed
    BY <1>41 DEF RecvSMFailed
  <1>42. CASE OnClosing
    BY <1>42 DEF OnClosing
  <1>43. ASSUME NEW t \in Tokens, Enqueue(t) PROVE SendFirst \/ SendNext
    BY <1>43 DEF Enqueue, MayEnqueue
  <1>44. ASSUME NEW t \in Tokens, Abort(t) PROVE SendFirst \/ SendNext
    BY <1>44 DEF Abort
  <1>45. ASSUME NEW e \in Element, Recv(e) PROVE SendFirst \/ SendNext
    BY <1>45 DEF Recv
  <1>46. ASSUME NEW e \in Element, RecvUnknown(e) PROVE SendFirst \/ SendNext
    BY <1>46 DEF RecvUnknown
  <1>47. ASSUME NEW r \in BOOLEAN, RecvEnabled(r) PROVE SendFirst \/ SendNext
    BY <1>47 DEF RecvEnabled
  <1>48. ASSUME NEW h \in Counter, RecvResumed(h) PROVE SendFirst \/ SendNext
    BY <1>48 DEF RecvResumed
  <1>49. ASSUME NEW h \in Counter \cup {NoCounter}, RecvResumeFailed(h) PROVE SendFirst \/ SendNext
    BY <1>49 DEF RecvResumeFailed
  <1>. QED
    BY <1>1, <1>2, <1>3, <1>4, <1>5, <1>6, <1>7, <1>8, <1>9, <1>10, <1>11, <1>12,
       <1>13, <1>14, <1>15, <1>16, <1>17, <1>18, <1>19, <1>20, <1>21, <1>22, <1>23,
       <1>24, <1>25, <1>26, <1>27, <1>28, <1>29, <1>30, <1>31, <1>32, <1>33, <1>34,
       <1>35, <1>36, <1>37, <1>38, <1>39, <1>40, <1>41, <1>42, <1>43, <1>44, <1>45,
       <1>46, <1>47, <1>48, <1>49
    DEF Next, Application, Broker, Owner, Continuation, Peer

\* While a coroutine awaits the answer to <enable/>, the broker sends no stanza.
THEOREM EnablingQuiet == Spec => EnablingIsQuiet
  <1>1. IInv /\ [Next]_vars => [smop # "none" => ~SendsStanza]_vars
    <2>. SUFFICES ASSUME IInv, Next, smop # "none", SendsStanza PROVE UNCHANGED vars
      OBVIOUS
    <2>. QED
      BY Senders DEF IInv, ControlInv, Yielded, SendFirst, SendNext
  <1>. QED
    BY <1>1, Inductive, PTL DEF Spec, EnablingIsQuiet

\* A broker that was told to stop sends no further stanza.
THEOREM StoppedQuiet == Spec => StoppedIsQuiet
  <1>1. IInv /\ [Next]_vars => [cancel /\ broker # "bulk" => ~SendsStanza]_vars
    <2>. SUFFICES ASSUME IInv, Next, cancel, broker # "bulk", SendsStanza PROVE UNCHANGED vars
      OBVIOUS
    <2>. QED
      BY Senders DEF IInv, ControlInv, SendFirst, SendNext
  <1>. QED
    BY <1>1, Inductive, PTL DEF Spec, StoppedIsQuiet
=============================================================================
