--------------------------- MODULE TrackingProofs ---------------------------
(***************************************************************************)
(* Proofs about Tracking, for any messages, bodies and bounds: the inbound *)
(* filters end the broker for no other reason than a closed tracker, an    *)
(* aborted tracker is that of a message the server never had, a tracker    *)
(* that claims a delivery is right, and the room's listener for messages   *)
(* stays connected while its tables can be relied on.                      *)
(*                                                                         *)
(* The inductive invariant ties the state of a message's tracker and token *)
(* to where the message and what answers it can be: a message reaches the  *)
(* server once, is reflected once, and stays listed by its id until then.  *)
(* For the room's tables it has one part per reason why they agree: only   *)
(* bodies are matched, the ids suffice, or reflections come in the order   *)
(* the messages were sent.                                                 *)
(***************************************************************************)
EXTENDS Tracking, FiniteSetTheorems, TLAPS

Known == [kind : {"error", "receipt"}, of : Messages]
            \cup [kind : {"reflection"}, of : Grouped] \cup [kind : {"echo"}, of : Bodies]

\* What a tracker and a token say about the whereabouts of their message.
FatesInv == \A m \in Messages :
    /\ token[m] \in {"none", "active", "failed"} => m \notin server
    /\ state[m] = "aborted" => m \notin server /\ token[m] = "told"
    /\ token[m] = "none" => m \notin closed
    /\ m \in basic => m \notin closed

\* What is under way was caused by a message that reached the server.
ChannelsInv ==
    /\ \A j \in DOMAIN room : room[j] \in server
    /\ \A i \in DOMAIN inbound : LET s == inbound[i] IN
        /\ s.kind \in {"error", "reflection"} => s.of \in server
        /\ s.kind \in {"receipt", "reflection"} => s.of \in delivered
        /\ s.kind = "echo" => echoes > 0

Reflects(i, g) == inbound[i].kind = "reflection" /\ inbound[i].of = g

\* A groupchat message is in one place on its way to the room and back.
OnceInv ==
    /\ \A j, k \in DOMAIN room : room[j] = room[k] => j = k
    /\ \A g \in Grouped : \A i \in DOMAIN inbound : Reflects(i, g) =>
        /\ \A k \in DOMAIN inbound : Reflects(k, g) => i = k
        /\ \A j \in DOMAIN room : room[j] # g

\* While the ids suffice, a message is listed by its id until its reflection.
ListedInv == KnownById => \A g \in Grouped :
    \/ token[g] = "none"
    \/ g \in byId
    \/ /\ g \in server
       /\ \A j \in DOMAIN room : room[j] # g
       /\ \A i \in DOMAIN inbound : ~Reflects(i, g)

(* The room's tables, and when matching cannot fail. *)

NoneClosed == closed \cap Grouped = {}

\* The tables list only messages that were sent, and those by id agree.
TablesInv ==
    /\ \A b \in Bodies : \A i \in DOMAIN byBody[b] :
          token[byBody[b][i]] # "none" /\ Body[byBody[b][i]] = b
    /\ \A g \in byId : token[g] # "none"
    /\ IsFiniteSet(byId)
    /\ NoneClosed => byId = meta
    /\ ~dispatch => \E g \in Grouped : token[g] # "none"

\* What the room has answered, it answered in one way.
AnsweredInv ==
    /\ errors \subseteq server /\ delivered \subseteq server
    /\ \A g \in Grouped : g \notin errors \/ g \notin delivered
    /\ \A j \in DOMAIN room : room[j] \notin errors \cup delivered

\* The list of each body has exactly the messages listed by id, each once.
Exactly(list, b, ids) ==
    /\ \A i, j \in DOMAIN list : list[i] = list[j] => i = j
    /\ \A i \in DOMAIN list : list[i] \in ids
    /\ \A g \in ids : Body[g] = b => \E i \in DOMAIN list : list[i] = g

ExactTables == \A b \in Bodies : Exactly(byBody[b], b, byId)

\* If the room rewrites the ids, only bodies are matched.
BodiesInv == NoneClosed /\ rewrites => dispatch /\ ExactTables

\* If the ids suffice, another message of the body may be removed from its list,
\* but as many are left as are listed by id.
ListedAs(b) == {g \in byId : Body[g] = b}
CountsInv == KnownById => dispatch /\ \A b \in Bodies : Cardinality(ListedAs(b)) = Len(byBody[b])

\* Never to be reflected: refused by the room, or it did not reach the server.
Doomed(g) == g \in errors \/ (token[g] \notin {"none", "active"} /\ g \notin server)

\* Everything that was sent will be reflected, in the order sent.
Orderly == NoneClosed /\ ~rewrites /\ lost = 0 /\ \A g \in Grouped : ~Doomed(g)

\* t is no further on its way to the room and back than s is.
Ahead(s, t) ==
    /\ \E p, q \in DOMAIN order : p < q /\ order[p] = s /\ order[q] = t
    /\ token[s] = "active" => token[t] = "active"
    /\ \A q \in DOMAIN room : room[q] = t =>
          \/ \E p \in DOMAIN room : p < q /\ room[p] = s
          \/ \E p \in DOMAIN inbound : Reflects(p, s)
    /\ \A q \in DOMAIN inbound : Reflects(q, t) =>
          \E p \in DOMAIN inbound : p < q /\ Reflects(p, s)

\* s has yet to be reflected.
Expected(s) ==
    /\ \E p \in DOMAIN order : order[p] = s
    /\ \/ token[s] = "active"
       \/ \E p \in DOMAIN room : room[p] = s
       \/ \E p \in DOMAIN inbound : Reflects(p, s)

InOrder(list) == \A t \in Grouped : \A j \in DOMAIN list : list[j] = t =>
    /\ Expected(t)
    /\ \A s \in Grouped : \A i \in DOMAIN list : i < j /\ list[i] = s => Ahead(s, t)

QueueInv == Orderly => dispatch /\ ExactTables /\ \A b \in Bodies : InOrder(byBody[b])

\* What MatchingSurvives rests on.
MatchInv == TablesInv /\ AnsweredInv /\ BodiesInv /\ CountsInv /\ QueueInv

Inv == /\ TypeOK /\ FatesInv /\ ChannelsInv /\ OnceInv /\ ListedInv /\ DeliveredIsTrue /\ BrokerSurvives
       /\ MatchInv

-----------------------------------------------------------------------------
(* Operators *)

\* The elements of a sequence after Append and Tail, position by position.
LEMMA AppendAt ==
    ASSUME NEW S, NEW s \in Seq(S), NEW e \in S
    PROVE  /\ Append(s, e) \in Seq(S)
           /\ \A i \in DOMAIN Append(s, e) :
                \/ i \in DOMAIN s /\ Append(s, e)[i] = s[i]
                \/ i = Len(s) + 1 /\ i \notin DOMAIN s /\ Append(s, e)[i] = e
  OBVIOUS

LEMMA TailAt ==
    ASSUME NEW S, NEW s \in Seq(S), s # <<>>
    PROVE  /\ Head(s) \in S /\ Head(s) = s[1] /\ 1 \in DOMAIN s
           /\ Tail(s) \in Seq(S)
           /\ \A i \in DOMAIN Tail(s) :
                i + 1 \in DOMAIN s /\ i + 1 # 1 /\ Tail(s)[i] = s[i + 1]
           /\ \A i, j \in DOMAIN Tail(s) : i + 1 = j + 1 => i = j
  OBVIOUS

LEMMA EmptyAt == ASSUME NEW S PROVE <<>> \in Seq(S) /\ DOMAIN <<>> = {}
  OBVIOUS

\* What SetState does: it sets the state of one open tracker, if that is allowed.
LEMMA SetStateIs ==
    ASSUME TypeOK, NEW m \in Messages, NEW new \in {"aborted", "error", "server", "recipient"},
           SetState(m, new)
    PROVE  /\ state' \in [Messages -> {"transit", "aborted", "error", "server", "recipient"}]
           /\ closed' = closed
           /\ \A n \in Messages \ {m} : state'[n] = state[n]
           /\ state'[m] = IF Allowed(state[m], new) THEN new ELSE state[m]
  BY DEF TypeOK, SetState

LEMMA StanzaType ==
    /\ \A m \in Messages : \A kind \in {"error", "receipt"} : Stanza(kind, m) \in Known
    /\ \A g \in Grouped : Stanza("reflection", g) \in Known
    /\ \A b \in Bodies : Stanza("echo", b) \in Known
    /\ \A kind, m : Stanza(kind, m).kind = kind /\ Stanza(kind, m).of = m
    /\ \A s \in Known :
        \/ s.kind \in {"error", "receipt"} /\ s.of \in Messages
        \/ s.kind = "reflection" /\ s.of \in Grouped
        \/ s.kind = "echo" /\ s.of \in Bodies
  BY DEF Stanza, Known

LEMMA BodyType == \A g \in Grouped : g \in Messages /\ Body[g] \in Bodies
  BY DEF Messages, Bodies

States == {"transit", "aborted", "error", "server", "recipient"}

\* The effect of finding a tracker, whether or not a table misses it.
LEMMA MatchIs ==
    ASSUME TypeOK, NEW t \in Grouped, Match(t)
    PROVE  /\ meta' \subseteq meta /\ byId' \subseteq byId /\ byId \subseteq byId' \cup {t}
           /\ byBody' \in [Bodies -> Seq(Grouped)]
           /\ state' \in [Messages -> States] /\ closed' = closed
           /\ \A n \in Messages : state'[n] = state[n] \/ (n = t /\ state'[n] = "recipient" /\ state[n] # "aborted")
           /\ dispatch' \in BOOLEAN
           /\ UNCHANGED <<basic, receipts, broker>>
  <1>. t \in Messages /\ Body[t] \in Bodies
    BY BodyType
  <1>1. byBody' \in [Bodies -> Seq(Grouped)]
    <2>1. CASE byBody' = byBody
      BY <2>1 DEF TypeOK
    <2>2. CASE byBody[Body[t]] # <<>> /\ byBody' = [byBody EXCEPT ![Body[t]] = Tail(@)]
      BY <2>2, TailAt DEF TypeOK
    <2>. QED
      BY <2>1, <2>2 DEF Match
  <1>2. /\ state' \in [Messages -> States] /\ closed' = closed
        /\ \A n \in Messages : state'[n] = state[n] \/ (n = t /\ state'[n] = "recipient" /\ state[n] # "aborted")
    <2>1. CASE UNCHANGED trackers
      BY <2>1 DEF TypeOK, trackers, States
    <2>2. CASE SetState(t, "recipient")
      BY <2>2, SetStateIs DEF States, Allowed
    <2>. QED
      BY <2>1, <2>2 DEF Match
  <1>. QED
    BY <1>1, <1>2 DEF Match, TypeOK

\* What a groupchat message of ours does: nothing, or a tracker is found.
LEMMA GroupchatIs ==
    ASSUME TypeOK, NEW ids \in SUBSET Grouped, NEW b \in Bodies, Groupchat(ids, b)
    PROVE  \/ UNCHANGED <<trackers, tables, broker, dispatch>>
           \/ \E t \in Grouped : Match(t) /\ (t \in ids \/ ids \cap byId = {})
  <1>1. CASE dispatch /\ ids \cap byId # {} /\ \E t \in ids : Match(t)
    BY <1>1
  <1>2. CASE ids \cap byId = {} /\ byBody[b] # <<>> /\ Match(Head(byBody[b]))
    <2>1. Head(byBody[b]) \in Grouped
      BY <1>2, TailAt DEF TypeOK
    <2>. QED
      BY <1>2, <2>1
  <1>3. CASE UNCHANGED <<trackers, tables, broker, dispatch>>
    BY <1>3
  <1>. QED
    BY <1>1, <1>2, <1>3 DEF Groupchat, MatchTracker

\* The broker takes one stanza, and its handler does one of four things.
LEMMA ReceiveIs ==
    ASSUME TypeOK, Receive
    PROVE  /\ inbound # <<>> /\ inbound' = Tail(inbound)
           /\ Head(inbound) = inbound[1] /\ 1 \in DOMAIN inbound
           /\ UNCHANGED <<token, order, fixed, peers, lost>>
           /\ \/ \E m \in Messages : inbound[1].kind = "error"
                                     /\ inbound[1].of = m /\ HandleError(m)
              \/ \E m \in Messages : inbound[1].kind = "receipt" /\ inbound[1].of = m /\ HandleReceipt(m)
              \/ \E g \in Grouped : /\ Reflects(1, g)
                                    /\ \/ UNCHANGED <<trackers, tables, broker, dispatch>>
                                       \/ \E t \in Grouped : Match(t) /\ (t = g \/ rewrites \/ g \notin byId)
              \/ /\ inbound[1].kind = "echo"
                 /\ \/ UNCHANGED <<trackers, tables, broker, dispatch>>
                    \/ \E t \in Grouped : Match(t)
  <1>. DEFINE s == Head(inbound)
  <1>1. inbound \in Seq(Known) /\ inbound # <<>>
    BY DEF Receive, TypeOK, Known
  <1>2. s \in Known /\ s = inbound[1] /\ 1 \in DOMAIN inbound
    BY <1>1, TailAt
  <1>3. CASE s.kind = "error" /\ s.of \in Messages
    BY <1>1, <1>2, <1>3 DEF Receive, Reflects
  <1>4. CASE s.kind = "receipt" /\ s.of \in Messages
    BY <1>1, <1>2, <1>4 DEF Receive, Reflects
  <1>5. CASE s.kind = "reflection" /\ s.of \in Grouped
    <2>. DEFINE ids == IF rewrites THEN {} ELSE {s.of}
    <2>1. ids \in SUBSET Grouped /\ Body[s.of] \in Bodies
      BY <1>5, BodyType
    <2>2. Groupchat(ids, Body[s.of])
      BY <1>5 DEF Receive
    <2>. HIDE DEF ids
    <2>3. \/ UNCHANGED <<trackers, tables, broker, dispatch>>
          \/ \E t \in Grouped : Match(t) /\ (t \in ids \/ ids \cap byId = {})
      BY <2>1, <2>2, GroupchatIs
    <2>4. \A t : (t \in ids \/ ids \cap byId = {}) => (t = s.of \/ rewrites \/ s.of \notin byId)
      BY DEF ids
    <2>5. \/ UNCHANGED <<trackers, tables, broker, dispatch>>
          \/ \E t \in Grouped : Match(t) /\ (t = s.of \/ rewrites \/ s.of \notin byId)
      BY <2>3, <2>4
    <2>. QED
      BY <1>1, <1>2, <1>5, <2>5 DEF Receive, Reflects
  <1>6. CASE s.kind = "echo" /\ s.of \in Bodies
    <2>1. Groupchat({}, s.of)
      BY <1>6 DEF Receive
    <2>2. \/ UNCHANGED <<trackers, tables, broker, dispatch>>
          \/ \E t \in Grouped : Match(t)
      BY <1>6, <2>1, GroupchatIs
    <2>. QED
      BY <1>1, <1>2, <1>6, <2>2 DEF Receive
  <1>. QED
    BY <1>2, <1>3, <1>4, <1>5, <1>6, StanzaType

-----------------------------------------------------------------------------
(* Types *)

\* The handlers of error replies and receipts: what they leave alone, and types.
LEMMA HandlersIs ==
    ASSUME TypeOK, NEW m \in Messages, HandleError(m) \/ HandleReceipt(m)
    PROVE  /\ basic' \subseteq basic /\ receipts' \subseteq receipts
           /\ UNCHANGED <<byId, byBody, meta, dispatch>> /\ closed' = closed
           /\ state' \in [Messages -> States] /\ broker' \in BOOLEAN
           /\ \A n \in Messages : state'[n] = state[n] \/ (n = m /\ state'[n] \in {"error", "recipient"}
                                                           /\ state[n] # "aborted")
  <1>. USE DEF trackers, tables, States
  <1>1. CASE HandleError(m)
    <2>1. UNCHANGED trackers \/ SetState(m, "error")
      BY <1>1 DEF HandleError
    <2>2. broker' \in BOOLEAN
      BY <1>1 DEF HandleError, TypeOK
    <2>3. CASE SetState(m, "error")
      BY <1>1, <2>2, <2>3, SetStateIs DEF HandleError, Allowed
    <2>4. CASE UNCHANGED trackers
      BY <1>1, <2>2, <2>4 DEF HandleError, TypeOK
    <2>. QED
      BY <2>1, <2>3, <2>4
  <1>2. CASE HandleReceipt(m)
    <2>1. UNCHANGED trackers \/ SetState(m, "recipient")
      BY <1>2 DEF HandleReceipt
    <2>2. broker' \in BOOLEAN
      BY <1>2 DEF HandleReceipt, TypeOK
    <2>3. CASE SetState(m, "recipient")
      BY <1>2, <2>2, <2>3, SetStateIs DEF HandleReceipt, Allowed
    <2>4. CASE UNCHANGED trackers
      BY <1>2, <2>2, <2>4 DEF HandleReceipt, TypeOK
    <2>. QED
      BY <2>1, <2>3, <2>4
  <1>. QED
    BY <1>1, <1>2

\* An error reply does not make a tracker claim a delivery.
LEMMA ErrorIs ==
    ASSUME TypeOK, NEW m \in Messages, HandleError(m)
    PROVE  \A n \in Messages : state'[n] \in {state[n], "error"}
  <1>1. CASE UNCHANGED trackers
    BY <1>1 DEF trackers
  <1>2. CASE SetState(m, "error")
    BY <1>2, SetStateIs
  <1>. QED
    BY <1>1, <1>2 DEF HandleError, trackers

\* The variables only a received stanza changes otherwise keep their type.
LEMMA ReceiveTypes == ASSUME TypeOK, Receive PROVE TypeOK'
  <1>1. inbound' \in Seq(Known) /\ UNCHANGED <<token, order, fixed, peers, lost>>
    <2>1. inbound \in Seq(Known)
      BY DEF TypeOK, Known
    <2>. QED
      BY <2>1, ReceiveIs, TailAt
  <1>2. /\ basic' \subseteq basic /\ receipts' \subseteq receipts /\ closed' = closed
        /\ byId' \subseteq byId /\ meta' \subseteq meta /\ byBody' \in [Bodies -> Seq(Grouped)]
        /\ state' \in [Messages -> States] /\ broker' \in BOOLEAN /\ dispatch' \in BOOLEAN
    <2>1. CASE UNCHANGED <<trackers, tables, broker, dispatch>>
      BY <2>1 DEF TypeOK, trackers, tables, States
    <2>2. ASSUME NEW t \in Grouped, Match(t) PROVE <1>2
      BY <2>2, MatchIs DEF TypeOK
    <2>3. ASSUME NEW m \in Messages, HandleError(m) \/ HandleReceipt(m) PROVE <1>2
      BY <2>3, HandlersIs DEF TypeOK
    <2>. QED
      BY <2>1, <2>2, <2>3, ReceiveIs
  <1>. QED
    BY <1>1, <1>2 DEF TypeOK, fixed, peers, Known, States

LEMMA TypesStep == TypeOK /\ [Next]_vars => TypeOK'
  <1>. SUFFICES ASSUME TypeOK, [Next]_vars PROVE TypeOK'
    OBVIOUS
  <1>. USE DEF trackers, tables, fixed, peers
  <1>a. Chats \subseteq Messages /\ Grouped \subseteq Messages /\ inbound \in Seq(Known)
    BY DEF Messages, TypeOK, Known
  <1>1. ASSUME NEW m \in Chats, SendChat(m) PROVE TypeOK'
    BY <1>1, <1>a, AppendAt DEF SendChat, TypeOK
  <1>2. ASSUME NEW m \in Chats, SendReceipt(m) PROVE TypeOK'
    <2>1. inbound' \in Seq(Known)
      BY <1>2, <1>a, AppendAt, StanzaType DEF SendReceipt
    <2>. QED
      BY <1>2, <1>a, <2>1 DEF SendReceipt, TypeOK, Known
  <1>3. ASSUME NEW m \in Chats, SendError(m) PROVE TypeOK'
    <2>1. inbound' \in Seq(Known)
      BY <1>3, <1>a, AppendAt, StanzaType DEF SendError
    <2>. QED
      BY <1>3, <1>a, <2>1 DEF SendError, TypeOK, Known
  <1>4. ASSUME NEW m \in Grouped, SendGrouped(m) PROVE TypeOK'
    <2>1. Body[m] \in Bodies /\ m \in Messages
      BY BodyType
    <2>2. byBody' \in [Bodies -> Seq(Grouped)] /\ order' \in Seq(Messages)
      BY <1>4, <2>1, AppendAt DEF SendGrouped, TypeOK
    <2>. QED
      BY <1>4, <2>1, <2>2 DEF SendGrouped, TypeOK
  <1>5. ASSUME NEW m \in Messages, Close(m) PROVE TypeOK'
    <2>1. byId' \subseteq byId /\ basic' \subseteq basic
      BY <1>5 DEF Close, TrackerClosed, RoomTrackerClosed
    <2>2. CASE byBody' = byBody
      BY <1>5, <2>1, <2>2 DEF Close, TypeOK
    <2>3. CASE m \in Grouped /\ byBody' = [byBody EXCEPT ![Body[m]] = <<>>]
      <3>1. Body[m] \in Bodies /\ <<>> \in Seq(Grouped)
        BY <2>3, BodyType
      <3>2. byBody' \in [Bodies -> Seq(Grouped)]
        BY <2>3, <3>1 DEF TypeOK
      <3>. QED
        BY <1>5, <2>1, <3>2 DEF Close, TypeOK
    <2>. QED
      BY <1>5, <2>2, <2>3 DEF Close, TrackerClosed, RoomTrackerClosed
  <1>6. ASSUME NEW m \in Messages, Acked(m) \/ Unsent(m) PROVE TypeOK'
    BY <1>6 DEF Acked, Unsent, TypeOK
  <1>7. ASSUME NEW m \in Messages, StanzaSent(m) PROVE TypeOK'
    <2>1. state' \in [Messages -> States] /\ closed' = closed
      BY <1>7, SetStateIs DEF StanzaSent, TypeOK, States
    <2>. QED
      BY <1>7, <2>1 DEF StanzaSent, TypeOK, States
  <1>8. ASSUME NEW m \in Messages, NEW arrives \in BOOLEAN, Transmit(m, arrives) PROVE TypeOK'
    <2>1. room' \in Seq(Grouped) /\ server' \subseteq Messages
      BY <1>8, AppendAt DEF Transmit, TypeOK
    <2>2. token' \in [Messages -> {"none", "active", "sent", "ok", "failed", "told"}]
      BY <1>8 DEF Transmit, TypeOK
    <2>. QED
      BY <1>8, <2>1, <2>2 DEF Transmit, TypeOK
  <1>9. ASSUME NEW counted \in BOOLEAN, SessionLost(counted) PROVE TypeOK'
    <2>1. token' \in [Messages -> {"none", "active", "sent", "ok", "failed", "told"}]
      BY <1>9 DEF SessionLost, TypeOK
    <2>2. lost' \in 0..MaxLost
      BY <1>9, TrackingBoundsAssumption DEF SessionLost, TypeOK
    <2>. QED
      BY <1>9, <2>1, <2>2 DEF SessionLost, TypeOK
  <1>10. ASSUME NEW b \in Bodies, Echo(b) PROVE TypeOK'
    <2>1. inbound' \in Seq(Known)
      BY <1>10, <1>a, AppendAt, StanzaType DEF Echo
    <2>2. echoes' \in 0..MaxEchoes
      BY <1>10, TrackingBoundsAssumption DEF Echo, TypeOK
    <2>. QED
      BY <1>10, <2>1, <2>2 DEF Echo, TypeOK, Known
  <1>11. CASE Resumed
    <2>1. token' \in [Messages -> {"none", "active", "sent", "ok", "failed", "told"}]
      BY <1>11 DEF Resumed, TypeOK
    <2>2. lost' \in 0..MaxLost
      BY <1>11, TrackingBoundsAssumption DEF Resumed, TypeOK
    <2>. QED
      BY <1>11, <2>1, <2>2 DEF Resumed, TypeOK
  <1>12. CASE RoomTakes
    <2>1. Head(room) \in Grouped /\ Tail(room) \in Seq(Grouped)
      BY <1>12, TailAt DEF RoomTakes, TypeOK
    <2>2. inbound' \in Seq(Known)
      <3>1. Stanza("reflection", Head(room)) \in Known /\ Stanza("error", Head(room)) \in Known
        BY <1>a, <2>1, StanzaType
      <3>. QED
        BY <1>12, <1>a, <3>1, AppendAt DEF RoomTakes
    <2>. QED
      BY <1>12, <1>a, <2>1, <2>2 DEF RoomTakes, TypeOK, Known
  <1>13. CASE Receive
    BY <1>13, ReceiveTypes
  <1>14. CASE UNCHANGED vars
    BY <1>14 DEF vars, TypeOK
  <1>. QED
    BY <1>1, <1>2, <1>3, <1>4, <1>5, <1>6, <1>7, <1>8, <1>9, <1>10, <1>11, <1>12, <1>13, <1>14
    DEF Next

-----------------------------------------------------------------------------
(* Where messages and what answers them can be *)

\* Whatever arrives, trackers are only closed by the application, and no error,
\* receipt or reflection aborts one.
LEMMA ReceiveSpares ==
    ASSUME TypeOK, Receive
    PROVE  /\ UNCHANGED <<token, closed, order, fixed, peers, lost>> /\ basic' \subseteq basic
           /\ byId' \subseteq byId
           /\ \A n \in Messages : state'[n] = "aborted" <=> state[n] = "aborted"
  <1>1. CASE UNCHANGED <<trackers, tables, broker, dispatch>>
    BY <1>1, ReceiveIs DEF trackers, tables
  <1>2. ASSUME NEW t \in Grouped, Match(t)
        PROVE  /\ closed' = closed /\ basic' = basic /\ byId' \subseteq byId
               /\ \A n \in Messages : state'[n] = "aborted" <=> state[n] = "aborted"
    BY <1>2, MatchIs
  <1>3. ASSUME NEW m \in Messages, HandleError(m) \/ HandleReceipt(m)
        PROVE  /\ closed' = closed /\ basic' \subseteq basic /\ byId' = byId
               /\ \A n \in Messages : state'[n] = "aborted" <=> state[n] = "aborted"
    BY <1>3, HandlersIs
  <1>. QED
    BY <1>1, <1>2, <1>3, ReceiveIs

LEMMA FatesStep == TypeOK /\ FatesInv /\ [Next]_vars => FatesInv'
  <1>. SUFFICES ASSUME TypeOK, FatesInv, [Next]_vars PROVE FatesInv'
    OBVIOUS
  <1>. USE DEF FatesInv, trackers, tables, fixed, peers
  <1>a. Chats \subseteq Messages /\ Grouped \subseteq Messages
    BY DEF Messages
  <1>1. ASSUME NEW m \in Chats, SendChat(m) PROVE FatesInv'
    BY <1>1, <1>a DEF SendChat, TypeOK
  <1>2. ASSUME NEW m \in Chats, SendReceipt(m) \/ SendError(m) PROVE FatesInv'
    BY <1>2 DEF SendReceipt, SendError
  <1>3. ASSUME NEW m \in Grouped, SendGrouped(m) PROVE FatesInv'
    BY <1>3, <1>a DEF SendGrouped, TypeOK
  <1>4. ASSUME NEW m \in Messages, Close(m) PROVE FatesInv'
    BY <1>4 DEF Close, TrackerClosed
  <1>5. ASSUME NEW m \in Messages, Acked(m) \/ Unsent(m) PROVE FatesInv'
    BY <1>5 DEF Acked, Unsent, TypeOK
  <1>6. ASSUME NEW m \in Messages, StanzaSent(m) PROVE FatesInv'
    <2>1. CASE UNCHANGED trackers
      BY <1>6, <2>1 DEF StanzaSent, TypeOK
    <2>2. CASE token[m] = "ok" /\ SetState(m, "server")
      BY <1>6, <2>2, SetStateIs DEF StanzaSent, TypeOK, Allowed
    <2>3. CASE token[m] = "failed" /\ SetState(m, "aborted")
      BY <1>6, <2>3, SetStateIs DEF StanzaSent, TypeOK, Allowed
    <2>. QED
      BY <1>6, <2>1, <2>2, <2>3 DEF StanzaSent
  <1>7. ASSUME NEW m \in Messages, NEW arrives \in BOOLEAN, Transmit(m, arrives) PROVE FatesInv'
    BY <1>7 DEF Transmit, IsNext, TypeOK
  <1>8. ASSUME NEW counted \in BOOLEAN, SessionLost(counted) PROVE FatesInv'
    BY <1>8 DEF SessionLost, TypeOK
  <1>9. CASE Resumed
    BY <1>9 DEF Resumed, TypeOK
  <1>10. CASE RoomTakes \/ \E b \in Bodies : Echo(b)
    BY <1>10 DEF RoomTakes, Echo
  <1>11. CASE Receive
    BY <1>11, ReceiveSpares
  <1>12. CASE UNCHANGED vars
    BY <1>12 DEF vars
  <1>. QED
    BY <1>1, <1>2, <1>3, <1>4, <1>5, <1>6, <1>7, <1>8, <1>9, <1>10, <1>11, <1>12 DEF Next

\* What must hold of a stanza s under way, for given values of the variables.
Caused(s, reached, answered, n) ==
    /\ s.kind \in {"error", "reflection"} => s.of \in reached
    /\ s.kind \in {"receipt", "reflection"} => s.of \in answered
    /\ s.kind = "echo" => n > 0

LEMMA ChannelsStep == TypeOK /\ ChannelsInv /\ [Next]_vars => ChannelsInv'
  <1>. SUFFICES ASSUME TypeOK, ChannelsInv, [Next]_vars PROVE ChannelsInv'
    OBVIOUS
  <1>. USE DEF trackers, tables, fixed, peers
  <1>a. /\ Chats \subseteq Messages /\ Grouped \subseteq Messages
        /\ inbound \in Seq(Known) /\ room \in Seq(Grouped)
    BY DEF Messages, TypeOK, Known
  <1>b. /\ \A j \in DOMAIN room : room[j] \in server
        /\ \A i \in DOMAIN inbound : Caused(inbound[i], server, delivered, echoes)
    BY DEF ChannelsInv, Caused
  <1>c. ASSUME server \subseteq server', delivered \subseteq delivered', echoes' \in Nat, echoes' >= echoes,
               \A j \in DOMAIN room' : room'[j] \in server',
               \/ inbound' = inbound \/ inbound' = <<>> \/ (inbound # <<>> /\ inbound' = Tail(inbound))
               \/ \E s \in Known : inbound' = Append(inbound, s) /\ Caused(s, server', delivered', echoes')
        PROVE  ChannelsInv'
    <2>1. \A s : Caused(s, server, delivered, echoes) => Caused(s, server', delivered', echoes')
      BY <1>c, TrackingBoundsAssumption DEF Caused, TypeOK
    <2>3. \A i \in DOMAIN inbound : Caused(inbound[i], server', delivered', echoes')
      BY <1>b, <2>1
    <2>4. \A i \in DOMAIN inbound' : Caused(inbound'[i], server', delivered', echoes')
      <3>1. CASE inbound' = inbound \/ inbound' = <<>>
        BY <2>3, <3>1
      <3>2. CASE inbound # <<>> /\ inbound' = Tail(inbound)
        BY <1>a, <2>3, <3>2, TailAt
      <3>3. ASSUME NEW s \in Known, inbound' = Append(inbound, s), Caused(s, server', delivered', echoes')
            PROVE  <2>4
        BY <1>a, <2>3, <3>3, AppendAt
      <3>. QED
        BY <1>c, <3>1, <3>2, <3>3
    <2>. QED
      BY <1>c, <2>4 DEF ChannelsInv, Caused
  <1>1. ASSUME NEW m \in Chats, SendChat(m) PROVE ChannelsInv'
    BY <1>1 DEF SendChat, ChannelsInv
  <1>2. ASSUME NEW m \in Chats, SendReceipt(m) PROVE ChannelsInv'
    <2>1. Caused(Stanza("receipt", m), server', delivered', echoes') /\ Stanza("receipt", m) \in Known
      BY <1>2, <1>a, StanzaType DEF SendReceipt, Caused
    <2>. QED
      BY <1>2, <1>b, <1>c, <2>1 DEF SendReceipt, TypeOK
  <1>3. ASSUME NEW m \in Chats, SendError(m) PROVE ChannelsInv'
    <2>1. Caused(Stanza("error", m), server', delivered', echoes') /\ Stanza("error", m) \in Known
      BY <1>3, <1>a, StanzaType DEF SendError, Caused
    <2>. QED
      BY <1>3, <1>b, <1>c, <2>1 DEF SendError, TypeOK
  <1>4. ASSUME NEW m \in Grouped, SendGrouped(m) PROVE ChannelsInv'
    BY <1>4 DEF SendGrouped, ChannelsInv
  <1>5. ASSUME NEW m \in Messages, Close(m) \/ Acked(m) \/ Unsent(m) \/ StanzaSent(m) PROVE ChannelsInv'
    BY <1>5 DEF Close, Acked, Unsent, StanzaSent, ChannelsInv
  <1>6. ASSUME NEW m \in Messages, NEW arrives \in BOOLEAN, Transmit(m, arrives) PROVE ChannelsInv'
    <2>1. \A j \in DOMAIN room' : room'[j] \in server'
      <3>1. CASE room' = room
        BY <1>6, <1>b, <3>1 DEF Transmit
      <3>2. CASE arrives /\ m \in Grouped /\ room' = Append(room, m)
        BY <1>6, <1>a, <1>b, <3>2, AppendAt DEF Transmit
      <3>. QED
        BY <1>6, <3>1, <3>2 DEF Transmit
    <2>. QED
      BY <1>6, <1>c, <2>1 DEF Transmit, TypeOK
  <1>7. ASSUME NEW counted \in BOOLEAN, SessionLost(counted) PROVE ChannelsInv'
    BY <1>7 DEF SessionLost, ChannelsInv
  <1>8. ASSUME NEW b \in Bodies, Echo(b) PROVE ChannelsInv'
    <2>1. Caused(Stanza("echo", b), server', delivered', echoes') /\ Stanza("echo", b) \in Known
      BY <1>8, StanzaType, TrackingBoundsAssumption DEF Echo, Caused, TypeOK
    <2>. QED
      BY <1>8, <1>b, <1>c, <2>1, TrackingBoundsAssumption DEF Echo, TypeOK
  <1>9. CASE Resumed
    BY <1>9 DEF Resumed, ChannelsInv
  <1>10. CASE RoomTakes
    <2>. DEFINE g == Head(room)
    <2>1. g \in Grouped /\ g \in server /\ \A j \in DOMAIN Tail(room) : Tail(room)[j] \in server
      BY <1>10, <1>a, <1>b, TailAt DEF RoomTakes
    <2>2. CASE delivered' = delivered \cup {g} /\ inbound' = Append(inbound, Stanza("reflection", g))
      <3>1. Caused(Stanza("reflection", g), server', delivered', echoes') /\ Stanza("reflection", g) \in Known
        BY <1>10, <2>1, <2>2, StanzaType DEF RoomTakes, Caused
      <3>. QED
        BY <1>10, <1>c, <2>1, <2>2, <3>1 DEF RoomTakes, TypeOK
    <2>3. CASE UNCHANGED delivered /\ inbound' = Append(inbound, Stanza("error", g))
      <3>1. Caused(Stanza("error", g), server', delivered', echoes') /\ Stanza("error", g) \in Known
        BY <1>10, <1>a, <2>1, <2>3, StanzaType DEF RoomTakes, Caused
      <3>. QED
        BY <1>10, <1>c, <2>1, <2>3, <3>1 DEF RoomTakes, TypeOK
    <2>. QED
      BY <1>10, <2>2, <2>3 DEF RoomTakes
  <1>11. CASE Receive
    BY <1>11, <1>b, <1>c, ReceiveIs DEF TypeOK
  <1>12. CASE UNCHANGED vars
    BY <1>12 DEF vars, ChannelsInv
  <1>. QED
    BY <1>1, <1>2, <1>3, <1>4, <1>5, <1>6, <1>7, <1>8, <1>9, <1>10, <1>11, <1>12 DEF Next
LEMMA OnceStep == TypeOK /\ FatesInv /\ ChannelsInv /\ OnceInv /\ [Next]_vars => OnceInv'
  <1>. SUFFICES ASSUME TypeOK, FatesInv, ChannelsInv, OnceInv, [Next]_vars PROVE OnceInv'
    OBVIOUS
  <1>. USE DEF trackers, tables, fixed, peers
  <1>a. /\ Chats \subseteq Messages /\ Grouped \subseteq Messages
        /\ inbound \in Seq(Known) /\ room \in Seq(Grouped)
    BY DEF Messages, TypeOK, Known
  <1>b. ASSUME UNCHANGED <<room, inbound>> PROVE OnceInv'
    BY <1>b DEF OnceInv, Reflects
  <1>c. ASSUME NEW s \in Known, s.kind # "reflection", inbound' = Append(inbound, s), UNCHANGED room
        PROVE  OnceInv'
    <2>1. \A g \in Grouped : \A i \in DOMAIN inbound' : Reflects(i, g)' => i \in DOMAIN inbound /\ Reflects(i, g)
      BY <1>a, <1>c, AppendAt DEF Reflects
    <2>. QED
      BY <1>c, <2>1 DEF OnceInv
  <1>1. ASSUME NEW m \in Chats, SendChat(m) PROVE OnceInv'
    BY <1>1, <1>b DEF SendChat
  <1>2. ASSUME NEW m \in Chats, SendReceipt(m) PROVE OnceInv'
    BY <1>2, <1>a, <1>c, StanzaType DEF SendReceipt
  <1>3. ASSUME NEW m \in Chats, SendError(m) PROVE OnceInv'
    BY <1>3, <1>a, <1>c, StanzaType DEF SendError
  <1>4. ASSUME NEW m \in Grouped, SendGrouped(m) PROVE OnceInv'
    BY <1>4, <1>b DEF SendGrouped
  <1>5. ASSUME NEW m \in Messages, Close(m) \/ Acked(m) \/ Unsent(m) \/ StanzaSent(m) PROVE OnceInv'
    BY <1>5, <1>b DEF Close, Acked, Unsent, StanzaSent
  <1>6. ASSUME NEW m \in Messages, NEW arrives \in BOOLEAN, Transmit(m, arrives) PROVE OnceInv'
    <2>1. CASE room' = room
      BY <1>6, <1>b, <2>1 DEF Transmit
    <2>2. CASE m \in Grouped /\ room' = Append(room, m)
      <3>1. m \notin server
        BY <1>6 DEF Transmit, IsNext, FatesInv
      <3>2. /\ \A j \in DOMAIN room : room[j] # m
            /\ \A i \in DOMAIN inbound : ~Reflects(i, m)
        BY <3>1 DEF ChannelsInv, Reflects
      <3>3. \A j \in DOMAIN room' : \/ j \in DOMAIN room /\ room'[j] = room[j]
                                    \/ j = Len(room) + 1 /\ room'[j] = m
        BY <1>a, <2>2, AppendAt
      <3>4. \A j, k \in DOMAIN room' : room'[j] = room'[k] => j = k
        BY <3>2, <3>3 DEF OnceInv
      <3>5. inbound' = inbound
        BY <1>6 DEF Transmit
      <3>6. ASSUME NEW g \in Grouped, NEW i \in DOMAIN inbound, Reflects(i, g)
            PROVE  \A j \in DOMAIN room' : room'[j] # g
        BY <3>2, <3>3, <3>6 DEF OnceInv
      <3>. QED
        BY <3>4, <3>5, <3>6 DEF OnceInv, Reflects
    <2>. QED
      BY <1>6, <2>1, <2>2 DEF Transmit
  <1>7. ASSUME NEW counted \in BOOLEAN, SessionLost(counted) PROVE OnceInv'
    BY <1>7 DEF SessionLost, OnceInv
  <1>8. ASSUME NEW b \in Bodies, Echo(b) PROVE OnceInv'
    BY <1>8, <1>c, StanzaType DEF Echo
  <1>9. CASE Resumed
    BY <1>9, <1>b DEF Resumed
  <1>10. CASE RoomTakes
    <2>. DEFINE h == Head(room)
    <2>1. /\ room # <<>> /\ room' = Tail(room) /\ h \in Grouped /\ h = room[1] /\ 1 \in DOMAIN room
          /\ \A j \in DOMAIN room' : j + 1 \in DOMAIN room /\ j + 1 # 1 /\ room'[j] = room[j + 1]
          /\ \A j, k \in DOMAIN room' : j + 1 = k + 1 => j = k
      BY <1>10, <1>a, TailAt DEF RoomTakes
    <2>. HIDE DEF h
    <2>2. /\ \A j, k \in DOMAIN room' : room'[j] = room'[k] => j = k
          /\ \A j \in DOMAIN room' : room'[j] # h
          /\ \A i \in DOMAIN inbound : ~Reflects(i, h)
      BY <2>1 DEF OnceInv
    <2>3. CASE inbound' = Append(inbound, Stanza("error", h))
      <3>1. Stanza("error", h) \in Known /\ Stanza("error", h).kind = "error"
        BY <1>a, <2>1, StanzaType
      <3>2. \A g \in Grouped : \A i \in DOMAIN inbound' : Reflects(i, g)' => i \in DOMAIN inbound /\ Reflects(i, g)
        BY <1>a, <2>3, <3>1, AppendAt DEF Reflects
      <3>. QED
        BY <2>1, <2>2, <3>2 DEF OnceInv
    <2>4. CASE inbound' = Append(inbound, Stanza("reflection", h))
      <3>1. /\ Stanza("reflection", h) \in Known
            /\ Stanza("reflection", h).kind = "reflection" /\ Stanza("reflection", h).of = h
        BY <2>1, StanzaType
      <3>2. \A g \in Grouped : \A i \in DOMAIN inbound' : Reflects(i, g)' =>
                \/ i \in DOMAIN inbound /\ Reflects(i, g)
                \/ i = Len(inbound) + 1 /\ g = h
        BY <1>a, <2>4, <3>1, AppendAt DEF Reflects
      <3>. QED
        BY <2>1, <2>2, <3>2 DEF OnceInv
    <2>. QED
      BY <1>10, <2>3, <2>4 DEF RoomTakes, h
  <1>11. CASE Receive
    <2>1. inbound # <<>> /\ inbound' = Tail(inbound) /\ room' = room
      BY <1>11, ReceiveIs
    <2>2. /\ \A i \in DOMAIN inbound' : i + 1 \in DOMAIN inbound /\ inbound'[i] = inbound[i + 1]
          /\ \A i, j \in DOMAIN inbound' : i + 1 = j + 1 => i = j
      BY <1>a, <2>1, TailAt
    <2>. QED
      BY <2>1, <2>2 DEF OnceInv, Reflects
  <1>12. CASE UNCHANGED vars
    BY <1>12, <1>b DEF vars
  <1>. QED
    BY <1>1, <1>2, <1>3, <1>4, <1>5, <1>6, <1>7, <1>8, <1>9, <1>10, <1>11, <1>12 DEF Next
-----------------------------------------------------------------------------
(* Recognising what the room reflects *)

LEMMA KnownByIdStays == TypeOK /\ [Next]_vars /\ KnownById' => KnownById
  <1>. SUFFICES ASSUME TypeOK, [Next]_vars PROVE closed \subseteq closed' /\ echoes' >= echoes /\ rewrites' = rewrites
    BY TrackingBoundsAssumption DEF KnownById, TypeOK
  <1>. USE DEF trackers, tables, fixed, peers
  <1>a. echoes \in Nat
    BY TrackingBoundsAssumption DEF TypeOK
  <1>1. ASSUME NEW m \in Chats, SendChat(m) \/ SendReceipt(m) \/ SendError(m)
        PROVE  closed' = closed /\ echoes' = echoes /\ rewrites' = rewrites
    BY <1>1 DEF SendChat, SendReceipt, SendError
  <1>2. ASSUME NEW m \in Grouped, SendGrouped(m)
        PROVE  closed' = closed /\ echoes' = echoes /\ rewrites' = rewrites
    BY <1>2 DEF SendGrouped
  <1>3. ASSUME NEW m \in Messages, Close(m) \/ Acked(m) \/ Unsent(m)
        PROVE  closed \subseteq closed' /\ echoes' = echoes /\ rewrites' = rewrites
    BY <1>3 DEF Close, Acked, Unsent
  <1>4. ASSUME NEW m \in Messages, StanzaSent(m)
        PROVE  closed' = closed /\ echoes' = echoes /\ rewrites' = rewrites
    BY <1>4 DEF StanzaSent, SetState
  <1>5. ASSUME NEW m \in Messages, NEW arrives \in BOOLEAN, Transmit(m, arrives)
        PROVE  closed' = closed /\ echoes' = echoes /\ rewrites' = rewrites
    BY <1>5 DEF Transmit
  <1>6. ASSUME NEW counted \in BOOLEAN, SessionLost(counted)
        PROVE  closed' = closed /\ echoes' = echoes /\ rewrites' = rewrites
    BY <1>6 DEF SessionLost
  <1>7. ASSUME NEW b \in Bodies, Echo(b)
        PROVE  closed' = closed /\ echoes' = echoes + 1 /\ rewrites' = rewrites
    BY <1>7 DEF Echo
  <1>8. CASE Resumed \/ RoomTakes
    BY <1>8, <1>a DEF Resumed, RoomTakes
  <1>9. CASE Receive
    BY <1>9, <1>a, ReceiveSpares
  <1>10. CASE UNCHANGED vars
    BY <1>10, <1>a DEF vars
  <1>. QED
    BY <1>a, <1>1, <1>2, <1>3, <1>4, <1>5, <1>6, <1>7, <1>8, <1>9, <1>10 DEF Next

\* A tracker that is found while the ids suffice is that of the message reflected,
\* which was still listed.
LEMMA FoundById ==
    ASSUME TypeOK, FatesInv, ChannelsInv, OnceInv, ListedInv, KnownById, Receive, 
           NEW g \in Grouped, Reflects(1, g)
    PROVE  /\ g \in byId /\ g \in server /\ g \in delivered
           /\ \/ UNCHANGED <<trackers, tables, broker, dispatch>>
              \/ Match(g)
  <1>1. 1 \in DOMAIN inbound
    BY ReceiveIs
  <1>2. g \in Messages /\ g \in server /\ g \in delivered
    BY <1>1 DEF ChannelsInv, Reflects, Messages
  <1>3. token[g] # "none"
    BY <1>2 DEF FatesInv
  <1>4. g \in byId
    BY <1>1, <1>3 DEF ListedInv
  <1>5. \A h \in Grouped : Reflects(1, h) => h = g
    BY DEF Reflects
  <1>6. inbound[1].kind = "reflection"
    BY DEF Reflects
  <1>7. \/ UNCHANGED <<trackers, tables, broker, dispatch>>
        \/ \E t \in Grouped : Match(t) /\ (t = g \/ rewrites \/ g \notin byId)
    BY <1>5, <1>6, ReceiveIs
  <1>. QED
    BY <1>2, <1>4, <1>7 DEF KnownById

\* Where a message stands that is not listed any more.
Through(g) ==
    /\ g \in server
    /\ \A j \in DOMAIN room : room[j] # g
    /\ \A i \in DOMAIN inbound : ~Reflects(i, g)

LEMMA ListedStep ==
    TypeOK /\ FatesInv /\ ChannelsInv /\ OnceInv /\ ListedInv /\ [Next]_vars => ListedInv'
  <1>. SUFFICES ASSUME TypeOK, FatesInv, ChannelsInv, OnceInv, ListedInv, [Next]_vars, KnownById',
                       NEW g \in Grouped
                PROVE  token'[g] = "none" \/ g \in byId' \/ Through(g)'
    BY DEF ListedInv, Through
  <1>. USE DEF trackers, tables, fixed, peers
  <1>a. /\ Chats \subseteq Messages /\ Grouped \subseteq Messages /\ g \in Messages
        /\ inbound \in Seq(Known) /\ room \in Seq(Grouped)
    BY DEF Messages, TypeOK, Known
  <1>b. KnownById /\ (token[g] = "none" \/ g \in byId \/ Through(g))
    BY KnownByIdStays DEF ListedInv, Through
  <1>c. ASSUME NEW s \in Known, ~(s.kind = "reflection" /\ s.of = g), inbound' = Append(inbound, s),
               server \subseteq server', \A j \in DOMAIN room' : room'[j] # g, Through(g)
        PROVE  Through(g)'
    <2>1. \A i \in DOMAIN inbound' : ~Reflects(i, g)'
      BY <1>a, <1>c, AppendAt DEF Reflects, Through
    <2>. QED
      BY <1>a, <1>c, <2>1 DEF Through
  <1>1. ASSUME NEW m \in Chats, SendChat(m) PROVE token'[g] = "none" \/ g \in byId' \/ Through(g)'
    <2>1. m # g
      BY MessagesAssumption
    <2>. QED
      BY <1>1, <1>a, <1>b, <2>1 DEF SendChat, TypeOK, Through, Reflects
  <1>2. ASSUME NEW m \in Chats, SendReceipt(m) PROVE token'[g] = "none" \/ g \in byId' \/ Through(g)'
    <2>1. Through(g) => Through(g)'
      BY <1>2, <1>a, <1>c, StanzaType DEF SendReceipt, Through
    <2>. QED
      BY <1>2, <1>b, <2>1 DEF SendReceipt
  <1>3. ASSUME NEW m \in Chats, SendError(m) PROVE token'[g] = "none" \/ g \in byId' \/ Through(g)'
    <2>1. Through(g) => Through(g)'
      BY <1>3, <1>a, <1>c, StanzaType DEF SendError, Through
    <2>. QED
      BY <1>3, <1>b, <2>1 DEF SendError
  <1>4. ASSUME NEW m \in Grouped, SendGrouped(m) PROVE token'[g] = "none" \/ g \in byId' \/ Through(g)'
    <2>1. CASE m = g
      BY <1>4, <2>1 DEF SendGrouped
    <2>2. CASE m # g
      BY <1>4, <1>a, <1>b, <2>2 DEF SendGrouped, TypeOK, Through, Reflects
    <2>. QED
      BY <2>1, <2>2
  <1>5. ASSUME NEW m \in Messages, Close(m) PROVE token'[g] = "none" \/ g \in byId' \/ Through(g)'
    <2>1. m \notin Grouped
      BY <1>5 DEF Close, KnownById
    <2>2. byId' = byId
      BY <1>5, <2>1 DEF Close, TrackerClosed
    <2>. QED
      BY <1>5, <1>b, <2>2 DEF Close, Through, Reflects
  <1>6. ASSUME NEW m \in Messages, Acked(m) \/ Unsent(m) \/ StanzaSent(m)
        PROVE  token'[g] = "none" \/ g \in byId' \/ Through(g)'
    <2>1. token'[g] = "none" <=> token[g] = "none"
      BY <1>6, <1>a DEF Acked, Unsent, StanzaSent, TypeOK
    <2>2. Through(g) => Through(g)'
      BY <1>6 DEF Acked, Unsent, StanzaSent, Through, Reflects
    <2>. QED
      BY <1>6, <1>b, <2>1, <2>2 DEF Acked, Unsent, StanzaSent
  <1>7. ASSUME NEW m \in Messages, NEW arrives \in BOOLEAN, Transmit(m, arrives)
        PROVE  token'[g] = "none" \/ g \in byId' \/ Through(g)'
    <2>1. CASE m = g
      <3>1. token[g] = "active" /\ g \notin server
        BY <1>7, <2>1 DEF Transmit, IsNext, FatesInv
      <3>. QED
        BY <1>7, <1>b, <3>1 DEF Transmit, Through
    <2>2. CASE m # g
      <3>1. token'[g] = token[g] /\ byId' = byId /\ inbound' = inbound /\ server \subseteq server'
        BY <1>7, <1>a, <2>2 DEF Transmit, TypeOK
      <3>2. (\A j \in DOMAIN room : room[j] # g) => \A j \in DOMAIN room' : room'[j] # g
        BY <1>7, <1>a, <2>2, AppendAt DEF Transmit
      <3>3. Through(g) => Through(g)'
        BY <3>1, <3>2 DEF Through, Reflects
      <3>. QED
        BY <1>b, <3>1, <3>3
    <2>. QED
      BY <2>1, <2>2
  <1>8. ASSUME NEW counted \in BOOLEAN, SessionLost(counted)
        PROVE  token'[g] = "none" \/ g \in byId' \/ Through(g)'
    <2>1. token[g] = "none" => token'[g] = "none"
      BY <1>8, <1>a DEF SessionLost, TypeOK
    <2>2. Through(g) => Through(g)'
      BY <1>8 DEF SessionLost, Through
    <2>. QED
      BY <1>8, <1>b, <2>1, <2>2 DEF SessionLost
  <1>9. ASSUME NEW b \in Bodies, Echo(b) PROVE token'[g] = "none" \/ g \in byId' \/ Through(g)'
    <2>1. Through(g) => Through(g)'
      BY <1>9, <1>a, <1>c, StanzaType DEF Echo, Through
    <2>. QED
      BY <1>9, <1>b, <2>1 DEF Echo
  <1>10. CASE Resumed
    <2>1. token[g] = "none" => token'[g] = "none"
      BY <1>10, <1>a DEF Resumed, TypeOK
    <2>2. Through(g) => Through(g)'
      BY <1>10 DEF Resumed, Through, Reflects
    <2>. QED
      BY <1>10, <1>b, <2>1, <2>2 DEF Resumed
  <1>11. CASE RoomTakes
    <2>. DEFINE h == Head(room)
    <2>1. /\ h \in Grouped /\ h = room[1] /\ 1 \in DOMAIN room
          /\ \A j \in DOMAIN Tail(room) : j + 1 \in DOMAIN room /\ Tail(room)[j] = room[j + 1]
      BY <1>11, <1>a, TailAt DEF RoomTakes
    <2>2. /\ Stanza("reflection", h) \in Known /\ Stanza("reflection", h).of = h
          /\ Stanza("error", h) \in Known /\ Stanza("error", h).kind = "error"
      BY <1>a, <2>1, StanzaType
    <2>3. Through(g) => h # g /\ \A j \in DOMAIN room' : room'[j] # g
      BY <1>11, <2>1 DEF RoomTakes, Through
    <2>4. Through(g) => Through(g)'
      BY <1>11, <1>c, <2>2, <2>3 DEF RoomTakes
    <2>. QED
      BY <1>11, <1>b, <2>4 DEF RoomTakes
  <1>12. CASE Receive
    <2>1. /\ inbound # <<>> /\ inbound' = Tail(inbound) /\ 1 \in DOMAIN inbound
          /\ UNCHANGED <<token, room, server>>
      BY <1>12, ReceiveIs
    <2>2. \A i \in DOMAIN inbound' : i + 1 \in DOMAIN inbound /\ i + 1 # 1 /\ inbound'[i] = inbound[i + 1]
      BY <1>a, <2>1, TailAt
    <2>3. Through(g) => Through(g)'
      BY <2>1, <2>2 DEF Through, Reflects
    <2>4. ASSUME NEW h \in Grouped, Reflects(1, h) PROVE token'[g] = "none" \/ g \in byId' \/ Through(g)'
      <3>1. /\ h \in byId /\ h \in server
            /\ UNCHANGED <<trackers, tables, broker, dispatch>> \/ Match(h)
        BY <1>12, <1>b, <2>4, FoundById
      <3>2. byId \subseteq byId' \cup {h}
        BY <3>1, MatchIs
      <3>3. CASE g # h
        BY <1>b, <2>1, <2>3, <3>2, <3>3
      <3>4. CASE g = h
        <4>1. \A j \in DOMAIN room : room[j] # g
          BY <2>1, <2>4, <3>4 DEF OnceInv
        <4>2. \A i \in DOMAIN inbound' : ~Reflects(i, g)'
          BY <2>1, <2>2, <2>4, <3>4 DEF OnceInv, Reflects
        <4>. QED
          BY <2>1, <3>1, <3>4, <4>1, <4>2 DEF Through
      <3>. QED
        BY <3>3, <3>4
    <2>5. ASSUME NEW m \in Messages, HandleError(m) \/ HandleReceipt(m)
          PROVE  token'[g] = "none" \/ g \in byId' \/ Through(g)'
      BY <1>b, <2>1, <2>3, <2>5, HandlersIs
    <2>6. inbound[1].kind # "echo"
      BY <1>b, <2>1 DEF ChannelsInv, KnownById
    <2>. QED
      BY <1>12, <2>4, <2>5, <2>6, ReceiveIs
  <1>13. CASE UNCHANGED vars
    BY <1>13, <1>b DEF vars, Through, Reflects
  <1>. QED
    BY <1>1, <1>2, <1>3, <1>4, <1>5, <1>6, <1>7, <1>8, <1>9, <1>10, <1>11, <1>12, <1>13 DEF Next
LEMMA DeliveredStep ==
    TypeOK /\ FatesInv /\ ChannelsInv /\ OnceInv /\ ListedInv /\ DeliveredIsTrue /\ [Next]_vars
        => DeliveredIsTrue'
  <1>. SUFFICES ASSUME TypeOK, FatesInv, ChannelsInv, OnceInv, ListedInv, DeliveredIsTrue, [Next]_vars,
                       NEW m \in Messages, state'[m] = "recipient", m \in Chats \/ KnownById'
                PROVE  m \in delivered'
    BY DEF DeliveredIsTrue
  <1>. USE DEF trackers, tables, fixed, peers
  <1>a. KnownById' => KnownById
    BY KnownByIdStays
  <1>b. state[m] = "recipient" => m \in delivered
    BY <1>a DEF DeliveredIsTrue
  <1>1. ASSUME NEW c \in Chats, SendChat(c) \/ SendReceipt(c) \/ SendError(c) PROVE m \in delivered'
    BY <1>1, <1>b DEF SendChat, SendReceipt, SendError
  <1>2. ASSUME NEW g \in Grouped, SendGrouped(g) PROVE m \in delivered'
    BY <1>2, <1>b DEF SendGrouped
  <1>3. ASSUME NEW n \in Messages, Close(n) \/ Acked(n) \/ Unsent(n) PROVE m \in delivered'
    BY <1>3, <1>b DEF Close, Acked, Unsent
  <1>4. ASSUME NEW n \in Messages, StanzaSent(n) PROVE m \in delivered'
    <2>1. CASE UNCHANGED trackers
      BY <1>4, <1>b, <2>1 DEF StanzaSent
    <2>2. ASSUME NEW new \in {"server", "aborted"}, SetState(n, new) PROVE m \in delivered'
      BY <1>4, <1>b, <2>2, SetStateIs DEF StanzaSent
    <2>. QED
      BY <1>4, <2>1, <2>2 DEF StanzaSent
  <1>5. ASSUME NEW n \in Messages, NEW arrives \in BOOLEAN, Transmit(n, arrives) PROVE m \in delivered'
    BY <1>5, <1>b DEF Transmit
  <1>6. ASSUME NEW counted \in BOOLEAN, SessionLost(counted) PROVE m \in delivered'
    BY <1>6, <1>b DEF SessionLost
  <1>7. CASE Resumed \/ RoomTakes \/ \E b \in Bodies : Echo(b)
    BY <1>7, <1>b DEF Resumed, RoomTakes, Echo
  <1>8. CASE Receive
    <2>1. delivered' = delivered /\ 1 \in DOMAIN inbound
      BY <1>8, ReceiveIs
    <2>2. CASE UNCHANGED trackers
      BY <1>b, <2>1, <2>2
    <2>3. ASSUME NEW t \in Grouped, Match(t), t = m => m \in delivered PROVE m \in delivered'
      BY <1>b, <2>1, <2>3, MatchIs
    <2>4. ASSUME NEW t \in Grouped, Match(t), m \in Chats PROVE m \in delivered'
      BY <2>3, <2>4, MessagesAssumption
    <2>5. ASSUME NEW n \in Messages, HandleError(n) PROVE m \in delivered'
      BY <1>b, <2>1, <2>5, ErrorIs
    <2>6. ASSUME NEW n \in Messages, inbound[1].kind = "receipt", inbound[1].of = n, HandleReceipt(n)
          PROVE  m \in delivered'
      <3>1. n \in delivered
        BY <2>1, <2>6 DEF ChannelsInv
      <3>. QED
        BY <1>b, <2>1, <2>6, <3>1, HandlersIs
    <2>7. ASSUME NEW g \in Grouped, Reflects(1, g), KnownById PROVE m \in delivered'
      BY <1>8, <2>2, <2>3, <2>7, FoundById
    <2>8. CASE inbound[1].kind = "echo" /\ KnownById
      BY <2>1, <2>8 DEF ChannelsInv, KnownById
    <2>. QED
      BY <1>8, <1>a, <2>2, <2>4, <2>5, <2>6, <2>7, <2>8, ReceiveIs
  <1>9. CASE UNCHANGED vars
    BY <1>9, <1>b DEF vars
  <1>. QED
    BY <1>1, <1>2, <1>3, <1>4, <1>5, <1>6, <1>7, <1>8, <1>9 DEF Next

-----------------------------------------------------------------------------
(* The room's tables *)

\* Positions in a sequence after Append and Tail.
LEMMA AppendPlaces ==
    ASSUME NEW S, NEW s \in Seq(S), NEW e \in S
    PROVE  /\ Len(s) + 1 \in DOMAIN Append(s, e) /\ Append(s, e)[Len(s) + 1] = e
           /\ \A i \in DOMAIN s : /\ i \in Nat /\ i < Len(s) + 1
                                  /\ i \in DOMAIN Append(s, e) /\ Append(s, e)[i] = s[i]
           /\ Len(s) \in Nat /\ Len(Append(s, e)) = Len(s) + 1
  OBVIOUS

LEMMA TailPlaces ==
    ASSUME NEW S, NEW s \in Seq(S), s # <<>>
    PROVE  /\ \A i \in DOMAIN s : /\ i \in Nat /\ i >= 1
                                  /\ i # 1 => i - 1 \in DOMAIN Tail(s) /\ Tail(s)[i - 1] = s[i]
           /\ \A i \in DOMAIN Tail(s) : i \in Nat /\ i + 1 \in DOMAIN s /\ Tail(s)[i] = s[i + 1]
           /\ Len(s) \in Nat /\ Len(s) >= 1 /\ Len(Tail(s)) = Len(s) - 1
  OBVIOUS

\* Which steps concern the tables, and what no step takes back.
LEMMA StepIs ==
    ASSUME TypeOK, [Next]_vars
    PROVE  /\ closed \subseteq closed' /\ rewrites' = rewrites
           /\ \A m \in Messages : token[m] # "none" => token'[m] # "none"
           /\ \/ \E m \in Grouped : SendGrouped(m) \/ Close(m)
              \/ Receive
              \/ UNCHANGED <<byId, byBody, meta, dispatch>>
  <1>. USE DEF trackers, tables, fixed, peers
  <1>1. ASSUME NEW m \in Chats, SendChat(m) \/ SendReceipt(m) \/ SendError(m)
        PROVE  /\ closed' = closed /\ rewrites' = rewrites
               /\ \A n \in Messages : token[n] # "none" => token'[n] # "none"
               /\ UNCHANGED <<byId, byBody, meta, dispatch>>
    BY <1>1 DEF SendChat, SendReceipt, SendError, TypeOK
  <1>2. ASSUME NEW m \in Grouped, SendGrouped(m)
        PROVE  /\ closed' = closed /\ rewrites' = rewrites
               /\ \A n \in Messages : token[n] # "none" => token'[n] # "none"
    BY <1>2 DEF SendGrouped, TypeOK
  <1>3. ASSUME NEW m \in Messages, Close(m)
        PROVE  /\ closed \subseteq closed' /\ rewrites' = rewrites /\ token' = token
               /\ m \in Grouped \/ UNCHANGED <<byId, byBody, meta, dispatch>>
    BY <1>3 DEF Close, TrackerClosed
  <1>4. ASSUME NEW m \in Messages, Acked(m) \/ Unsent(m) \/ \E arrives \in BOOLEAN : Transmit(m, arrives)
        PROVE  /\ closed' = closed /\ rewrites' = rewrites
               /\ \A n \in Messages : token[n] # "none" => token'[n] # "none"
               /\ UNCHANGED <<byId, byBody, meta, dispatch>>
    BY <1>4 DEF Acked, Unsent, Transmit, TypeOK
  <1>5. ASSUME NEW m \in Messages, StanzaSent(m)
        PROVE  /\ closed' = closed /\ rewrites' = rewrites
               /\ \A n \in Messages : token[n] # "none" => token'[n] # "none"
               /\ UNCHANGED <<byId, byBody, meta, dispatch>>
    BY <1>5 DEF StanzaSent, SetState, TypeOK
  <1>6. CASE (\E counted \in BOOLEAN : SessionLost(counted)) \/ Resumed
    BY <1>6 DEF SessionLost, Resumed, TypeOK
  <1>7. CASE RoomTakes \/ (\E b \in Bodies : Echo(b)) \/ UNCHANGED vars
    BY <1>7 DEF RoomTakes, Echo, vars
  <1>8. CASE Receive
    BY <1>8, ReceiveSpares
  <1>. QED
    BY <1>1, <1>2, <1>3, <1>4, <1>5, <1>6, <1>7, <1>8 DEF Next

\* Which tracker a received message finds: the one with its id, or the first of
\* those with its body.
ById(g) == g \in Grouped /\ Reflects(1, g) /\ ~rewrites /\ g \in byId /\ Match(g)

ByBody(b) ==
    /\ b \in Bodies /\ byBody[b] # <<>> /\ Match(Head(byBody[b]))
    /\ inbound[1].kind = "echo" \/ \E g \in Grouped : Reflects(1, g)

Unlisted == \A g \in Grouped : Reflects(1, g) /\ ~rewrites => g \notin byId

LEMMA GroupchatFinds ==
    ASSUME TypeOK, NEW ids \in SUBSET Grouped, NEW b \in Bodies, Groupchat(ids, b), dispatch
    PROVE  \/ ids \cap byId # {} /\ \E t \in ids : Match(t)
           \/ ids \cap byId = {} /\ byBody[b] # <<>> /\ Match(Head(byBody[b]))
           \/ ids \cap byId = {} /\ UNCHANGED <<byId, byBody, meta, dispatch>>
  <1>1. CASE ids \cap byId # {} /\ \E t \in ids : Match(t)
    BY <1>1
  <1>2. CASE ids \cap byId = {} /\ byBody[b] # <<>> /\ Match(Head(byBody[b]))
    BY <1>2
  <1>3. CASE ids \cap byId = {} /\ UNCHANGED <<trackers, tables, broker, dispatch>>
    BY <1>3 DEF tables
  <1>. QED
    BY <1>1, <1>2, <1>3 DEF Groupchat, MatchTracker

LEMMA ReceiveFinds ==
    ASSUME TypeOK, Receive
    PROVE  \/ \E g \in Grouped : ById(g)
           \/ Unlisted /\ \E b \in Bodies : ByBody(b)
           \/ (dispatch => Unlisted) /\ UNCHANGED <<byId, byBody, meta, dispatch>>
  <1>. DEFINE s == Head(inbound)
  <1>1. inbound \in Seq(Known) /\ inbound # <<>>
    BY DEF Receive, TypeOK, Known
  <1>2. s \in Known /\ s = inbound[1] /\ 1 \in DOMAIN inbound
    BY <1>1, TailAt
  <1>3. CASE s.kind \in {"error", "receipt"} /\ s.of \in Messages
    <2>1. HandleError(s.of) \/ HandleReceipt(s.of)
      BY <1>3 DEF Receive
    <2>2. UNCHANGED <<byId, byBody, meta, dispatch>>
      BY <1>3, <2>1, HandlersIs
    <2>. QED
      BY <1>2, <1>3, <2>2 DEF Unlisted, Reflects
  <1>4. CASE s.kind = "reflection" /\ s.of \in Grouped
    <2>. DEFINE ids == IF rewrites THEN {} ELSE {s.of}
    <2>1. ids \in SUBSET Grouped /\ Body[s.of] \in Bodies
      BY <1>4, BodyType
    <2>2. Groupchat(ids, Body[s.of])
      BY <1>4 DEF Receive
    <2>3. Reflects(1, s.of) /\ \A g \in Grouped : Reflects(1, g) => g = s.of
      BY <1>2, <1>4 DEF Reflects
    <2>4. ids \cap byId = {} => Unlisted
      BY <2>3 DEF Unlisted
    <2>5. CASE ~dispatch
      BY <2>2, <2>5 DEF Groupchat, tables
    <2>6. ASSUME NEW t \in ids, Match(t), ids \cap byId # {} PROVE ById(t)
      BY <1>4, <2>3, <2>6 DEF ById
    <2>7. CASE ids \cap byId = {} /\ byBody[Body[s.of]] # <<>> /\ Match(Head(byBody[Body[s.of]]))
      BY <1>4, <2>1, <2>3, <2>4, <2>7 DEF ByBody
    <2>8. CASE ids \cap byId = {} /\ UNCHANGED <<byId, byBody, meta, dispatch>>
      BY <2>4, <2>8
    <2>9. CASE dispatch
      <3>. HIDE DEF ids
      <3>. QED
        BY <2>1, <2>2, <2>6, <2>7, <2>8, <2>9, GroupchatFinds
    <2>. QED
      BY <2>5, <2>9
  <1>5. CASE s.kind = "echo" /\ s.of \in Bodies
    <2>1. Groupchat({}, s.of)
      BY <1>5 DEF Receive
    <2>2. Unlisted
      BY <1>2, <1>5 DEF Unlisted, Reflects
    <2>3. CASE ~dispatch
      BY <2>1, <2>2, <2>3 DEF Groupchat, tables
    <2>4. CASE dispatch
      BY <1>2, <1>5, <2>1, <2>2, <2>4, GroupchatFinds DEF ByBody
    <2>. QED
      BY <2>3, <2>4
  <1>. QED
    BY <1>2, <1>3, <1>4, <1>5, StanzaType

\* Matching an open tracker that all tables list does what it should.
LEMMA MatchListed ==
    ASSUME TypeOK, NEW t \in Grouped, Match(t), t \in meta, t \in byId, t \notin closed,
           byBody[Body[t]] # <<>>
    PROVE  /\ dispatch' = dispatch /\ byId' = byId \ {t} /\ meta' = meta \ {t}
           /\ byBody' = [byBody EXCEPT ![Body[t]] = Tail(@)]
  BY DEF Match, TypeOK

\* What is found is listed, and was sent.
LEMMA FoundIsSent ==
    ASSUME TypeOK, TablesInv, NEW t \in Grouped, ById(t) \/ \E b \in Bodies : ByBody(b) /\ t = Head(byBody[b])
    PROVE  token[t] # "none"
  <1>1. CASE ById(t)
    BY <1>1 DEF ById, TablesInv
  <1>2. ASSUME NEW b \in Bodies, ByBody(b), t = Head(byBody[b]) PROVE token[t] # "none"
    <2>1. byBody[b] \in Seq(Grouped) /\ byBody[b] # <<>>
      BY <1>2 DEF TypeOK, ByBody
    <2>2. 1 \in DOMAIN byBody[b] /\ t = byBody[b][1]
      BY <1>2, <2>1, TailAt
    <2>. QED
      BY <2>2 DEF TablesInv
  <1>. QED
    BY <1>1, <1>2

LEMMA ReceiveMatches ==
    ASSUME TypeOK, TablesInv, Receive
    PROVE  \/ \E t \in Grouped : Match(t) /\ token[t] # "none"
           \/ UNCHANGED <<byId, byBody, meta, dispatch>>
  <1>1. ASSUME NEW g \in Grouped, ById(g) PROVE Match(g) /\ token[g] # "none"
    BY <1>1, FoundIsSent DEF ById
  <1>2. ASSUME NEW b \in Bodies, ByBody(b)
        PROVE  Head(byBody[b]) \in Grouped /\ Match(Head(byBody[b])) /\ token[Head(byBody[b])] # "none"
    <2>1. Head(byBody[b]) \in Grouped
      BY <1>2, TailAt DEF TypeOK, ByBody
    <2>. QED
      BY <1>2, <2>1, FoundIsSent DEF ByBody
  <1>. QED
    BY <1>1, <1>2, ReceiveFinds

LEMMA MatchShortens ==
    ASSUME TypeOK, NEW t \in Grouped, Match(t), NEW b \in Bodies, NEW i \in DOMAIN byBody'[b]
    PROVE  \E j \in DOMAIN byBody[b] : byBody'[b][i] = byBody[b][j]
  <1>1. byBody[b] \in Seq(Grouped)
    BY DEF TypeOK
  <1>2. CASE byBody' = byBody
    BY <1>2
  <1>3. CASE byBody' = [byBody EXCEPT ![Body[t]] = Tail(@)] /\ byBody[Body[t]] # <<>>
    <2>1. CASE b = Body[t]
      <3>1. byBody'[b] = Tail(byBody[b]) /\ byBody[b] # <<>>
        BY <1>3, <2>1 DEF TypeOK
      <3>. QED
        BY <1>1, <3>1, TailAt
    <2>2. CASE b # Body[t]
      BY <1>3, <2>2 DEF TypeOK
    <2>. QED
      BY <2>1, <2>2
  <1>. QED
    BY <1>2, <1>3 DEF Match

LEMMA TablesStep == TypeOK /\ FatesInv /\ TablesInv /\ [Next]_vars => TablesInv'
  <1>. SUFFICES ASSUME TypeOK, FatesInv, TablesInv, [Next]_vars PROVE TablesInv'
    OBVIOUS
  <1>0. Grouped \subseteq Messages
    BY DEF Messages
  <1>a. /\ closed \subseteq closed'
        /\ \A m \in Messages : token[m] # "none" => token'[m] # "none"
    BY StepIs
  <1>b. NoneClosed' => NoneClosed
    BY <1>a DEF NoneClosed
  <1>c. \A b \in Bodies : \A i \in DOMAIN byBody[b] : byBody[b][i] \in Grouped
    BY DEF TypeOK
  <1>1. ASSUME NEW m \in Grouped, SendGrouped(m) PROVE TablesInv'
    <2>1. m \in Messages /\ Body[m] \in Bodies
      BY BodyType
    <2>2. /\ byId' = byId \cup {m} /\ meta' = meta \cup {m} /\ dispatch' = dispatch
          /\ byBody' = [byBody EXCEPT ![Body[m]] = Append(@, m)] /\ token'[m] # "none"
      BY <1>1, <2>1 DEF SendGrouped, TypeOK
    <2>3. IsFiniteSet(byId')
      BY <2>2, FS_AddElement DEF TablesInv
    <2>4. ASSUME NEW b \in Bodies, NEW i \in DOMAIN byBody'[b]
          PROVE  token'[byBody'[b][i]] # "none" /\ Body[byBody'[b][i]] = b
      <3>1. CASE b = Body[m]
        <4>1. byBody'[b] = Append(byBody[b], m) /\ byBody[b] \in Seq(Grouped)
          BY <2>2, <3>1 DEF TypeOK
        <4>2. byBody'[b][i] = m \/ (i \in DOMAIN byBody[b] /\ byBody'[b][i] = byBody[b][i])
          BY <4>1, AppendAt
        <4>. QED
          BY <1>0, <1>a, <1>c, <2>2, <3>1, <4>2 DEF TablesInv
      <3>2. CASE b # Body[m]
        <4>1. byBody'[b] = byBody[b]
          BY <2>2, <3>2 DEF TypeOK
        <4>. QED
          BY <1>0, <1>a, <1>c, <4>1 DEF TablesInv
      <3>. QED
        BY <3>1, <3>2
    <2>5. \A g \in byId' : token'[g] # "none"
      BY <1>0, <1>a, <2>2 DEF TablesInv, TypeOK
    <2>6. NoneClosed' => byId' = meta'
      BY <1>b, <2>2 DEF TablesInv
    <2>7. \E g \in Grouped : token'[g] # "none"
      BY <2>2
    <2>. QED
      BY <2>3, <2>4, <2>5, <2>6, <2>7 DEF TablesInv
  <1>2. ASSUME NEW m \in Grouped, Close(m) PROVE TablesInv'
    <2>1. token' = token /\ dispatch' = dispatch /\ ~NoneClosed'
      BY <1>2 DEF Close, NoneClosed
    <2>2. /\ byId' = byId \/ byId' = byId \ {m}
          /\ byBody' = byBody \/ byBody' = [byBody EXCEPT ![Body[m]] = <<>>]
      BY <1>2 DEF Close, TrackerClosed, RoomTrackerClosed
    <2>3. IsFiniteSet(byId')
      BY <2>2, FS_RemoveElement DEF TablesInv
    <2>4. \A b \in Bodies : byBody'[b] = byBody[b] \/ byBody'[b] = <<>>
      BY <2>2 DEF TypeOK
    <2>. QED
      BY <2>1, <2>2, <2>3, <2>4, EmptyAt DEF TablesInv
  <1>3. CASE UNCHANGED <<byId, byBody, meta, dispatch>>
    BY <1>0, <1>a, <1>b, <1>c, <1>3 DEF TablesInv, TypeOK
  <1>4. CASE Receive
    <2>1. token' = token
      BY <1>4, ReceiveIs
    <2>2. ASSUME NEW t \in Grouped, Match(t), token[t] # "none" PROVE TablesInv'
      <3>1. byId' = byId \/ byId' = byId \ {t}
        BY <2>2 DEF Match
      <3>2. IsFiniteSet(byId')
        BY <3>1, FS_RemoveElement DEF TablesInv
      <3>3. NoneClosed' => byId' = meta'
        BY <1>b, <2>2 DEF TablesInv, Match
      <3>4. \A b \in Bodies : \A i \in DOMAIN byBody'[b] :
               token'[byBody'[b][i]] # "none" /\ Body[byBody'[b][i]] = b
        BY <2>1, <2>2, MatchShortens DEF TablesInv
      <3>. QED
        BY <2>1, <2>2, <3>1, <3>2, <3>3, <3>4 DEF TablesInv
    <2>. QED
      BY <1>3, <1>4, <2>2, ReceiveMatches
  <1>. QED
    BY <1>1, <1>2, <1>3, <1>4, StepIs

LEMMA AnsweredStep == TypeOK /\ FatesInv /\ ChannelsInv /\ OnceInv /\ AnsweredInv /\ [Next]_vars => AnsweredInv'
  <1>. SUFFICES ASSUME TypeOK, FatesInv, ChannelsInv, OnceInv, AnsweredInv, [Next]_vars PROVE AnsweredInv'
    OBVIOUS
  <1>. USE DEF trackers, tables, fixed, peers
  <1>a. room \in Seq(Grouped) /\ Grouped \cap Chats = {}
    BY MessagesAssumption DEF TypeOK
  <1>b. ASSUME UNCHANGED <<server, room, delivered, errors>> PROVE AnsweredInv'
    BY <1>b DEF AnsweredInv
  <1>1. ASSUME NEW m \in Chats, SendChat(m) \/ SendReceipt(m) \/ SendError(m) PROVE AnsweredInv'
    BY <1>1, <1>a DEF SendChat, SendReceipt, SendError, AnsweredInv
  <1>2. ASSUME NEW m \in Grouped, SendGrouped(m) PROVE AnsweredInv'
    BY <1>2, <1>b DEF SendGrouped
  <1>3. ASSUME NEW m \in Messages, Close(m) \/ Acked(m) \/ Unsent(m) \/ StanzaSent(m) PROVE AnsweredInv'
    BY <1>3, <1>b DEF Close, Acked, Unsent, StanzaSent
  <1>4. ASSUME NEW m \in Messages, NEW arrives \in BOOLEAN, Transmit(m, arrives) PROVE AnsweredInv'
    <2>1. m \notin server
      BY <1>4 DEF Transmit, IsNext, FatesInv
    <2>2. \A j \in DOMAIN room' : room'[j] \notin errors \cup delivered
      <3>1. CASE room' = room
        BY <3>1 DEF AnsweredInv
      <3>2. CASE m \in Grouped /\ room' = Append(room, m)
        BY <1>a, <2>1, <3>2, AppendAt DEF AnsweredInv
      <3>. QED
        BY <1>4, <3>1, <3>2 DEF Transmit
    <2>. QED
      BY <1>4, <2>2 DEF Transmit, AnsweredInv
  <1>5. CASE (\E counted \in BOOLEAN : SessionLost(counted)) \/ Resumed
    BY <1>5 DEF SessionLost, Resumed, AnsweredInv
  <1>6. CASE \E b \in Bodies : Echo(b)
    BY <1>6, <1>b DEF Echo
  <1>7. CASE RoomTakes
    <2>. DEFINE h == Head(room)
    <2>1. /\ room' = Tail(room) /\ h \in Grouped /\ h = room[1] /\ 1 \in DOMAIN room
          /\ \A j \in DOMAIN room' : j + 1 \in DOMAIN room /\ j + 1 # 1 /\ room'[j] = room[j + 1]
      BY <1>7, <1>a, TailAt DEF RoomTakes
    <2>2. \/ delivered' = delivered \cup {h} /\ errors' = errors
          \/ errors' = errors \cup {h} /\ delivered' = delivered
      BY <1>7 DEF RoomTakes
    <2>3. server' = server
      BY <1>7 DEF RoomTakes
    <2>. HIDE DEF h
    <2>4. \A j \in DOMAIN room' : room'[j] # h
      BY <2>1 DEF OnceInv
    <2>5. h \in server /\ h \notin errors \cup delivered
      BY <2>1 DEF ChannelsInv, AnsweredInv
    <2>. QED
      BY <2>1, <2>2, <2>3, <2>4, <2>5 DEF AnsweredInv
  <1>8. CASE Receive
    BY <1>8, <1>b, ReceiveIs
  <1>9. CASE UNCHANGED vars
    BY <1>9, <1>b DEF vars
  <1>. QED
    BY <1>1, <1>2, <1>3, <1>4, <1>5, <1>6, <1>7, <1>8, <1>9 DEF Next

\* The tables stay exact when a message is sent and when the first of a list is
\* matched.
LEMMA ExactlyAppend ==
    ASSUME NEW l \in Seq(Grouped), NEW b, NEW ids, Exactly(l, b, ids), NEW m \in Grouped,
           \A i \in DOMAIN l : l[i] # m
    PROVE  Exactly(Append(l, m), b, ids \cup {m})
  <1>. DEFINE k == Append(l, m)
  <1>1. /\ \A i \in DOMAIN k : (i \in DOMAIN l /\ k[i] = l[i]) \/ (i = Len(l) + 1 /\ k[i] = m)
        /\ \A i \in DOMAIN l : i \in DOMAIN k /\ k[i] = l[i]
        /\ Len(l) + 1 \in DOMAIN k /\ k[Len(l) + 1] = m
    BY AppendAt, AppendPlaces
  <1>. HIDE DEF k
  <1>2. Exactly(k, b, ids \cup {m})
    BY <1>1 DEF Exactly
  <1>. QED
    BY <1>2 DEF k

LEMMA ExactlyTail ==
    ASSUME NEW l \in Seq(Grouped), l # <<>>, NEW b, NEW ids, Exactly(l, b, ids)
    PROVE  Exactly(Tail(l), b, ids \ {l[1]})
  <1>. DEFINE k == Tail(l)
  <1>1. /\ \A i \in DOMAIN l : i # 1 => i - 1 \in DOMAIN k /\ k[i - 1] = l[i]
        /\ \A i \in DOMAIN k : i + 1 \in DOMAIN l /\ i + 1 # 1 /\ k[i] = l[i + 1]
        /\ \A i, j \in DOMAIN k : i + 1 = j + 1 => i = j
        /\ 1 \in DOMAIN l
    BY TailPlaces, TailAt
  <1>. HIDE DEF k
  <1>2. ASSUME NEW g \in ids \ {l[1]}, Body[g] = b PROVE \E i \in DOMAIN k : k[i] = g
    <2>1. PICK i \in DOMAIN l : l[i] = g
      BY <1>2 DEF Exactly
    <2>. QED
      BY <1>1, <2>1
  <1>3. \A i, j \in DOMAIN k : k[i] = k[j] => i = j
    BY <1>1 DEF Exactly
  <1>4. \A i \in DOMAIN k : k[i] \in ids \ {l[1]}
    BY <1>1 DEF Exactly
  <1>5. Exactly(k, b, ids \ {l[1]})
    BY <1>2, <1>3, <1>4 DEF Exactly
  <1>. QED
    BY <1>5 DEF k

LEMMA ExactSend ==
    ASSUME TypeOK, TablesInv, ExactTables, NEW m \in Grouped, SendGrouped(m)
    PROVE  ExactTables'
  <1>1. m \in Messages /\ Body[m] \in Bodies
    BY BodyType
  <1>2. /\ byId' = byId \cup {m} /\ byBody' = [byBody EXCEPT ![Body[m]] = Append(@, m)]
        /\ token[m] = "none"
    BY DEF SendGrouped
  <1>3. ASSUME NEW b \in Bodies PROVE Exactly(byBody'[b], b, byId')
    <2>1. byBody[b] \in Seq(Grouped) /\ Exactly(byBody[b], b, byId)
      BY DEF TypeOK, ExactTables
    <2>2. CASE b # Body[m]
      <3>1. byBody'[b] = byBody[b]
        BY <1>2, <2>2 DEF TypeOK
      <3>. QED
        BY <1>2, <2>1, <2>2, <3>1 DEF Exactly
    <2>3. CASE b = Body[m]
      <3>1. byBody'[b] = Append(byBody[b], m)
        BY <1>2, <2>3 DEF TypeOK
      <3>2. \A i \in DOMAIN byBody[b] : byBody[b][i] # m
        BY <1>2 DEF TablesInv
      <3>. QED
        BY <1>2, <2>1, <3>1, <3>2, ExactlyAppend
    <2>. QED
      BY <2>2, <2>3
  <1>. QED
    BY <1>3 DEF ExactTables

LEMMA ExactMatch ==
    ASSUME TypeOK, TablesInv, ExactTables, NEW t \in Grouped, t \in byId, byId' = byId \ {t},
           byBody[Body[t]] # <<>>, byBody[Body[t]][1] = t,
           byBody' = [byBody EXCEPT ![Body[t]] = Tail(@)]
    PROVE  ExactTables'
  <1>1. ASSUME NEW b \in Bodies PROVE Exactly(byBody'[b], b, byId')
    <2>1. byBody[b] \in Seq(Grouped) /\ Exactly(byBody[b], b, byId)
      BY DEF TypeOK, ExactTables
    <2>2. CASE b # Body[t]
      <3>1. byBody'[b] = byBody[b]
        BY <2>2 DEF TypeOK
      <3>2. \A i \in DOMAIN byBody[b] : byBody[b][i] # t
        BY <2>2 DEF TablesInv
      <3>. QED
        BY <2>1, <2>2, <3>1, <3>2 DEF Exactly
    <2>3. CASE b = Body[t]
      <3>1. byBody'[b] = Tail(byBody[b])
        BY <2>3 DEF TypeOK
      <3>. QED
        BY <2>1, <2>3, <3>1, ExactlyTail
    <2>. QED
      BY <2>2, <2>3
  <1>. QED
    BY <1>1 DEF ExactTables

\* The first of a list is matched without fail, if the tables are exact.
LEMMA MatchesFirst ==
    ASSUME TypeOK, TablesInv, ExactTables, NoneClosed, NEW t \in Grouped, Match(t),
           byBody[Body[t]] # <<>>, byBody[Body[t]][1] = t
    PROVE  /\ dispatch' = dispatch /\ byId' = byId \ {t} /\ t \in byId
           /\ byBody' = [byBody EXCEPT ![Body[t]] = Tail(@)] /\ ExactTables'
  <1>1. Body[t] \in Bodies /\ byBody[Body[t]] \in Seq(Grouped)
    BY BodyType DEF TypeOK
  <1>2. 1 \in DOMAIN byBody[Body[t]]
    BY <1>1, TailAt
  <1>3. t \in byId /\ t \in meta /\ t \notin closed
    BY <1>1, <1>2 DEF ExactTables, Exactly, TablesInv, NoneClosed
  <1>4. /\ dispatch' = dispatch /\ byId' = byId \ {t}
        /\ byBody' = [byBody EXCEPT ![Body[t]] = Tail(@)]
    BY <1>3, MatchListed
  <1>. QED
    BY <1>3, <1>4, ExactMatch

LEMMA FirstOfBody ==
    ASSUME TypeOK, TablesInv, NEW b, ByBody(b)
    PROVE  LET t == Head(byBody[b]) IN
           t \in Grouped /\ Match(t) /\ Body[t] = b /\ byBody[b] # <<>> /\ byBody[b][1] = t
  <1>1. b \in Bodies /\ byBody[b] \in Seq(Grouped) /\ byBody[b] # <<>> /\ Match(Head(byBody[b]))
    BY DEF TypeOK, ByBody
  <1>2. Head(byBody[b]) \in Grouped /\ Head(byBody[b]) = byBody[b][1] /\ 1 \in DOMAIN byBody[b]
    BY <1>1, TailAt
  <1>. QED
    BY <1>1, <1>2 DEF TablesInv

LEMMA BodiesStep == TypeOK /\ TablesInv /\ BodiesInv /\ [Next]_vars => BodiesInv'
  <1>. SUFFICES ASSUME TypeOK, TablesInv, BodiesInv, [Next]_vars, NoneClosed', rewrites'
                PROVE  dispatch' /\ ExactTables'
    BY DEF BodiesInv
  <1>a. NoneClosed /\ rewrites /\ dispatch /\ ExactTables
    BY StepIs DEF NoneClosed, BodiesInv
  <1>1. ASSUME NEW m \in Grouped, SendGrouped(m) PROVE dispatch' /\ ExactTables'
    BY <1>a, <1>1, ExactSend DEF SendGrouped
  <1>2. ASSUME NEW m \in Grouped, Close(m) PROVE FALSE
    BY <1>2 DEF Close, NoneClosed
  <1>3. CASE UNCHANGED <<byId, byBody, meta, dispatch>>
    BY <1>a, <1>3 DEF ExactTables
  <1>4. CASE Receive
    <2>1. ASSUME NEW b, ByBody(b) PROVE dispatch' /\ ExactTables'
      BY <1>a, <2>1, FirstOfBody, MatchesFirst
    <2>. QED
      BY <1>a, <1>3, <1>4, <2>1, ReceiveFinds DEF ById
  <1>. QED
    BY <1>1, <1>2, <1>3, <1>4, StepIs

LEMMA CountsStep ==
    /\ TypeOK /\ FatesInv /\ ChannelsInv /\ OnceInv /\ ListedInv /\ TablesInv /\ CountsInv /\ [Next]_vars
    => CountsInv'
  <1>. SUFFICES ASSUME TypeOK, FatesInv, ChannelsInv, OnceInv, ListedInv, TablesInv, CountsInv,
                       [Next]_vars, KnownById'
                PROVE  dispatch' /\ \A b \in Bodies : Cardinality(ListedAs(b)') = Len(byBody'[b])
    BY DEF CountsInv
  <1>a. /\ KnownById /\ dispatch /\ NoneClosed /\ NoneClosed'
        /\ \A b \in Bodies : Cardinality(ListedAs(b)) = Len(byBody[b])
    BY KnownByIdStays DEF CountsInv, KnownById, NoneClosed
  <1>b. \A b \in Bodies : IsFiniteSet(ListedAs(b))
    BY FS_Subset DEF TablesInv, ListedAs
  <1>1. ASSUME NEW m \in Grouped, SendGrouped(m)
        PROVE  dispatch' /\ \A b \in Bodies : Cardinality(ListedAs(b)') = Len(byBody'[b])
    <2>1. m \in Messages /\ Body[m] \in Bodies
      BY BodyType
    <2>2. /\ byId' = byId \cup {m} /\ dispatch' = dispatch /\ m \notin byId
          /\ byBody' = [byBody EXCEPT ![Body[m]] = Append(@, m)]
      BY <1>1 DEF SendGrouped, TablesInv
    <2>3. ASSUME NEW b \in Bodies PROVE Cardinality(ListedAs(b)') = Len(byBody'[b])
      <3>1. CASE b # Body[m]
        <4>1. ListedAs(b)' = ListedAs(b) /\ byBody'[b] = byBody[b]
          BY <2>2, <3>1 DEF ListedAs, TypeOK
        <4>. QED
          BY <1>a, <4>1
      <3>2. CASE b = Body[m]
        <4>1. ListedAs(b)' = ListedAs(b) \cup {m} /\ m \notin ListedAs(b)
          BY <2>2, <3>2 DEF ListedAs
        <4>2. byBody[b] \in Seq(Grouped) /\ byBody'[b] = Append(byBody[b], m)
          BY <2>2, <3>2 DEF TypeOK
        <4>3. Len(byBody'[b]) = Len(byBody[b]) + 1
          BY <4>2, AppendPlaces
        <4>4. Cardinality(ListedAs(b)') = Cardinality(ListedAs(b)) + 1
          BY <1>b, <4>1, FS_AddElement
        <4>. QED
          BY <1>a, <4>3, <4>4
      <3>. QED
        BY <3>1, <3>2
    <2>. QED
      BY <1>a, <2>2, <2>3
  <1>2. ASSUME NEW m \in Grouped, Close(m) PROVE FALSE
    BY <1>a, <1>2 DEF Close, NoneClosed
  <1>3. CASE UNCHANGED <<byId, byBody, meta, dispatch>>
    BY <1>a, <1>3 DEF ListedAs
  <1>4. CASE Receive
    <2>1. 1 \in DOMAIN inbound
      BY <1>4, ReceiveIs
    <2>2. ASSUME NEW g \in Grouped, Reflects(1, g) PROVE g \in byId
      BY <1>4, <1>a, <2>2, FoundById
    <2>3. ASSUME Unlisted, NEW b, ByBody(b) PROVE FALSE
      <3>1. inbound[1].kind # "echo"
        BY <1>a, <2>1 DEF ChannelsInv, KnownById
      <3>. QED
        BY <1>a, <2>2, <2>3, <3>1 DEF ByBody, Unlisted, KnownById
    <2>4. ASSUME NEW t \in Grouped, ById(t)
          PROVE  dispatch' /\ \A b \in Bodies : Cardinality(ListedAs(b)') = Len(byBody'[b])
      <3>. DEFINE c == Body[t]
      <3>1. c \in Bodies /\ t \in ListedAs(c) /\ byBody[c] \in Seq(Grouped)
        BY <2>4, BodyType DEF ById, ListedAs, TypeOK
      <3>2. Cardinality(ListedAs(c)) # 0
        BY <1>b, <3>1, FS_EmptySet
      <3>3. byBody[c] # <<>>
        <4>1. Len(byBody[c]) # 0
          BY <1>a, <3>1, <3>2
        <4>. QED
          BY <4>1
      <3>4. /\ dispatch' = dispatch /\ byId' = byId \ {t}
            /\ byBody' = [byBody EXCEPT ![c] = Tail(@)]
        BY <1>a, <2>4, <3>3, MatchListed DEF ById, TablesInv, NoneClosed
      <3>5. ASSUME NEW b \in Bodies PROVE Cardinality(ListedAs(b)') = Len(byBody'[b])
        <4>1. CASE b # c
          <5>1. ListedAs(b)' = ListedAs(b) /\ byBody'[b] = byBody[b]
            BY <3>4, <4>1 DEF ListedAs, TypeOK
          <5>. QED
            BY <1>a, <5>1
        <4>2. CASE b = c
          <5>1. ListedAs(b)' = ListedAs(b) \ {t}
            BY <3>4 DEF ListedAs
          <5>2. byBody'[b] = Tail(byBody[b])
            BY <3>4, <4>2 DEF TypeOK
          <5>3. Len(byBody'[b]) = Len(byBody[b]) - 1
            BY <3>1, <3>3, <4>2, <5>2, TailPlaces
          <5>4. Cardinality(ListedAs(b)') = Cardinality(ListedAs(b)) - 1
            BY <1>b, <3>1, <4>2, <5>1, FS_RemoveElement
          <5>. QED
            BY <1>a, <5>3, <5>4
        <4>. QED
          BY <4>1, <4>2
      <3>. QED
        BY <1>a, <3>4, <3>5
    <2>. QED
      BY <1>3, <1>4, <2>3, <2>4, ReceiveFinds DEF ById
  <1>. QED
    BY <1>1, <1>2, <1>3, <1>4, StepIs

LEMMA LostCounts == ASSUME TypeOK, [Next]_vars PROVE lost \in Nat /\ (lost' = lost \/ lost' = lost + 1)
  <1>. USE DEF trackers, tables, fixed, peers
  <1>1. lost \in Nat
    BY TrackingBoundsAssumption DEF TypeOK
  <1>2. ASSUME NEW m \in Messages, SendChat(m) \/ SendReceipt(m) \/ SendError(m) \/ SendGrouped(m)
                                   \/ Close(m) \/ Acked(m) \/ Unsent(m) \/ StanzaSent(m)
        PROVE  lost' = lost
    BY <1>2 DEF SendChat, SendReceipt, SendError, SendGrouped, Close, Acked, Unsent, StanzaSent
  <1>3. ASSUME NEW m \in Messages, NEW arrives \in BOOLEAN, Transmit(m, arrives) PROVE lost' = lost
    BY <1>3 DEF Transmit
  <1>4. CASE (\E counted \in BOOLEAN : SessionLost(counted)) \/ Resumed
    BY <1>1, <1>4 DEF SessionLost, Resumed
  <1>5. CASE RoomTakes \/ (\E b \in Bodies : Echo(b)) \/ UNCHANGED vars
    BY <1>1, <1>5 DEF RoomTakes, Echo, vars
  <1>6. CASE Receive
    BY <1>1, <1>6, ReceiveIs
  <1>. QED
    BY <1>1, <1>2, <1>3, <1>4, <1>5, <1>6 DEF Next, Messages

\* A message that will not be reflected is not, as long as nothing is lost.
LEMMA DoomedStays ==
    ASSUME TypeOK, FatesInv, [Next]_vars, lost' = lost, NEW g \in Grouped, Doomed(g)
    PROVE  Doomed(g)'
  <1>. DEFINE Missed == token[g] \notin {"none", "active"} /\ g \notin server
  <1>. USE DEF trackers, tables, fixed, peers
  <1>a. g \in Messages /\ g \notin Chats /\ lost \in Nat
    BY MessagesAssumption, TrackingBoundsAssumption DEF Messages, TypeOK
  <1>. SUFFICES errors \subseteq errors' /\ (Missed => Missed')
    BY <1>a DEF Doomed
  <1>1. ASSUME NEW m \in Messages, m # g,
               SendChat(m) \/ SendReceipt(m) \/ SendError(m) \/ SendGrouped(m) \/ Close(m)
        PROVE  errors \subseteq errors' /\ (Missed => Missed')
    BY <1>1, <1>a DEF SendChat, SendReceipt, SendError, SendGrouped, Close, TypeOK
  <1>2. CASE SendGrouped(g) \/ Close(g)
    BY <1>2, <1>a DEF SendGrouped, Close, TypeOK
  <1>3. ASSUME NEW m \in Messages, Acked(m) \/ Unsent(m) \/ StanzaSent(m)
        PROVE  errors \subseteq errors' /\ (Missed => Missed')
    BY <1>3, <1>a DEF Acked, Unsent, StanzaSent, TypeOK
  <1>4. ASSUME NEW m \in Messages, NEW arrives \in BOOLEAN, Transmit(m, arrives)
        PROVE  errors \subseteq errors' /\ (Missed => Missed')
    <2>1. token[m] = "active"
      BY <1>4 DEF Transmit, IsNext
    <2>2. CASE m = g
      BY <1>4, <1>a, <2>1, <2>2 DEF Transmit
    <2>3. CASE m # g
      BY <1>4, <1>a, <2>3 DEF Transmit, TypeOK
    <2>. QED
      BY <2>2, <2>3
  <1>5. CASE (\E counted \in BOOLEAN : SessionLost(counted)) \/ Resumed
    BY <1>5, <1>a DEF SessionLost, Resumed
  <1>6. CASE RoomTakes \/ (\E b \in Bodies : Echo(b)) \/ UNCHANGED vars
    BY <1>6 DEF RoomTakes, Echo, vars
  <1>7. CASE Receive
    BY <1>7, ReceiveIs
  <1>. QED
    BY <1>a, <1>1, <1>2, <1>3, <1>4, <1>5, <1>6, <1>7 DEF Next, Messages

LEMMA OrderlyBefore == ASSUME TypeOK, FatesInv, [Next]_vars, Orderly' PROVE Orderly /\ UNCHANGED lost
  <1>1. NoneClosed /\ ~rewrites
    BY StepIs DEF Orderly, NoneClosed
  <1>2. lost = 0 /\ lost' = 0
    BY LostCounts DEF Orderly
  <1>3. \A g \in Grouped : ~Doomed(g)
    BY <1>2, DoomedStays DEF Orderly
  <1>. QED
    BY <1>1, <1>2, <1>3 DEF Orderly

\* A message keeps its place if the order only grows and the channels stay.
LEMMA PlacesKept ==
    ASSUME NEW G, \A g \in G : token'[g] = "active" <=> token[g] = "active",
           UNCHANGED <<room, inbound>>,
           \A i \in DOMAIN order : i \in DOMAIN order' /\ order'[i] = order[i]
    PROVE  /\ \A s \in G : Expected(s) => Expected(s)'
           /\ \A s, t \in G : Ahead(s, t) => Ahead(s, t)'
  BY DEF Expected, Ahead, Reflects

\* ... or another stanza arrives.
LEMMA PlacesBehind ==
    ASSUME TypeOK, NEW x \in Known, x.kind # "reflection", inbound' = Append(inbound, x),
           UNCHANGED <<token, order, room>>
    PROVE  /\ \A s \in Grouped : Expected(s) => Expected(s)'
           /\ \A s, t \in Grouped : Ahead(s, t) => Ahead(s, t)'
  <1>1. inbound \in Seq(Known)
    BY DEF TypeOK, Known
  <1>2. \A s \in Grouped :
            /\ \A i \in DOMAIN inbound : Reflects(i, s) => i \in DOMAIN inbound' /\ Reflects(i, s)'
            /\ \A i \in DOMAIN inbound' : Reflects(i, s)' => i \in DOMAIN inbound /\ Reflects(i, s)
    BY <1>1, AppendAt, AppendPlaces DEF Reflects
  <1>. QED
    BY <1>2 DEF Expected, Ahead

\* ... or one is taken that is not its reflection.
LEMMA PlacesAfter ==
    ASSUME TypeOK, Receive
    PROVE  /\ \A s \in Grouped : ~Reflects(1, s) /\ Expected(s) => Expected(s)'
           /\ \A s, t \in Grouped : ~Reflects(1, s) /\ Ahead(s, t) => Ahead(s, t)'
  <1>1. inbound \in Seq(Known) /\ inbound # <<>> /\ inbound' = Tail(inbound)
        /\ UNCHANGED <<token, order, room>>
    BY ReceiveIs DEF TypeOK, Known, peers
  <1>2. \A s \in Grouped :
            /\ \A i \in DOMAIN inbound : Reflects(i, s) /\ i # 1 =>
                  i \in Nat /\ i - 1 \in DOMAIN inbound' /\ Reflects(i - 1, s)'
            /\ \A i \in DOMAIN inbound' : Reflects(i, s)' => i \in Nat /\ i + 1 \in DOMAIN inbound /\ Reflects(i + 1, s)
    BY <1>1, TailPlaces DEF Reflects
  <1>3. ASSUME NEW s \in Grouped, ~Reflects(1, s), Expected(s) PROVE Expected(s)'
    <2>1. (\E i \in DOMAIN inbound : Reflects(i, s)) => \E i \in DOMAIN inbound' : Reflects(i, s)'
      BY <1>2, <1>3
    <2>. QED
      BY <1>1, <1>3, <2>1 DEF Expected
  <1>4. ASSUME NEW s \in Grouped, NEW t \in Grouped, ~Reflects(1, s), Ahead(s, t) PROVE Ahead(s, t)'
    <2>1. (\E i \in DOMAIN inbound : Reflects(i, s)) => \E i \in DOMAIN inbound' : Reflects(i, s)'
      BY <1>2, <1>4
    <2>2. ASSUME NEW q \in DOMAIN inbound', Reflects(q, t)'
          PROVE  \E p \in DOMAIN inbound' : p < q /\ Reflects(p, s)'
      <3>1. q \in Nat /\ q + 1 \in DOMAIN inbound /\ Reflects(q + 1, t)
        BY <1>2, <2>2
      <3>2. PICK p \in DOMAIN inbound : p < q + 1 /\ Reflects(p, s)
        BY <1>4, <3>1 DEF Ahead
      <3>3. p # 1
        BY <1>4, <3>2
      <3>4. p \in Nat /\ p - 1 \in DOMAIN inbound' /\ Reflects(p - 1, s)'
        BY <1>2, <3>2, <3>3
      <3>5. p - 1 < q
        BY <3>1, <3>2, <3>4
      <3>. QED
        BY <3>4, <3>5
    <2>. QED
      BY <1>1, <1>4, <2>1, <2>2 DEF Ahead
  <1>. QED
    BY <1>3, <1>4

\* The next message to be transmitted is behind all that were.
LEMMA PlacesSent ==
    ASSUME TypeOK, FatesInv, ChannelsInv, NEW m \in Grouped, Transmit(m, TRUE)
    PROVE  /\ \A s \in Grouped : Expected(s) => Expected(s)'
           /\ \A s, t \in Grouped : s # t /\ Expected(s) /\ Ahead(s, t) => Ahead(s, t)'
  <1>1. /\ token' = [token EXCEPT ![m] = IF sm THEN "sent" ELSE "ok"]
        /\ room' = Append(room, m) /\ UNCHANGED <<order, inbound>>
        /\ token[m] = "active" /\ m \notin server /\ m \in Messages
        /\ \A i, j \in DOMAIN order : (i < j /\ order[j] = m) => token[order[i]] # "active"
    BY DEF Transmit, IsNext, FatesInv, Messages
  <1>2. /\ room \in Seq(Grouped) /\ token'[m] # "active"
        /\ \A s \in Grouped : s # m => token'[s] = token[s]
    BY <1>1 DEF TypeOK, Messages
  <1>3. /\ \A i \in DOMAIN room : /\ i < Len(room) + 1 /\ i \in DOMAIN room' /\ room'[i] = room[i]
        /\ Len(room) + 1 \in DOMAIN room' /\ room'[Len(room) + 1] = m
        /\ \A i \in DOMAIN room' : (i \in DOMAIN room /\ room'[i] = room[i]) \/ i = Len(room) + 1
    BY <1>1, <1>2, AppendAt, AppendPlaces
  <1>4. /\ \A i \in DOMAIN room : room[i] # m
        /\ \A i \in DOMAIN inbound : ~Reflects(i, m)
    BY <1>1 DEF ChannelsInv, Reflects
  <1>5. ASSUME NEW s \in Grouped, Expected(s) PROVE Expected(s)'
    <2>1. CASE s = m
      BY <1>1, <1>3, <1>5, <2>1 DEF Expected
    <2>2. CASE s # m
      BY <1>1, <1>2, <1>3, <1>5, <2>2 DEF Expected, Reflects
    <2>. QED
      BY <2>1, <2>2
  <1>6. ASSUME NEW s \in Grouped, NEW t \in Grouped, s # t, Expected(s), Ahead(s, t) PROVE Ahead(s, t)'
    <2>1. \E p, q \in DOMAIN order' : p < q /\ order'[p] = s /\ order'[q] = t
      BY <1>1, <1>6 DEF Ahead
    <2>2. t = m => token[s] # "active"
      BY <1>1, <1>6 DEF Ahead
    <2>3. token'[s] = "active" => token'[t] = "active"
      BY <1>2, <1>6, <2>2 DEF Ahead
    <2>4. \A q \in DOMAIN inbound' : Reflects(q, t)' => \E p \in DOMAIN inbound' : p < q /\ Reflects(p, s)'
      BY <1>1, <1>6 DEF Ahead, Reflects
    <2>5. ASSUME NEW q \in DOMAIN room', room'[q] = t
          PROVE  (\E p \in DOMAIN room' : p < q /\ room'[p] = s) \/ \E p \in DOMAIN inbound' : Reflects(p, s)'
      <3>1. CASE q \in DOMAIN room /\ room[q] = t
        BY <1>1, <1>3, <1>6, <3>1 DEF Ahead, Reflects
      <3>2. CASE q = Len(room) + 1 /\ t = m
        <4>1. (\E p \in DOMAIN room : room[p] = s) \/ \E p \in DOMAIN inbound : Reflects(p, s)
          BY <1>6, <2>2, <3>2 DEF Expected
        <4>. QED
          BY <1>1, <1>3, <3>2, <4>1 DEF Reflects
      <3>. QED
        BY <1>3, <2>5, <3>1, <3>2
    <2>. QED
      BY <2>1, <2>3, <2>4, <2>5 DEF Ahead
  <1>. QED
    BY <1>5, <1>6

\* The room reflects messages in the order in which they came.
LEMMA PlacesReflected ==
    ASSUME TypeOK, RoomTakes, inbound' = Append(inbound, Stanza("reflection", Head(room)))
    PROVE  /\ \A s \in Grouped : Expected(s) => Expected(s)'
           /\ \A s, t \in Grouped : Ahead(s, t) => Ahead(s, t)'
  <1>. DEFINE h == Head(room)
              new == Stanza("reflection", h)
  <1>1. room \in Seq(Grouped) /\ inbound \in Seq(Known) /\ room # <<>> /\ room' = Tail(room)
        /\ UNCHANGED <<token, order>>
    BY DEF RoomTakes, TypeOK, Known
  <1>2. h \in Grouped /\ h = room[1]
    BY <1>1, TailAt
  <1>3. new \in Known /\ new.kind = "reflection" /\ new.of = h
    BY <1>2, StanzaType
  <1>l. PICK last : last = Len(inbound) + 1
    OBVIOUS
  <1>4. /\ \A i \in DOMAIN room : /\ i \in Nat /\ i >= 1
                                  /\ i # 1 => i - 1 \in DOMAIN room' /\ room'[i - 1] = room[i]
        /\ \A i \in DOMAIN room' : i \in Nat /\ i + 1 \in DOMAIN room /\ room'[i] = room[i + 1]
    BY <1>1, TailPlaces
  <1>5. /\ \A s \in Grouped : \A i \in DOMAIN inbound : Reflects(i, s) =>
              i < last /\ i \in DOMAIN inbound' /\ Reflects(i, s)'
        /\ \A s \in Grouped : s = h => last \in DOMAIN inbound' /\ Reflects(last, s)'
        /\ \A s \in Grouped : \A i \in DOMAIN inbound' : Reflects(i, s)' =>
              (i \in DOMAIN inbound /\ Reflects(i, s)) \/ (i = last /\ s = h)
    <2>1. /\ \A i \in DOMAIN inbound : i < last /\ i \in DOMAIN inbound' /\ inbound'[i] = inbound[i]
          /\ last \in DOMAIN inbound' /\ inbound'[last] = new
          /\ \A i \in DOMAIN inbound' : (i \in DOMAIN inbound /\ inbound'[i] = inbound[i]) \/ i = last
      BY <1>1, <1>3, <1>l, AppendAt, AppendPlaces
    <2>. HIDE DEF h, new
    <2>2. \A s \in Grouped : \A i \in DOMAIN inbound : Reflects(i, s) =>
              i < last /\ i \in DOMAIN inbound' /\ Reflects(i, s)'
      BY <2>1 DEF Reflects
    <2>3. \A s \in Grouped : s = h => last \in DOMAIN inbound' /\ Reflects(last, s)'
      BY <1>3, <2>1 DEF Reflects
    <2>4. ASSUME NEW s \in Grouped, NEW i \in DOMAIN inbound', Reflects(i, s)'
          PROVE  (i \in DOMAIN inbound /\ Reflects(i, s)) \/ (i = last /\ s = h)
      <3>1. CASE i \in DOMAIN inbound /\ inbound'[i] = inbound[i]
        BY <2>4, <3>1 DEF Reflects
      <3>2. CASE i = last
        BY <1>3, <2>1, <2>4, <3>2 DEF Reflects
      <3>. QED
        BY <2>1, <3>1, <3>2
    <2>. QED
      BY <2>2, <2>3, <2>4
  <1>. HIDE DEF h, new
  <1>6. ASSUME NEW s \in Grouped, Expected(s) PROVE Expected(s)'
    <2>1. ASSUME NEW p \in DOMAIN room, room[p] = s
          PROVE  (\E i \in DOMAIN room' : room'[i] = s) \/ \E i \in DOMAIN inbound' : Reflects(i, s)'
      <3>1. CASE p = 1
        BY <1>2, <1>5, <2>1, <3>1
      <3>2. CASE p # 1
        BY <1>4, <2>1, <3>2
      <3>. QED
        BY <3>1, <3>2
    <2>2. ASSUME NEW p \in DOMAIN inbound, Reflects(p, s) PROVE \E i \in DOMAIN inbound' : Reflects(i, s)'
      BY <1>5, <2>2
    <2>. QED
      BY <1>1, <1>6, <2>1, <2>2 DEF Expected
  <1>7. ASSUME NEW s \in Grouped, NEW t \in Grouped, Ahead(s, t) PROVE Ahead(s, t)'
    <2>1. ASSUME NEW q \in DOMAIN room', room'[q] = t
          PROVE  (\E p \in DOMAIN room' : p < q /\ room'[p] = s) \/ \E p \in DOMAIN inbound' : Reflects(p, s)'
      <3>1. q \in Nat /\ q + 1 \in DOMAIN room /\ room[q + 1] = t
        BY <1>4, <2>1
      <3>2. \/ \E p \in DOMAIN room : p < q + 1 /\ room[p] = s
            \/ \E p \in DOMAIN inbound : Reflects(p, s)
        BY <1>7, <3>1 DEF Ahead
      <3>3. ASSUME NEW p \in DOMAIN room, p < q + 1, room[p] = s, p # 1
            PROVE  p - 1 \in DOMAIN room' /\ p - 1 < q /\ room'[p - 1] = s
        BY <1>4, <3>1, <3>3
      <3>4. ASSUME NEW p \in DOMAIN room, room[p] = s, p = 1
            PROVE  \E i \in DOMAIN inbound' : Reflects(i, s)'
        BY <1>2, <1>5, <3>4
      <3>5. ASSUME NEW p \in DOMAIN inbound, Reflects(p, s)
            PROVE  \E i \in DOMAIN inbound' : Reflects(i, s)'
        BY <1>5, <3>5
      <3>. QED
        BY <3>2, <3>3, <3>4, <3>5
    <2>2. ASSUME NEW q \in DOMAIN inbound', Reflects(q, t)'
          PROVE  \E p \in DOMAIN inbound' : p < q /\ Reflects(p, s)'
      <3>1. CASE q \in DOMAIN inbound /\ Reflects(q, t)
        BY <1>5, <1>7, <3>1 DEF Ahead
      <3>2. CASE q = last /\ t = h
        <4>1. 1 \in DOMAIN room /\ room[1] = t
          BY <1>1, <1>2, <3>2, TailAt
        <4>2. \E p \in DOMAIN inbound : Reflects(p, s)
          BY <1>4, <1>7, <4>1 DEF Ahead
        <4>. QED
          BY <1>5, <3>2, <4>2
      <3>. QED
        BY <1>5, <2>2, <3>1, <3>2
    <2>. QED
      BY <1>1, <1>7, <2>1, <2>2 DEF Ahead
  <1>. QED
    BY <1>6, <1>7

\* The lists after a stanza was received, if no listed message was reflected by it.
LEMMA ListsAfter ==
    ASSUME TypeOK, Receive, NEW b \in Bodies, InOrder(byBody[b]),
           byBody'[b] = byBody[b] \/ (byBody[b] # <<>> /\ byBody'[b] = Tail(byBody[b])),
           \A i \in DOMAIN byBody'[b] : ~Reflects(1, byBody'[b][i])
    PROVE  InOrder(byBody[b])'
  <1>1. byBody[b] \in Seq(Grouped)
    BY DEF TypeOK
  <1>2. ASSUME NEW t \in Grouped, NEW j \in DOMAIN byBody'[b], byBody'[b][j] = t
        PROVE  \E k \in DOMAIN byBody[b] : byBody[b][k] = t /\ (k = j \/ k = j + 1)
    <2>1. CASE byBody'[b] = byBody[b]
      BY <1>2, <2>1
    <2>2. CASE byBody[b] # <<>> /\ byBody'[b] = Tail(byBody[b])
      <3>1. j + 1 \in DOMAIN byBody[b] /\ t = byBody[b][j + 1]
        BY <1>1, <1>2, <2>2, TailPlaces
      <3>. QED
        BY <3>1
    <2>. QED
      BY <2>1, <2>2
  <1>3. ASSUME NEW t \in Grouped, NEW j \in DOMAIN byBody'[b], byBody'[b][j] = t PROVE Expected(t)'
    BY <1>2, <1>3, PlacesAfter DEF InOrder
  <1>4. ASSUME NEW s \in Grouped, NEW t \in Grouped, NEW i \in DOMAIN byBody'[b], NEW j \in DOMAIN byBody'[b],
               i < j, byBody'[b][i] = s, byBody'[b][j] = t
        PROVE  Ahead(s, t)'
    <2>1. \E h, k \in DOMAIN byBody[b] : h < k /\ byBody[b][h] = s /\ byBody[b][k] = t
      <3>1. CASE byBody'[b] = byBody[b]
        BY <1>4, <3>1
      <3>2. CASE byBody[b] # <<>> /\ byBody'[b] = Tail(byBody[b])
        <4>1. /\ i \in Nat /\ i + 1 \in DOMAIN byBody[b] /\ s = byBody[b][i + 1]
              /\ j \in Nat /\ j + 1 \in DOMAIN byBody[b] /\ t = byBody[b][j + 1]
          BY <1>1, <1>4, <3>2, TailPlaces
        <4>2. i + 1 < j + 1
          BY <1>4, <4>1
        <4>. QED
          BY <4>1, <4>2
      <3>. QED
        BY <3>1, <3>2
    <2>2. Ahead(s, t) /\ ~Reflects(1, s)
      BY <1>4, <2>1 DEF InOrder
    <2>. QED
      BY <2>2, PlacesAfter
  <1>. QED
    BY <1>3, <1>4 DEF InOrder

\* The lists if the tables stay as they are.
LEMMA ListsKept ==
    ASSUME TypeOK, ExactTables, UNCHANGED byBody, NEW b \in Bodies, InOrder(byBody[b]),
           \A s \in Grouped : Expected(s) => Expected(s)',
           \A s, t \in Grouped : s # t /\ Expected(s) /\ Ahead(s, t) => Ahead(s, t)'
    PROVE  InOrder(byBody[b])'
  <1>1. ASSUME NEW t \in Grouped, NEW j \in DOMAIN byBody[b], byBody[b][j] = t PROVE Expected(t)'
    BY <1>1 DEF InOrder
  <1>2. ASSUME NEW s \in Grouped, NEW t \in Grouped, NEW i \in DOMAIN byBody[b], NEW j \in DOMAIN byBody[b],
               i < j, byBody[b][i] = s, byBody[b][j] = t
        PROVE  Ahead(s, t)'
    <2>1. Expected(s) /\ Ahead(s, t)
      BY <1>2 DEF InOrder
    <2>2. s # t
      <3>1. i # j
        BY <1>2 DEF TypeOK
      <3>. QED
        BY <1>2, <3>1 DEF ExactTables, Exactly
    <2>. QED
      BY <2>1, <2>2
  <1>. QED
    BY <1>1, <1>2 DEF InOrder

\* A new message is the last of its list.
LEMMA ListsSend ==
    ASSUME TypeOK, FatesInv, ChannelsInv, NEW m \in Grouped, SendGrouped(m),
           \A b \in Bodies : InOrder(byBody[b]), TablesInv
    PROVE  \A b \in Bodies : InOrder(byBody[b])'
  <1>1. m \in Messages /\ Body[m] \in Bodies
    BY BodyType
  <1>2. /\ token[m] = "none" /\ token' = [token EXCEPT ![m] = "active"]
        /\ order' = Append(order, m) /\ order \in Seq(Messages)
        /\ byBody' = [byBody EXCEPT ![Body[m]] = Append(@, m)] /\ UNCHANGED <<room, inbound>>
    BY DEF SendGrouped, TypeOK, peers
  <1>3. /\ \A i \in DOMAIN order : i < Len(order) + 1 /\ i \in DOMAIN order' /\ order'[i] = order[i]
        /\ Len(order) + 1 \in DOMAIN order' /\ order'[Len(order) + 1] = m
    BY <1>1, <1>2, AppendPlaces
  <1>. DEFINE G == Grouped \ {m}
  <1>4. \A g \in G : token'[g] = "active" <=> token[g] = "active"
    BY <1>1, <1>2 DEF TypeOK, Messages
  <1>5. /\ \A s \in G : Expected(s) => Expected(s)'
        /\ \A s, t \in G : Ahead(s, t) => Ahead(s, t)'
    BY <1>2, <1>3, <1>4, PlacesKept
  <1>6. /\ \A i \in DOMAIN room : room[i] # m
        /\ \A i \in DOMAIN inbound : ~Reflects(i, m)
        /\ token'[m] = "active"
    BY <1>1, <1>2 DEF FatesInv, ChannelsInv, Reflects, TypeOK
  <1>7. Expected(m)'
    BY <1>3, <1>6 DEF Expected
  <1>8. ASSUME NEW s \in Grouped, Expected(s) PROVE Ahead(s, m)'
    <2>1. PICK p \in DOMAIN order : order[p] = s
      BY <1>8 DEF Expected
    <2>2. \E p1, q1 \in DOMAIN order' : p1 < q1 /\ order'[p1] = s /\ order'[q1] = m
      BY <1>3, <2>1
    <2>. QED
      BY <1>2, <1>6, <2>2 DEF Ahead, Reflects
  <1>. HIDE DEF G
  <1>9. ASSUME NEW b \in Bodies PROVE InOrder(byBody[b])'
    <2>1. /\ byBody[b] \in Seq(Grouped) /\ InOrder(byBody[b])
          /\ \A i \in DOMAIN byBody[b] : byBody[b][i] \in G
      BY <1>2 DEF TypeOK, TablesInv, G
    <2>2. CASE b # Body[m]
      <3>1. byBody'[b] = byBody[b]
        BY <1>2, <2>2 DEF TypeOK
      <3>. QED
        BY <1>5, <2>1, <3>1 DEF InOrder
    <2>3. CASE b = Body[m]
      <3>1. byBody'[b] = Append(byBody[b], m)
        BY <1>2, <2>3 DEF TypeOK
      <3>2. \A i \in DOMAIN byBody'[b] :
              \/ i \in DOMAIN byBody[b] /\ byBody'[b][i] = byBody[b][i]
              \/ i = Len(byBody[b]) + 1 /\ byBody'[b][i] = m
        BY <2>1, <3>1, AppendAt
      <3>3. ASSUME NEW t \in Grouped, NEW j \in DOMAIN byBody'[b], byBody'[b][j] = t PROVE Expected(t)'
        <4>1. CASE t = m
          BY <1>7, <4>1
        <4>2. CASE j \in DOMAIN byBody[b] /\ byBody[b][j] = t
          BY <1>5, <2>1, <4>2 DEF InOrder
        <4>. QED
          BY <3>2, <3>3, <4>1, <4>2
      <3>4. ASSUME NEW s \in Grouped, NEW t \in Grouped, NEW i \in DOMAIN byBody'[b],
                   NEW j \in DOMAIN byBody'[b], i < j, byBody'[b][i] = s, byBody'[b][j] = t
            PROVE  Ahead(s, t)'
        <4>1. i \in DOMAIN byBody[b] /\ byBody[b][i] = s
          BY <2>1, <3>1, <3>2, <3>4
        <4>2. Expected(s) /\ s \in G
          BY <2>1, <4>1 DEF InOrder
        <4>3. CASE j \in DOMAIN byBody[b] /\ byBody[b][j] = t
          BY <1>5, <2>1, <3>4, <4>1, <4>2, <4>3 DEF InOrder
        <4>4. CASE t = m
          BY <1>8, <4>2, <4>4
        <4>. QED
          BY <3>2, <3>4, <4>3, <4>4
      <3>. QED
        BY <3>3, <3>4 DEF InOrder
    <2>. QED
      BY <2>2, <2>3
  <1>. QED
    BY <1>9

\* Every other step keeps the places while all goes well.
LEMMA PlacesStep ==
    ASSUME TypeOK, FatesInv, ChannelsInv, [Next]_vars, Orderly, Orderly', ~Receive,
           \A m \in Grouped : ~SendGrouped(m)
    PROVE  /\ \A s \in Grouped : Expected(s) => Expected(s)'
           /\ \A s, t \in Grouped : s # t /\ Expected(s) /\ Ahead(s, t) => Ahead(s, t)'
  <1>. USE DEF trackers, tables, fixed, peers
  <1>. DEFINE Kept == /\ \A s \in Grouped : Expected(s) => Expected(s)'
                      /\ \A s, t \in Grouped : s # t /\ Expected(s) /\ Ahead(s, t) => Ahead(s, t)'
  <1>a. lost' = lost /\ \A g \in Grouped : token'[g] \in {"none", "active"} \/ g \in server'
    BY DEF Orderly, Doomed
  <1>b. ASSUME \A g \in Grouped : token'[g] = "active" <=> token[g] = "active",
               UNCHANGED <<room, inbound, order>>
        PROVE  Kept
    BY <1>b, PlacesKept
  <1>1. ASSUME NEW m \in Chats, SendChat(m) PROVE Kept
    <2>1. /\ order' = Append(order, m) /\ order \in Seq(Messages) /\ m \in Messages
          /\ UNCHANGED <<room, inbound>>
      BY <1>1 DEF SendChat, TypeOK, Messages
    <2>2. \A g \in Grouped : token'[g] = "active" <=> token[g] = "active"
      BY <1>1, MessagesAssumption DEF SendChat, TypeOK, Messages
    <2>3. \A i \in DOMAIN order : i \in DOMAIN order' /\ order'[i] = order[i]
      BY <2>1, AppendPlaces
    <2>. QED
      BY <2>1, <2>2, <2>3, PlacesKept
  <1>2. ASSUME NEW m \in Chats, SendReceipt(m) PROVE Kept
    <2>1. Stanza("receipt", m) \in Known /\ Stanza("receipt", m).kind # "reflection"
      BY StanzaType DEF Messages
    <2>. QED
      BY <1>2, <2>1, PlacesBehind DEF SendReceipt
  <1>3. ASSUME NEW m \in Chats, SendError(m) PROVE Kept
    <2>1. Stanza("error", m) \in Known /\ Stanza("error", m).kind # "reflection"
      BY StanzaType DEF Messages
    <2>. QED
      BY <1>3, <2>1, PlacesBehind DEF SendError
  <1>4. ASSUME NEW m \in Messages, Close(m) \/ Acked(m) PROVE Kept
    <2>1. \A g \in Grouped : token'[g] = "active" <=> token[g] = "active"
      BY <1>4 DEF Close, Acked, TypeOK, Messages
    <2>2. UNCHANGED <<room, inbound, order>>
      BY <1>4 DEF Close, Acked
    <2>. QED
      BY <1>b, <2>1, <2>2
  <1>5. ASSUME NEW m \in Messages, StanzaSent(m) PROVE Kept
    <2>1. \A g \in Grouped : token'[g] = "active" <=> token[g] = "active"
      BY <1>5 DEF StanzaSent, TypeOK, Messages
    <2>2. UNCHANGED <<room, inbound, order>>
      BY <1>5 DEF StanzaSent
    <2>. QED
      BY <1>b, <2>1, <2>2
  <1>6. ASSUME NEW m \in Messages, Unsent(m) PROVE Kept
    <2>1. m \notin server' /\ token'[m] = "failed" /\ UNCHANGED <<room, inbound, order>>
      BY <1>6 DEF Unsent, TypeOK, FatesInv
    <2>2. m \notin Grouped
      BY <1>a, <2>1
    <2>3. \A g \in Grouped : token'[g] = "active" <=> token[g] = "active"
      BY <1>6, <2>2 DEF Unsent, TypeOK, Messages
    <2>. QED
      BY <1>b, <2>1, <2>3
  <1>7. ASSUME NEW m \in Messages, NEW arrives \in BOOLEAN, Transmit(m, arrives) PROVE Kept
    <2>1. CASE m \notin Grouped
      <3>1. \A g \in Grouped : token'[g] = "active" <=> token[g] = "active"
        BY <1>7, <2>1 DEF Transmit, TypeOK, Messages
      <3>2. UNCHANGED <<room, inbound, order>>
        BY <1>7, <2>1 DEF Transmit
      <3>. QED
        BY <1>b, <3>1, <3>2
    <2>2. CASE m \in Grouped /\ arrives = FALSE
      <3>1. token[m] = "active"
        BY <1>7 DEF Transmit, IsNext
      <3>2. m \notin server /\ server' = server
        BY <1>7, <2>2, <3>1 DEF Transmit, FatesInv
      <3>3. token'[m] \in {"sent", "ok"}
        BY <1>7 DEF Transmit, TypeOK
      <3>. QED
        BY <1>a, <2>2, <3>2, <3>3
    <2>3. CASE m \in Grouped /\ arrives = TRUE
      BY <1>7, <2>3, PlacesSent
    <2>. QED
      BY <2>1, <2>2, <2>3
  <1>8. CASE RoomTakes
    <2>1. CASE inbound' = Append(inbound, Stanza("reflection", Head(room)))
      BY <1>8, <2>1, PlacesReflected
    <2>2. CASE errors' = errors \cup {Head(room)}
      <3>1. Head(room) \in Grouped
        BY <1>8, TailAt DEF RoomTakes, TypeOK
      <3>2. \A g \in Grouped : g \notin errors'
        BY DEF Orderly, Doomed
      <3>. QED
        BY <2>2, <3>1, <3>2
    <2>. QED
      BY <1>8, <2>1, <2>2 DEF RoomTakes
  <1>9. ASSUME NEW b \in Bodies, Echo(b) PROVE Kept
    <2>1. Stanza("echo", b) \in Known /\ Stanza("echo", b).kind # "reflection"
      BY StanzaType
    <2>. QED
      BY <1>9, <2>1, PlacesBehind DEF Echo
  <1>10. CASE Resumed \/ \E counted \in BOOLEAN : SessionLost(counted)
    BY <1>10, <1>a DEF Resumed, SessionLost, TypeOK
  <1>11. CASE UNCHANGED vars
    BY <1>11, <1>b DEF vars
  <1>. QED
    BY <1>1, <1>2, <1>3, <1>4, <1>5, <1>6, <1>7, <1>8, <1>9, <1>10, <1>11 DEF Next

\* What is reflected next is the first of its list, so its entry is removed.
LEMMA ReflectedIsFirst ==
    ASSUME TypeOK, TablesInv, ExactTables, NEW g \in byId, Reflects(1, g), 1 \in DOMAIN inbound,
           InOrder(byBody[Body[g]])
    PROVE  byBody[Body[g]] # <<>> /\ byBody[Body[g]][1] = g
  <1>. DEFINE l == byBody[Body[g]]
  <1>1. g \in Grouped /\ Body[g] \in Bodies /\ l \in Seq(Grouped)
    BY BodyType DEF TypeOK
  <1>2. PICK j \in DOMAIN l : l[j] = g
    BY <1>1 DEF ExactTables, Exactly
  <1>3. l # <<>> /\ 1 \in DOMAIN l /\ l[1] \in Grouped /\ j \in Nat /\ j >= 1
    BY <1>1, <1>2
  <1>4. j = 1
    <2>. SUFFICES ASSUME j # 1 PROVE FALSE
      OBVIOUS
    <2>1. 1 < j
      BY <1>3
    <2>2. PICK s \in Grouped : l[1] = s
      BY <1>3
    <2>3. Ahead(s, g)
      BY <1>1, <1>2, <1>3, <2>1, <2>2 DEF InOrder
    <2>4. PICK p \in DOMAIN inbound : p < 1
      BY <2>3 DEF Ahead
    <2>. QED
      BY <2>4 DEF TypeOK
  <1>. QED
    BY <1>2, <1>3, <1>4

\* The lists after a reflection or an echo.
LEMMA QueueReceive ==
    ASSUME TypeOK, TablesInv, OnceInv, Orderly, dispatch, ExactTables,
           \A b \in Bodies : InOrder(byBody[b]), Receive
    PROVE  dispatch' /\ ExactTables' /\ \A b \in Bodies : InOrder(byBody[b])'
  <1>1. NoneClosed /\ ~rewrites /\ 1 \in DOMAIN inbound
    BY ReceiveIs DEF Orderly
  <1>2. \A b \in Bodies : byBody[b] \in Seq(Grouped)
    BY DEF TypeOK
  <1>3. ASSUME ExactTables', NEW t \in Grouped, byBody' = [byBody EXCEPT ![Body[t]] = Tail(@)],
               byBody[Body[t]] # <<>>, \A x \in byId' : ~Reflects(1, x)
        PROVE  \A b \in Bodies : InOrder(byBody[b])'
    <2>1. ASSUME NEW b \in Bodies PROVE InOrder(byBody[b])'
      <3>1. byBody'[b] = byBody[b] \/ (byBody[b] # <<>> /\ byBody'[b] = Tail(byBody[b]))
        BY <1>3 DEF TypeOK
      <3>2. \A i \in DOMAIN byBody'[b] : byBody'[b][i] \in byId'
        BY <1>3 DEF ExactTables, Exactly
      <3>3. \A i \in DOMAIN byBody'[b] : ~Reflects(1, byBody'[b][i])
        BY <1>3, <3>2
      <3>. QED
        BY <3>1, <3>3, ListsAfter
    <2>. QED
      BY <2>1
  <1>4. ASSUME NEW g \in Grouped, ById(g)
        PROVE  dispatch' /\ ExactTables' /\ \A b \in Bodies : InOrder(byBody[b])'
    <2>1. g \in byId /\ Reflects(1, g) /\ Match(g) /\ Body[g] \in Bodies
      BY <1>4, BodyType DEF ById
    <2>2. byBody[Body[g]] # <<>> /\ byBody[Body[g]][1] = g
      BY <1>1, <2>1, ReflectedIsFirst
    <2>3. /\ dispatch' = dispatch /\ byId' = byId \ {g} /\ ExactTables'
          /\ byBody' = [byBody EXCEPT ![Body[g]] = Tail(@)]
      BY <1>1, <2>1, <2>2, MatchesFirst
    <2>4. \A x \in byId' : ~Reflects(1, x)
      BY <2>1, <2>3 DEF Reflects
    <2>. QED
      BY <1>3, <2>2, <2>3, <2>4
  <1>5. ASSUME Unlisted PROVE \A x \in byId : ~Reflects(1, x)
    BY <1>1, <1>5 DEF Unlisted, TypeOK
  <1>6. ASSUME Unlisted, NEW b \in Bodies, ByBody(b)
        PROVE  dispatch' /\ ExactTables' /\ \A c \in Bodies : InOrder(byBody[c])'
    <2>1. PICK t \in Grouped : /\ Match(t) /\ Body[t] = b /\ byBody[b] # <<>>
                               /\ byBody[b][1] = t
      BY <1>6, FirstOfBody
    <2>2. /\ dispatch' = dispatch /\ byId' = byId \ {t} /\ ExactTables'
          /\ byBody' = [byBody EXCEPT ![Body[t]] = Tail(@)]
      BY <1>1, <2>1, MatchesFirst
    <2>3. \A x \in byId' : ~Reflects(1, x)
      BY <1>5, <1>6, <2>2
    <2>. QED
      BY <1>3, <2>1, <2>2, <2>3
  <1>7. ASSUME Unlisted, UNCHANGED <<byId, byBody, meta, dispatch>>
        PROVE  dispatch' /\ ExactTables' /\ \A b \in Bodies : InOrder(byBody[b])'
    <2>1. ExactTables'
      BY <1>7 DEF ExactTables
    <2>2. ASSUME NEW b \in Bodies PROVE InOrder(byBody[b])'
      <3>1. \A i \in DOMAIN byBody'[b] : byBody'[b][i] \in byId
        BY <1>7, <2>1 DEF ExactTables, Exactly
      <3>2. \A i \in DOMAIN byBody'[b] : ~Reflects(1, byBody'[b][i])
        BY <1>5, <1>7, <3>1
      <3>. QED
        BY <1>7, <3>2, ListsAfter
    <2>. QED
      BY <1>7, <2>1, <2>2
  <1>. QED
    BY <1>4, <1>6, <1>7, ReceiveFinds DEF ById, ByBody

LEMMA QueueStep ==
    TypeOK /\ FatesInv /\ ChannelsInv /\ OnceInv /\ TablesInv /\ QueueInv /\ [Next]_vars => QueueInv'
  <1>. SUFFICES ASSUME TypeOK, FatesInv, ChannelsInv, OnceInv, TablesInv, QueueInv, [Next]_vars, Orderly'
                PROVE  dispatch' /\ ExactTables' /\ \A b \in Bodies : InOrder(byBody[b])'
    BY DEF QueueInv
  <1>1. Orderly /\ dispatch /\ ExactTables /\ \A b \in Bodies : InOrder(byBody[b])
    BY OrderlyBefore DEF QueueInv
  <1>2. ASSUME NEW m \in Grouped, SendGrouped(m)
        PROVE  dispatch' /\ ExactTables' /\ \A b \in Bodies : InOrder(byBody[b])'
    <2>1. dispatch' = dispatch
      BY <1>2 DEF SendGrouped
    <2>. QED
      BY <1>1, <1>2, <2>1, ExactSend, ListsSend
  <1>3. CASE Receive
    BY <1>1, <1>3, QueueReceive
  <1>4. ASSUME NEW m \in Grouped, Close(m) PROVE FALSE
    BY <1>4 DEF Close, Orderly, NoneClosed
  <1>5. CASE /\ UNCHANGED <<byId, byBody, meta, dispatch>> /\ ~Receive
             /\ \A m \in Grouped : ~SendGrouped(m)
    <2>1. ExactTables'
      BY <1>1, <1>5 DEF ExactTables
    <2>2. ASSUME NEW b \in Bodies PROVE InOrder(byBody[b])'
      BY <1>1, <1>5, PlacesStep, ListsKept
    <2>. QED
      BY <1>1, <1>5, <2>1, <2>2
  <1>. QED
    BY <1>2, <1>3, <1>4, <1>5, StepIs

-----------------------------------------------------------------------------
(* The filters and the broker *)

LEMMA BrokerStep ==
    TypeOK /\ FatesInv /\ ChannelsInv /\ BrokerSurvives /\ [Next]_vars => BrokerSurvives'
  <1>. SUFFICES ASSUME TypeOK, FatesInv, ChannelsInv, BrokerSurvives, [Next]_vars
                PROVE  closed \subseteq closed' /\ (broker' = broker \/ closed' \cap Chats # {})
    BY DEF BrokerSurvives
  <1>. USE DEF trackers, tables, fixed, peers
  <1>1. ASSUME NEW m \in Chats, SendChat(m) \/ SendReceipt(m) \/ SendError(m)
        PROVE  closed' = closed /\ broker' = broker
    BY <1>1 DEF SendChat, SendReceipt, SendError
  <1>2. ASSUME NEW m \in Grouped, SendGrouped(m) PROVE closed' = closed /\ broker' = broker
    BY <1>2 DEF SendGrouped
  <1>3. ASSUME NEW m \in Messages, Close(m) \/ Acked(m) \/ Unsent(m)
        PROVE  closed \subseteq closed' /\ broker' = broker
    BY <1>3 DEF Close, Acked, Unsent
  <1>4. ASSUME NEW m \in Messages, StanzaSent(m) PROVE closed' = closed /\ broker' = broker
    BY <1>4 DEF StanzaSent, SetState
  <1>5. ASSUME NEW m \in Messages, NEW arrives \in BOOLEAN, Transmit(m, arrives)
        PROVE  closed' = closed /\ broker' = broker
    BY <1>5 DEF Transmit
  <1>6. ASSUME NEW counted \in BOOLEAN, SessionLost(counted)
        PROVE  closed' = closed /\ broker' = broker
    BY <1>6 DEF SessionLost
  <1>7. CASE Resumed \/ RoomTakes \/ \E b \in Bodies : Echo(b)
    BY <1>7 DEF Resumed, RoomTakes, Echo
  <1>8. CASE Receive
    <2>1. closed' = closed /\ 1 \in DOMAIN inbound
      BY <1>8, ReceiveIs, ReceiveSpares
    <2>2. ASSUME NEW t \in Grouped, Match(t) PROVE broker' = broker
      BY <2>2, MatchIs
    <2>3. ASSUME NEW m \in Messages, inbound[1].kind = "error", inbound[1].of = m, HandleError(m)
          PROVE  broker' = broker
      <3>1. m \in server
        BY <2>1, <2>3 DEF ChannelsInv
      <3>2. state[m] # "aborted" /\ (m \in basic => m \notin closed)
        BY <3>1 DEF FatesInv
      <3>3. m \in basic => m \notin closed /\ Allowed(state[m], "error")
        BY <3>2 DEF Allowed
      <3>. QED
        BY <2>3, <3>3 DEF HandleError
    <2>4. ASSUME NEW m \in Messages, HandleReceipt(m) PROVE broker' = broker \/ closed \cap Chats # {}
      BY <2>4 DEF HandleReceipt, TypeOK
    <2>. QED
      BY <1>8, <2>1, <2>2, <2>3, <2>4, ReceiveIs
  <1>9. CASE UNCHANGED vars
    BY <1>9 DEF vars
  <1>. QED
    BY <1>1, <1>2, <1>3, <1>4, <1>5, <1>6, <1>7, <1>8, <1>9 DEF Next

-----------------------------------------------------------------------------
(* Results *)

LEMMA Initially == Init => Inv
  <1>. SUFFICES ASSUME Init PROVE Inv
    OBVIOUS
  <1>. USE DEF Init
  <1>1. TypeOK
    BY EmptyAt, TrackingBoundsAssumption DEF TypeOK
  <1>2. FatesInv /\ DeliveredIsTrue /\ BrokerSurvives
    BY DEF FatesInv, DeliveredIsTrue, BrokerSurvives
  <1>3. ChannelsInv /\ OnceInv /\ ListedInv
    BY DEF ChannelsInv, OnceInv, ListedInv, Messages
  <1>4. \A b \in Bodies : byBody[b] = <<>> /\ DOMAIN byBody[b] = {} /\ Len(byBody[b]) = 0
    OBVIOUS
  <1>5. TablesInv /\ AnsweredInv
    BY <1>4, FS_EmptySet DEF TablesInv, AnsweredInv
  <1>6. ExactTables
    BY <1>4 DEF ExactTables, Exactly
  <1>7. CountsInv
    <2>1. \A b : ListedAs(b) = {}
      BY DEF ListedAs
    <2>. QED
      BY <1>4, <2>1, FS_EmptySet DEF CountsInv
  <1>8. BodiesInv /\ QueueInv
    BY <1>4, <1>6 DEF BodiesInv, QueueInv, InOrder
  <1>. QED
    BY <1>1, <1>2, <1>3, <1>5, <1>7, <1>8 DEF Inv, MatchInv

LEMMA Inductive == Inv /\ [Next]_vars => Inv'
  <1>. SUFFICES ASSUME Inv, [Next]_vars PROVE Inv'
    OBVIOUS
  <1>1. TypeOK' /\ FatesInv' /\ ChannelsInv' /\ OnceInv' /\ ListedInv' /\ DeliveredIsTrue' /\ BrokerSurvives'
    BY TypesStep, FatesStep, ChannelsStep, OnceStep, ListedStep, DeliveredStep, BrokerStep DEF Inv
  <1>2. MatchInv'
    BY TablesStep, AnsweredStep, BodiesStep, CountsStep, QueueStep DEF Inv, MatchInv
  <1>. QED
    BY <1>1, <1>2 DEF Inv

\* The inductive invariant holds, for any messages, bodies and bounds.
THEOREM Invariance == Spec => []Inv
  BY Initially, Inductive, PTL DEF Spec

\* The variables keep their types: trackers, tokens, the tables and the stanzas.
THEOREM TypeCorrect == Spec => []TypeOK
  BY Invariance, PTL DEF Inv

\* A tracker says "delivered to the recipient" only if it was, as far as the ids tell
\* the messages apart. (Room._match_tracker, DeliveryReceiptsService)
THEOREM DeliveredIsTrueThm == Spec => []DeliveredIsTrue
  BY Invariance, PTL DEF Inv

\* No error reply and no receipt ends the broker, but a receipt for a tracker that was
\* closed. (BasicTrackingService and DeliveryReceiptsService, inbound filters)
THEOREM BrokerSurvivesThm == Spec => []BrokerSurvives
  BY Invariance, PTL DEF Inv

\* While the room's listener for messages is disconnected, there is a reason for it: a
\* tracker of the room was closed, or an untracked message arrived and a tracked one was
\* not reflected or its reflection lost. No order in which the room answers ends the matching by itself.
\* (Room._match_tracker and the tables it looks up)
THEOREM MatchingSurvivesThm == Spec => []MatchingSurvives
  <1>1. Inv => MatchingSurvives
    <2>. SUFFICES ASSUME Inv, ~dispatch, NoneClosed
                  PROVE  echoes > 0 /\ \E m \in Grouped : token[m] # "none" /\ (m \notin delivered \/ lost > 0)
      BY DEF MatchingSurvives, NoneClosed
    <2>1. ~rewrites /\ ~KnownById /\ ~Orderly
      BY DEF Inv, MatchInv, BodiesInv, CountsInv, QueueInv
    <2>2. echoes > 0
      BY <2>1 DEF KnownById, NoneClosed, Inv, TypeOK
    <2>3. CASE lost > 0
      BY <2>2, <2>3 DEF Inv, MatchInv, TablesInv
    <2>4. CASE lost = 0
      <3>1. PICK g \in Grouped : Doomed(g)
        BY <2>1, <2>4 DEF Orderly
      <3>2. g \in Messages
        BY BodyType
      <3>3. token[g] # "none" /\ g \notin delivered
        BY <3>1, <3>2 DEF Doomed, Inv, MatchInv, AnsweredInv, FatesInv
      <3>. QED
        BY <2>2, <3>3
    <2>. QED
      BY <2>3, <2>4 DEF Inv, TypeOK
  <1>. QED
    BY <1>1, Invariance, PTL

\* An aborted tracker is that of a message the server never had. (_stanza_sent)
THEOREM AbortedIsUndeliveredThm == Spec => []AbortedIsUndelivered
  <1>1. Inv => AbortedIsUndelivered
    BY DEF Inv, FatesInv, AbortedIsUndelivered
  <1>. QED
    BY <1>1, Invariance, PTL
=============================================================================
