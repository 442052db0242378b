---------------------------- MODULE LookupProofs ----------------------------
(***************************************************************************)
(* Proofs about Lookup, for any number of peers, callers, hashes and       *)
(* presences and any size of the cache: what a caller is given is genuine, *)
(* and Cache.lookup's loop ends but for a future that is not erased yet.   *)
(* The inductive invariant says what the caches may hold: a cached request *)
(* or lookup is one for the peer it is cached for, a known hash is one     *)
(* that an honest peer announced, and a future that is found for a hash    *)
(* was created for it, and its erasing is due if it is done.               *)
(***************************************************************************)
EXTENDS Lookup, TLAPS

\* The elements of the sequences of keys and of the callers' queues.
LEMMA ElementsOfSingleton ==
    ASSUME NEW S, NEW e \in S
    PROVE  <<e>> \in Seq(S) /\ ToSet(<<e>>) = {e} /\ IsInjective(<<e>>)
  BY DEF ToSet, IsInjective

LEMMA InSequence ==
    ASSUME NEW S, NEW s \in Seq(S), NEW i \in 1..Len(s)
    PROVE  s[i] \in ToSet(s)
  BY DEF ToSet

LEMMA ElementsInSet ==
    ASSUME NEW S, NEW s \in Seq(S)
    PROVE  /\ ToSet(s) \subseteq S
           /\ s # <<>> => Head(s) \in ToSet(s)
           /\ ToSet(s) = {} <=> s = <<>>
  BY DEF ToSet

-----------------------------------------------------------------------------
(* The inductive invariant *)

Begun(lk, l) == lk[l].at # "none"

\* What may be given to one who asked about p: p's information, or that of an honest
\* peer with which it shares a hash.
Genuine(lk, good, p, q) ==
    q = p \/ (q \in good /\ \E l, m \in Lookups :
        /\ Begun(lk, l) /\ Begun(lk, m) /\ lk[l].peer = p /\ lk[m].peer = q
        /\ ToSet(lk[l].keys) \cap ToSet(lk[m].keys) # {})

Asked(cl, c) == cl[c].at \in {"owns", "ok", "failed"}

\* What may be cached for p.
EntryFor(lk, cl, e, p) ==
    \/ e.kind = "lookup" /\ e.of \in Lookups /\ Begun(lk, e.of) /\ lk[e.of].peer = p
    \/ e.kind = "request" /\ e.of \in Callers /\ Asked(cl, e.of) /\ cl[e.of].peer = p

GoodItem(lk, cl) == {x \in Item : EntryFor(lk, cl, x.entry, x.peer)}

CallerGood(cl, lk, good, c) ==
    /\ cl[c].at \in {"awaits", "owns"} => cl[c].peer \in Peers /\ cl[c].on \in Entry
    /\ cl[c].at = "owns" => cl[c].on = Request(c)
    /\ cl[c].at = "awaits" => EntryFor(lk, cl, cl[c].on, cl[c].peer)
    /\ cl[c].at = "ok" => Genuine(lk, good, cl[c].peer, cl[c].got)

LookupGood(lk, fu, good, l) ==
    /\ Begun(lk, l) => lk[l].peer \in Peers /\ lk[l].keys # <<>>
    /\ fu[l] # "none" => lk[l].at \in {"leads", "ok", "failed", "cancelled"}
    /\ fu[l] = "data" => lk[l].at = "ok" /\ lk[l].got = lk[l].peer /\ lk[l].peer \in good
    /\ lk[l].at = "waits" =>
          /\ lk[l].on \in Lookups /\ lk[l].i >= 1 /\ fu[lk[l].on] # "none"
          /\ Begun(lk, lk[l].on) /\ Head(lk[lk[l].on].keys) \in ToSet(lk[l].keys)
    /\ lk[l].at = "ok" => Genuine(lk, good, lk[l].peer, lk[l].got)

KnownGood(kn, lk, good, k) == kn[k] # Nobody =>
    /\ kn[k] \in good
    /\ \E m \in Lookups : Begun(lk, m) /\ lk[m].peer = kn[k] /\ k \in ToSet(lk[m].keys)

PendingGood(pe, lk, fu, er, k) == pe[k] # 0 =>
    /\ fu[pe[k]] # "none" /\ Begun(lk, pe[k]) /\ Head(lk[pe[k]].keys) = k
    /\ fu[pe[k]] # "pending" => pe[k] \in er

InfoInv == info \in Seq(GoodItem(lookup, caller))
CacheInv == \A k \in Keys : /\ KnownGood(known, lookup, honest, k)
                            /\ PendingGood(pending, lookup, fut, erase, k)
CallerInv == \A c \in Callers : CallerGood(caller, lookup, honest, c)
LookupInv == \A l \in Lookups : LookupGood(lookup, fut, honest, l)

Inv == TypeOK /\ InfoInv /\ CacheInv /\ CallerInv /\ LookupInv /\ LoopEnds

-----------------------------------------------------------------------------
(* What every step keeps *)

\* A lookup keeps its peer and its hashes, and a caller that made a request its peer.
Grows(lk, lk2) == \A l \in Lookups : Begun(lk, l) =>
    Begun(lk2, l) /\ lk2[l].peer = lk[l].peer /\ lk2[l].keys = lk[l].keys
Settled(cl, cl2) == \A c \in Callers : Asked(cl, c) =>
    Asked(cl2, c) /\ cl2[c].peer = cl[c].peer

LEMMA GenuineKept ==
    ASSUME NEW lk, NEW lk2, NEW good, NEW p, NEW q, Grows(lk, lk2), Genuine(lk, good, p, q)
    PROVE  Genuine(lk2, good, p, q)
  BY DEF Genuine, Grows

LEMMA EntryKept ==
    ASSUME NEW lk, NEW lk2, NEW cl, NEW cl2, NEW e, NEW p,
           Grows(lk, lk2), Settled(cl, cl2), EntryFor(lk, cl, e, p)
    PROVE  EntryFor(lk2, cl2, e, p)
  BY DEF EntryFor, Grows, Settled

LEMMA LargerSeq ==
    ASSUME NEW S, NEW T, S \subseteq T, NEW s \in Seq(S)
    PROVE  s \in Seq(T)
  OBVIOUS

LEMMA ItemsKept ==
    ASSUME NEW lk, NEW lk2, NEW cl, NEW cl2, Grows(lk, lk2), Settled(cl, cl2),
           NEW s \in Seq(GoodItem(lk, cl))
    PROVE  s \in Seq(GoodItem(lk2, cl2))
  <1>1. GoodItem(lk, cl) \subseteq GoodItem(lk2, cl2)
    BY EntryKept DEF GoodItem
  <1> QED
    BY <1>1, LargerSeq

LEMMA CallerKept ==
    ASSUME NEW cl, NEW cl2, NEW lk, NEW lk2, NEW good, NEW c \in Callers,
           Grows(lk, lk2), Settled(cl, cl2), cl2[c] = cl[c], CallerGood(cl, lk, good, c)
    PROVE  CallerGood(cl2, lk2, good, c)
  <1>1. cl[c].at = "awaits" => EntryFor(lk2, cl2, cl[c].on, cl[c].peer)
    BY EntryKept DEF CallerGood
  <1>2. cl[c].at = "ok" => Genuine(lk2, good, cl[c].peer, cl[c].got)
    BY GenuineKept DEF CallerGood
  <1> QED
    BY <1>1, <1>2 DEF CallerGood

\* A lookup is not disturbed by what happens to others, nor if its future is cancelled.
LEMMA LookupKept ==
    ASSUME NEW lk, NEW lk2, NEW fu, NEW fu2, NEW good, NEW l \in Lookups,
           Grows(lk, lk2), lk2[l] = lk[l], LookupGood(lk, fu, good, l),
           fu2[l] = fu[l] \/ (fu[l] # "none" /\ fu2[l] = "cancelled"),
           \A m \in Lookups : fu[m] # "none" => fu2[m] # "none"
    PROVE  LookupGood(lk2, fu2, good, l)
  <1>1. lk[l].at = "ok" => Genuine(lk2, good, lk[l].peer, lk[l].got)
    BY GenuineKept DEF LookupGood
  <1>2. lk[l].at = "waits" => /\ fu2[lk[l].on] # "none" /\ Begun(lk2, lk[l].on)
                              /\ lk2[lk[l].on].keys = lk[lk[l].on].keys
    BY DEF LookupGood, Grows
  <1>3. Begun(lk2, l) <=> Begun(lk, l)
    BY DEF Begun
  <1> QED
    BY <1>1, <1>2, <1>3 DEF LookupGood

LEMMA KnownKept ==
    ASSUME NEW kn, NEW kn2, NEW lk, NEW lk2, NEW good, NEW k \in Keys,
           Grows(lk, lk2), kn2[k] = kn[k], KnownGood(kn, lk, good, k)
    PROVE  KnownGood(kn2, lk2, good, k)
  BY DEF KnownGood, Grows

\* A future that is done now, and was not before, is to be erased.
LEMMA PendingKept ==
    ASSUME NEW pe, NEW pe2, NEW lk, NEW lk2, NEW fu, NEW fu2, NEW er, NEW er2, NEW k \in Keys,
           Grows(lk, lk2), pe2[k] = pe[k], pe[k] \in Lookups \cup {0},
           pe[k] # 0 => fu2[pe[k]] = fu[pe[k]] \/ (fu2[pe[k]] # "none" /\ pe[k] \in er2),
           er \subseteq er2, PendingGood(pe, lk, fu, er, k)
    PROVE  PendingGood(pe2, lk2, fu2, er2, k)
  BY DEF PendingGood, Grows

LEMMA Unchanging ==
    /\ \A lk : Grows(lk, lk)
    /\ \A cl : Settled(cl, cl)
  BY DEF Grows, Settled

-----------------------------------------------------------------------------
(* The cache of requests: what is in it stays in it, or goes *)

LEMMA RemovedItem ==
    ASSUME NEW S, NEW s \in Seq(S), NEW i \in 1..Len(s)
    PROVE  RemoveAt(s, i) \in Seq(S)
  <1>1. SubSeq(s, 1, i - 1) \in Seq(S) /\ SubSeq(s, i + 1, Len(s)) \in Seq(S)
    OBVIOUS
  <1> QED
    BY <1>1 DEF RemoveAt

LEMMA FoundItem ==
    ASSUME NEW S, S \subseteq Item, info \in Seq(S), NEW p, Has(p)
    PROVE  /\ Position(p) \in 1..Len(info) /\ info[Position(p)] \in S
           /\ info[Position(p)].peer = p /\ info[Position(p)].entry = Value(p)
  <1>1. Position(p) \in DOMAIN info /\ info[Position(p)].peer = p
    BY DEF Has, Position
  <1> QED
    BY <1>1 DEF Value

LEMMA UsedItems ==
    ASSUME NEW S, S \subseteq Item, info \in Seq(S), NEW p, Has(p)
    PROVE  Used(p) \in Seq(S)
  <1> DEFINE i == Position(p)
             rest == RemoveAt(info, i)
  <1>1. i \in 1..Len(info) /\ info[i] \in S
    BY FoundItem
  <1>2. rest \in Seq(S)
    BY <1>1, RemovedItem
  <1>3. <<info[i]>> \in Seq(S)
    BY <1>1, ElementsOfSingleton
  <1> HIDE DEF rest
  <1>4. <<info[i]>> \o rest \in Seq(S)
    BY <1>2, <1>3
  <1> QED
    BY <1>4 DEF Used, rest

LEMMA ForgottenItems ==
    ASSUME NEW S, S \subseteq Item, info \in Seq(S), NEW c, NEW p
    PROVE  Forgotten(c, p) \in Seq(S)
  <1>1. Has(p) => Position(p) \in 1..Len(info)
    BY FoundItem
  <1>2. Has(p) => RemoveAt(info, Position(p)) \in Seq(S)
    BY <1>1, RemovedItem
  <1>3. Has(p) => Used(p) \in Seq(S)
    BY UsedItems
  <1> QED
    BY <1>2, <1>3 DEF Forgotten

LEMMA StoredItems ==
    ASSUME NEW S, S \subseteq Item, info \in Seq(S), NEW p, NEW e,
           [peer |-> p, entry |-> e] \in S
    PROVE  Stored(p, e) \in Seq(S)
  <1> DEFINE x == [peer |-> p, entry |-> e]
             all == <<x>> \o info
  <1>1. CASE Has(p)
    <2> DEFINE i == Position(p)
    <2>1. i \in 1..Len(info) /\ info[i] \in Item /\ info[i].peer = p
      BY <1>1, FoundItem
    <2>2. [info[i] EXCEPT !.entry = e] = x
      BY <2>1 DEF Item
    <2>3. Stored(p, e) = [info EXCEPT ![i] = x]
      BY <1>1, <2>1, <2>2 DEF Stored
    <2> HIDE DEF x, i
    <2>4. x \in S
      BY DEF x
    <2>5. [info EXCEPT ![i] = x] \in Seq(S)
      BY <2>1, <2>4
    <2> QED
      BY <2>3, <2>5
  <1>2. CASE ~Has(p)
    <2>1. <<x>> \in Seq(S)
      BY ElementsOfSingleton
    <2>2. all \in Seq(S) /\ Len(all) \in Nat
      BY <2>1
    <2>3. CacheSize \in Nat
      BY LookupAssumption
    <2> HIDE DEF all
    <2>4. SubSeq(all, 1, IF Len(all) > CacheSize THEN CacheSize ELSE Len(all)) \in Seq(S)
      BY <2>2, <2>3
    <2> QED
      BY <1>2, <2>4 DEF Stored, all
  <1> QED
    BY <1>1, <1>2

-----------------------------------------------------------------------------
(* Steps *)

LEMMA Entries ==
    /\ \A c \in Callers : Request(c) \in Entry
    /\ \A l \in Lookups : Lookup(l) \in Entry
    /\ \A e \in Entry : \/ e.kind = "request" /\ e.of \in Callers
                        \/ e.kind = "lookup" /\ e.of \in Lookups
  BY DEF Entry, Request, Lookup

LEMMA ItemsIn ==
    ASSUME Inv, NEW cl
    PROVE  /\ GoodItem(lookup, cl) \subseteq Item
           /\ Settled(caller, cl) => info \in Seq(GoodItem(lookup, cl))
           /\ \A x \in GoodItem(lookup, cl) : EntryFor(lookup, cl, x.entry, x.peer) /\ x \in Item
  <1>1. Settled(caller, cl) => info \in Seq(GoodItem(lookup, cl))
    BY ItemsKept, Unchanging DEF Inv, InfoInv
  <1> QED
    BY <1>1 DEF GoodItem

\* Steps of callers, and others that leave the futures and the known hashes alone.
LEMMA CallersMove ==
    ASSUME Inv, ~hung, honest' = honest, up' \in BOOLEAN, faults' \in 0..MaxFaults,
           caller' \in [Callers -> CallerState], request' \in [Callers -> Outcome],
           lookup' \in [Lookups -> LookupState], query' \in [Lookups -> Outcome],
           Grows(lookup, lookup'), info' \in Seq(GoodItem(lookup', caller')),
           CallerInv', LookupInv', UNCHANGED <<fut, erase, cacheVars, hung>>
    PROVE  Inv'
  <1>1. GoodItem(lookup', caller') \subseteq Item
    BY DEF GoodItem
  <1>2. info' \in Seq(Item)
    BY <1>1, LargerSeq
  <1>3. TypeOK'
    BY <1>2 DEF Inv, TypeOK, cacheVars
  <1>4. CacheInv'
    <2> SUFFICES ASSUME NEW k \in Keys
                 PROVE  /\ KnownGood(known', lookup', honest', k)
                        /\ PendingGood(pending', lookup', fut', erase', k)
      BY DEF CacheInv
    <2>1. KnownGood(known, lookup, honest, k) /\ PendingGood(pending, lookup, fut, erase, k)
      BY DEF Inv, CacheInv
    <2>2. pending[k] \in Lookups \cup {0}
      BY DEF Inv, TypeOK
    <2> QED
      BY <2>1, <2>2, KnownKept, PendingKept DEF cacheVars
  <1>5. LoopEnds'
    BY DEF LoopEnds
  <1> QED
    BY <1>3, <1>4, <1>5 DEF Inv, InfoInv

\* Steps of lookups, and others that leave the callers and the cache of requests alone.
LEMMA LookupsMove ==
    ASSUME Inv, honest' = honest, up' \in BOOLEAN, faults' \in 0..MaxFaults,
           request' \in [Callers -> Outcome],
           lookup' \in [Lookups -> LookupState], query' \in [Lookups -> Outcome],
           fut' \in [Lookups -> {"none", "pending", "data", "mismatch", "cancelled"}],
           erase' \subseteq Lookups, known' \in [Keys -> Peers \cup {Nobody}],
           pending' \in [Keys -> Lookups \cup {0}], hung' \in BOOLEAN,
           Grows(lookup, lookup'), LookupInv', CacheInv', LoopEnds', UNCHANGED <<caller, info>>
    PROVE  Inv'
  <1>1. TypeOK'
    BY DEF Inv, TypeOK
  <1>2. info' \in Seq(GoodItem(lookup', caller'))
    BY ItemsKept, Unchanging DEF Inv, InfoInv
  <1>3. CallerInv'
    <2> SUFFICES ASSUME NEW c \in Callers PROVE CallerGood(caller', lookup', honest', c)
      BY DEF CallerInv
    <2>1. CallerGood(caller, lookup, honest, c)
      BY DEF Inv, CallerInv
    <2> QED
      BY <2>1, CallerKept, Unchanging
  <1> QED
    BY <1>1, <1>2, <1>3 DEF Inv, InfoInv

LEMMA RequestMade ==
    ASSUME Inv, NEW c \in Callers, caller[c].at \in {"idle", "awaits"}, NEW p \in Peers,
           MakeRequest(c, p)
    PROVE  /\ caller' \in [Callers -> CallerState] /\ request' \in [Callers -> Outcome]
           /\ info' \in Seq(GoodItem(lookup, caller'))
           /\ \A d \in Callers : CallerGood(caller', lookup, honest, d)
  <1> DEFINE e == Request(c)
             x == [caller[c] EXCEPT !.at = "owns", !.peer = p, !.on = e]
             cl == [caller EXCEPT ![c] = x]
  <1>1. e \in Entry /\ e.kind = "request" /\ e.of = c
    BY Entries DEF Request
  <1>2. caller[c] \in CallerState /\ caller \in [Callers -> CallerState]
    BY DEF Inv, TypeOK
  <1>3. caller' = cl
    BY DEF MakeRequest
  <1>4. request' \in [Callers -> Outcome]
    BY DEF MakeRequest, Inv, TypeOK, Outcome
  <1> HIDE DEF e
  <1>5. /\ x \in CallerState /\ x.at = "owns" /\ x.peer = p /\ x.on = e
    BY <1>1, <1>2 DEF CallerState
  <1> HIDE DEF x
  <1>6. cl \in [Callers -> CallerState] /\ cl[c] = x /\ \A d \in Callers : d # c => cl[d] = caller[d]
    BY <1>2, <1>5
  <1> HIDE DEF cl
  <1>7. Settled(caller, cl)
    BY <1>6 DEF Settled, Asked
  <1>8. [peer |-> p, entry |-> e] \in GoodItem(lookup, cl)
    BY <1>1, <1>5, <1>6 DEF GoodItem, Item, EntryFor, Asked
  <1>9. info' \in Seq(GoodItem(lookup, cl))
    BY <1>7, <1>8, ItemsIn, StoredItems DEF MakeRequest, e
  <1>10. \A d \in Callers : CallerGood(cl, lookup, honest, d)
    <2> SUFFICES ASSUME NEW d \in Callers PROVE CallerGood(cl, lookup, honest, d)
      OBVIOUS
    <2>1. CASE d = c
      BY <1>1, <1>5, <1>6, <2>1 DEF CallerGood, e
    <2>2. CASE d # c
      BY <1>6, <1>7, <2>2, CallerKept, Unchanging DEF Inv, CallerInv
    <2> QED
      BY <2>1, <2>2
  <1> QED
    BY <1>3, <1>4, <1>6, <1>9, <1>10

\* A lookup that goes on keeps its peer and its hashes.
LEMMA Changed ==
    ASSUME Inv, NEW l \in Lookups, Begun(lookup, l), NEW x \in LookupState, x.at # "none",
           x.peer = lookup[l].peer, x.keys = lookup[l].keys
    PROVE  LET lk == [lookup EXCEPT ![l] = x]
           IN  /\ lk \in [Lookups -> LookupState] /\ Grows(lookup, lk) /\ lk[l] = x
               /\ \A m \in Lookups : m # l => lk[m] = lookup[m]
  <1>1. lookup \in [Lookups -> LookupState]
    BY DEF Inv, TypeOK
  <1> QED
    BY <1>1 DEF Grows, Begun

\* If it is in order afterwards, then so are the others.
LEMMA OthersGood ==
    ASSUME Inv, NEW l \in Lookups, NEW lk, NEW fu2, Grows(lookup, lk),
           \A m \in Lookups : m # l => lk[m] = lookup[m] /\ fu2[m] = fut[m],
           fut[l] # "none" => fu2[l] # "none", LookupGood(lk, fu2, honest, l)
    PROVE  \A m \in Lookups : LookupGood(lk, fu2, honest, m)
  <1> SUFFICES ASSUME NEW m \in Lookups, m # l PROVE LookupGood(lk, fu2, honest, m)
    OBVIOUS
  <1>1. LookupGood(lookup, fut, honest, m)
    BY DEF Inv, LookupInv
  <1>2. \A n \in Lookups : fut[n] # "none" => fu2[n] # "none"
    OBVIOUS
  <1> QED
    BY <1>1, <1>2, LookupKept

LEMMA StartedGood ==
    ASSUME Inv, NEW e \in Entry
    PROVE  /\ Started(e) \in [Lookups -> LookupState] /\ Grows(lookup, Started(e))
           /\ \A l \in Lookups : LookupGood(Started(e), fut, honest, l)
  <1>1. CASE e.kind = "lookup" /\ lookup[e.of].at = "lazy"
    <2> DEFINE l == e.of
               x == [lookup[l] EXCEPT !.at = "ready"]
               lk == [lookup EXCEPT ![l] = x]
    <2>1. l \in Lookups
      BY <1>1, Entries
    <2>2. lookup[l] \in LookupState /\ lookup \in [Lookups -> LookupState]
      BY <2>1 DEF Inv, TypeOK
    <2>3. x \in LookupState /\ x.at = "ready" /\ x.peer = lookup[l].peer /\ x.keys = lookup[l].keys
      BY <2>2 DEF LookupState
    <2>4. Started(e) = lk
      BY <1>1 DEF Started
    <2> HIDE DEF x, l
    <2>5. Begun(lookup, l) /\ lookup[l].at = "lazy"
      BY <1>1 DEF Begun, l
    <2>6. /\ lk \in [Lookups -> LookupState] /\ Grows(lookup, lk) /\ lk[l] = x
          /\ \A m \in Lookups : m # l => lk[m] = lookup[m]
      BY <2>1, <2>3, <2>5, Changed
    <2>7. LookupGood(lookup, fut, honest, l)
      BY <2>1 DEF Inv, LookupInv
    <2> HIDE DEF lk
    <2>8. LookupGood(lk, fut, honest, l)
      BY <2>3, <2>5, <2>6, <2>7 DEF LookupGood, Begun
    <2>9. \A m \in Lookups : LookupGood(lk, fut, honest, m)
      BY <2>1, <2>6, <2>8, OthersGood
    <2> QED
      BY <2>4, <2>6, <2>9
  <1>2. CASE ~(e.kind = "lookup" /\ lookup[e.of].at = "lazy")
    <2>1. Started(e) = lookup
      BY <1>2 DEF Started
    <2> QED
      BY <2>1, Unchanging DEF Inv, TypeOK, LookupInv
  <1> QED
    BY <1>1, <1>2

LEMMA AskStep ==
    ASSUME Inv, ~hung, NEW c \in Callers, NEW p \in Peers, NEW requireFresh \in BOOLEAN,
           Ask(c, p, requireFresh)
    PROVE  Inv'
  <1>1. /\ caller[c].at = "idle" /\ UNCHANGED <<query, fut, erase, cacheVars, hung, env>>
    BY DEF Ask
  <1>2. /\ honest' = honest /\ up' \in BOOLEAN /\ faults' \in 0..MaxFaults
        /\ query' \in [Lookups -> Outcome]
    BY <1>1 DEF Inv, TypeOK, env
  <1>3. CASE ~requireFresh /\ Has(p)
    <2> DEFINE e == Value(p)
               x == [caller[c] EXCEPT !.at = "awaits", !.peer = p, !.on = e]
               cl == [caller EXCEPT ![c] = x]
    <2>1. /\ e \in Entry /\ EntryFor(lookup, caller, e, p)
          /\ Used(p) \in Seq(GoodItem(lookup, caller))
      <3>1. GoodItem(lookup, caller) \subseteq Item /\ info \in Seq(GoodItem(lookup, caller))
        BY ItemsIn DEF Inv, InfoInv
      <3>2. /\ Used(p) \in Seq(GoodItem(lookup, caller))
            /\ info[Position(p)] \in GoodItem(lookup, caller)
            /\ info[Position(p)].peer = p /\ info[Position(p)].entry = e
        BY <1>3, <3>1, UsedItems, FoundItem
      <3> QED
        BY <3>2 DEF GoodItem, Item
    <2>2. caller' = cl /\ info' = Used(p) /\ lookup' = Started(e) /\ request' = request
      BY <1>3 DEF Ask
    <2> HIDE DEF e
    <2>3. caller[c] \in CallerState /\ caller \in [Callers -> CallerState]
      BY DEF Inv, TypeOK
    <2>4. x \in CallerState /\ x.at = "awaits" /\ x.peer = p /\ x.on = e
      BY <2>1, <2>3 DEF CallerState
    <2> HIDE DEF x
    <2>5. cl \in [Callers -> CallerState] /\ cl[c] = x /\ \A d \in Callers : d # c => cl[d] = caller[d]
      BY <2>3, <2>4
    <2> HIDE DEF cl
    <2>6. Settled(caller, cl)
      BY <1>1, <2>5 DEF Settled, Asked
    <2> DEFINE lk == Started(e)
    <2>7. /\ lk \in [Lookups -> LookupState] /\ Grows(lookup, lk)
          /\ \A l \in Lookups : LookupGood(lk, fut, honest, l)
      BY <2>1, StartedGood
    <2> HIDE DEF lk
    <2>8. info' \in Seq(GoodItem(lk, cl))
      BY <2>1, <2>2, <2>6, <2>7, ItemsKept
    <2>9. \A d \in Callers : CallerGood(cl, lk, honest, d)
      <3> SUFFICES ASSUME NEW d \in Callers PROVE CallerGood(cl, lk, honest, d)
        OBVIOUS
      <3>1. CASE d = c
        <4>1. EntryFor(lk, cl, e, p)
          BY <2>1, <2>6, <2>7, EntryKept
        <4> QED
          BY <4>1, <2>1, <2>4, <2>5, <3>1 DEF CallerGood
      <3>2. CASE d # c
        BY <2>5, <2>6, <2>7, <3>2, CallerKept DEF Inv, CallerInv
      <3> QED
        BY <3>1, <3>2
    <2>10. lookup' = lk
      BY <2>2 DEF lk
    <2>11. request' \in [Callers -> Outcome]
      BY <2>2 DEF Inv, TypeOK
    <2> QED
      BY <1>1, <1>2, <2>2, <2>5, <2>7, <2>8, <2>9, <2>10, <2>11, CallersMove
      DEF CallerInv, LookupInv
  <1>4. CASE ~(~requireFresh /\ Has(p))
    <2>1. MakeRequest(c, p) /\ lookup' = lookup
      BY <1>4 DEF Ask
    <2>2. /\ caller' \in [Callers -> CallerState] /\ request' \in [Callers -> Outcome]
          /\ info' \in Seq(GoodItem(lookup, caller'))
          /\ \A d \in Callers : CallerGood(caller', lookup, honest, d)
      BY <1>1, <2>1, RequestMade
    <2> QED
      BY <1>1, <1>2, <2>1, <2>2, CallersMove, Unchanging
      DEF Inv, TypeOK, CallerInv, LookupInv
  <1> QED
    BY <1>3, <1>4

\* A caller returns, or raises.
LEMMA CallerEnds ==
    ASSUME Inv, NEW c \in Callers, NEW x \in CallerState, x.at \in {"ok", "failed"},
           x.peer = caller[c].peer, x.at = "ok" => Genuine(lookup, honest, x.peer, x.got)
    PROVE  LET cl == [caller EXCEPT ![c] = x]
           IN  /\ cl \in [Callers -> CallerState] /\ Settled(caller, cl)
               /\ \A d \in Callers : CallerGood(cl, lookup, honest, d)
  <1> DEFINE cl == [caller EXCEPT ![c] = x]
  <1>1. caller \in [Callers -> CallerState]
    BY DEF Inv, TypeOK
  <1>2. /\ cl \in [Callers -> CallerState] /\ cl[c] = x
        /\ \A d \in Callers : d # c => cl[d] = caller[d]
    BY <1>1
  <1> HIDE DEF cl
  <1>3. Settled(caller, cl)
    BY <1>2 DEF Settled, Asked
  <1>4. \A d \in Callers : CallerGood(cl, lookup, honest, d)
    <2> SUFFICES ASSUME NEW d \in Callers PROVE CallerGood(cl, lookup, honest, d)
      OBVIOUS
    <2>1. CASE d = c
      BY <1>2, <2>1 DEF CallerGood
    <2>2. CASE d # c
      BY <1>2, <1>3, <2>2, CallerKept, Unchanging DEF Inv, CallerInv
    <2> QED
      BY <2>1, <2>2
  <1> QED
    BY <1>2, <1>3, <1>4 DEF cl

\* What an entry stands for, once it has ended, is genuine for whom it is cached for.
LEMMA DataGenuine ==
    ASSUME Inv, NEW e \in Entry, NEW p, EntryFor(lookup, caller, e, p), OutcomeOf(e) = "data"
    PROVE  Genuine(lookup, honest, p, DataOf(e)) /\ DataOf(e) \in Peers \cup {Nobody}
  <1>1. CASE e.kind = "request"
    <2>1. e.of \in Callers /\ caller[e.of].peer = p /\ DataOf(e) = p
      BY <1>1 DEF EntryFor, DataOf
    <2>2. caller[e.of] \in CallerState
      BY <2>1 DEF Inv, TypeOK
    <2> QED
      BY <2>1, <2>2 DEF Genuine, CallerState
  <1>2. CASE e.kind # "request"
    <2>1. e.of \in Lookups /\ lookup[e.of].peer = p /\ DataOf(e) = lookup[e.of].got
      BY <1>2 DEF EntryFor, DataOf
    <2>2. lookup[e.of].at = "ok"
      BY <1>2 DEF OutcomeOf
    <2>3. lookup[e.of] \in LookupState
      BY <2>1 DEF Inv, TypeOK
    <2> QED
      BY <2>1, <2>2, <2>3 DEF Inv, LookupInv, LookupGood, LookupState
  <1> QED
    BY <1>1, <1>2

LEMMA AwaitedStep ==
    ASSUME Inv, ~hung, NEW c \in Callers, Awaited(c)
    PROVE  Inv'
  <1> DEFINE e == caller[c].on
             p == caller[c].peer
  <1>1. caller[c].at = "awaits" /\ UNCHANGED <<lookupVars, cacheVars, hung, env>>
    BY DEF Awaited
  <1>2. /\ honest' = honest /\ up' \in BOOLEAN /\ faults' \in 0..MaxFaults
        /\ query' \in [Lookups -> Outcome] /\ lookup' = lookup
        /\ lookup' \in [Lookups -> LookupState] /\ LookupInv'
        /\ UNCHANGED <<query, fut, erase, known, pending, hung>>
    BY <1>1 DEF Inv, TypeOK, env, lookupVars, cacheVars, LookupInv
  <1>3. p \in Peers /\ e \in Entry /\ EntryFor(lookup, caller, e, p)
    BY <1>1 DEF Inv, CallerInv, CallerGood
  <1>4. caller[c] \in CallerState
    BY DEF Inv, TypeOK
  <1>5. ASSUME NEW x \in CallerState, x.at \in {"ok", "failed"}, x.peer = p,
               x.at = "ok" => Genuine(lookup, honest, x.peer, x.got),
               caller' = [caller EXCEPT ![c] = x], UNCHANGED <<request, info>>
        PROVE  Inv'
    <2>1. /\ caller' \in [Callers -> CallerState] /\ Settled(caller, caller')
          /\ \A d \in Callers : CallerGood(caller', lookup, honest, d)
      BY <1>5, CallerEnds
    <2>2. info' \in Seq(GoodItem(lookup, caller'))
      BY <1>5, <2>1, ItemsIn
    <2>3. request' \in [Callers -> Outcome]
      BY <1>5 DEF Inv, TypeOK
    <2> QED
      BY <1>2, <2>1, <2>2, <2>3, CallersMove, Unchanging DEF CallerInv, cacheVars
  <1> HIDE DEF e, p
  <1>6. CASE OutcomeOf(e) = "data" /\ caller' = [caller EXCEPT ![c].at = "ok", ![c].got = DataOf(e)]
             /\ UNCHANGED <<request, info>>
    <2> DEFINE x == [caller[c] EXCEPT !.at = "ok", !.got = DataOf(e)]
    <2>1. Genuine(lookup, honest, p, DataOf(e)) /\ DataOf(e) \in Peers \cup {Nobody}
      BY <1>3, <1>6, DataGenuine
    <2>2. x \in CallerState /\ x.at = "ok" /\ x.peer = p /\ x.got = DataOf(e)
      BY <1>4, <2>1 DEF CallerState, p
    <2>3. caller' = [caller EXCEPT ![c] = x]
      BY <1>6
    <2> QED
      BY <1>5, <1>6, <2>1, <2>2, <2>3
  <1>7. CASE caller' = [caller EXCEPT ![c].at = "failed"] /\ UNCHANGED <<request, info>>
    <2> DEFINE x == [caller[c] EXCEPT !.at = "failed"]
    <2>1. x \in CallerState /\ x.at = "failed" /\ x.peer = p
      BY <1>4 DEF CallerState, p
    <2>2. caller' = [caller EXCEPT ![c] = x]
      BY <1>7
    <2> QED
      BY <1>5, <1>7, <2>1, <2>2
  <1>8. CASE MakeRequest(c, p)
    <2>1. /\ caller' \in [Callers -> CallerState] /\ request' \in [Callers -> Outcome]
          /\ info' \in Seq(GoodItem(lookup, caller'))
          /\ \A d \in Callers : CallerGood(caller', lookup, honest, d)
      BY <1>1, <1>3, <1>8, RequestMade
    <2> QED
      BY <1>2, <2>1, CallersMove, Unchanging DEF CallerInv, cacheVars
  <1> QED
    BY <1>6, <1>7, <1>8 DEF Awaited, e, p

LEMMA OwnedStep ==
    ASSUME Inv, ~hung, NEW c \in Callers, Owned(c)
    PROVE  Inv'
  <1>1. caller[c].at = "owns" /\ UNCHANGED <<request, lookupVars, cacheVars, hung, env>>
    BY DEF Owned
  <1>2. /\ honest' = honest /\ up' \in BOOLEAN /\ faults' \in 0..MaxFaults
        /\ query' \in [Lookups -> Outcome] /\ request' \in [Callers -> Outcome]
        /\ lookup' = lookup /\ lookup' \in [Lookups -> LookupState] /\ LookupInv'
        /\ UNCHANGED <<query, fut, erase, known, pending, hung>>
    BY <1>1 DEF Inv, TypeOK, env, lookupVars, cacheVars, LookupInv
  <1>3. caller[c] \in CallerState
    BY DEF Inv, TypeOK
  <1>4. ASSUME NEW x \in CallerState, x.at \in {"ok", "failed"}, x.peer = caller[c].peer,
               x.at = "ok" => x.got = x.peer, caller' = [caller EXCEPT ![c] = x],
               info' = info \/ info' = Forgotten(c, caller[c].peer)
        PROVE  Inv'
    <2>1. x.at = "ok" => Genuine(lookup, honest, x.peer, x.got)
      BY <1>4 DEF Genuine
    <2>2. /\ caller' \in [Callers -> CallerState] /\ Settled(caller, caller')
          /\ \A d \in Callers : CallerGood(caller', lookup, honest, d)
      BY <1>4, <2>1, CallerEnds
    <2>3. info' \in Seq(GoodItem(lookup, caller'))
      BY <1>4, <2>2, ItemsIn, ForgottenItems
    <2> QED
      BY <1>2, <2>2, <2>3, CallersMove, Unchanging DEF CallerInv, cacheVars
  <1>5. CASE request[c] = "data"
    <2> DEFINE x == [caller[c] EXCEPT !.at = "ok", !.got = caller[c].peer]
    <2>1. x \in CallerState /\ x.at = "ok" /\ x.peer = caller[c].peer /\ x.got = x.peer
      BY <1>3 DEF CallerState
    <2>2. caller' = [caller EXCEPT ![c] = x] /\ info' = info
      BY <1>5 DEF Owned
    <2> QED
      BY <1>4, <2>1, <2>2
  <1>6. CASE request[c] # "data"
    <2> DEFINE x == [caller[c] EXCEPT !.at = "failed"]
    <2>1. x \in CallerState /\ x.at = "failed" /\ x.peer = caller[c].peer
      BY <1>3 DEF CallerState
    <2>2. caller' = [caller EXCEPT ![c] = x] /\ info' = Forgotten(c, caller[c].peer)
      BY <1>6 DEF Owned
    <2> QED
      BY <1>4, <2>1, <2>2
  <1> QED
    BY <1>5, <1>6

\* What the caches know stays true, and a future is found until it is erased.
LEMMA CacheKept ==
    ASSUME Inv, NEW lk, NEW fu2, NEW er2, Grows(lookup, lk), erase \subseteq er2,
           \A f \in Lookups : fu2[f] = fut[f] \/ (fu2[f] # "none" /\ f \in er2)
    PROVE  \A k \in Keys : /\ KnownGood(known, lk, honest, k)
                          /\ PendingGood(pending, lk, fu2, er2, k)
  <1> SUFFICES ASSUME NEW k \in Keys
               PROVE  KnownGood(known, lk, honest, k) /\ PendingGood(pending, lk, fu2, er2, k)
    OBVIOUS
  <1>1. KnownGood(known, lookup, honest, k) /\ PendingGood(pending, lookup, fut, erase, k)
    BY DEF Inv, CacheInv
  <1>2. pending[k] \in Lookups \cup {0}
    BY DEF Inv, TypeOK
  <1>3. pending[k] # 0 => fu2[pending[k]] = fut[pending[k]]
                          \/ (fu2[pending[k]] # "none" /\ pending[k] \in er2)
    BY <1>2
  <1> QED
    BY <1>1, <1>2, <1>3, KnownKept, PendingKept

LEMMA EndedGood ==
    ASSUME Inv, NEW l \in Lookups, Begun(lookup, l),
           NEW at \in {"ok", "failed", "cancelled"}, NEW q \in Peers \cup {Nobody}, NEW fu2,
           \A m \in Lookups : m # l => fu2[m] = fut[m], fut[l] # "none" => fu2[l] # "none",
           fu2[l] = "data" => at = "ok" /\ q = lookup[l].peer /\ q \in honest,
           at = "ok" => Genuine(lookup, honest, lookup[l].peer, q)
    PROVE  /\ Ended(l, at, q) \in [Lookups -> LookupState] /\ Grows(lookup, Ended(l, at, q))
           /\ \A m \in Lookups : LookupGood(Ended(l, at, q), fu2, honest, m)
  <1> DEFINE x == [lookup[l] EXCEPT !.at = at, !.got = q]
             lk == [lookup EXCEPT ![l] = x]
  <1>1. lookup[l] \in LookupState
    BY DEF Inv, TypeOK
  <1>2. /\ x \in LookupState /\ x.at = at /\ x.got = q
        /\ x.peer = lookup[l].peer /\ x.keys = lookup[l].keys
    BY <1>1 DEF LookupState
  <1>3. Ended(l, at, q) = lk
    BY DEF Ended
  <1> HIDE DEF x
  <1>4. /\ lk \in [Lookups -> LookupState] /\ Grows(lookup, lk) /\ lk[l] = x
        /\ \A m \in Lookups : m # l => lk[m] = lookup[m]
    BY <1>2, Changed
  <1> HIDE DEF lk
  <1>5. LookupGood(lk, fu2, honest, l)
    <2>1. at = "ok" => Genuine(lk, honest, lookup[l].peer, q)
      BY <1>4, GenuineKept
    <2>2. lookup[l].peer \in Peers /\ lookup[l].keys # <<>>
      BY DEF Inv, LookupInv, LookupGood
    <2> QED
      BY <1>2, <1>4, <2>1, <2>2 DEF LookupGood, Begun
  <1> QED
    BY <1>3, <1>4, <1>5, OthersGood

LEMMA PresenceStep ==
    ASSUME Inv, ~hung, NEW l \in Lookups, NEW p \in Peers, NEW keys \in Announcements,
           Presence(l, p, keys)
    PROVE  Inv'
  <1> DEFINE x == [lookup[l] EXCEPT !.at = "lazy", !.peer = p, !.keys = keys]
             lk == [lookup EXCEPT ![l] = x]
  <1>1. /\ lookup[l].at = "none" /\ lookup' = lk /\ info' = Stored(p, Lookup(l))
        /\ UNCHANGED <<callerVars, query, fut, erase, cacheVars, hung, env>>
    BY DEF Presence
  <1>2. /\ honest' = honest /\ up' \in BOOLEAN /\ faults' \in 0..MaxFaults
        /\ query' \in [Lookups -> Outcome] /\ request' \in [Callers -> Outcome]
        /\ caller' = caller /\ caller' \in [Callers -> CallerState]
    BY <1>1 DEF Inv, TypeOK, env, callerVars
  <1>3. lookup[l] \in LookupState /\ lookup \in [Lookups -> LookupState]
        /\ keys \in Seq(Keys) /\ keys # <<>>
    BY LookupAssumption DEF Inv, TypeOK
  <1>4. x \in LookupState /\ x.at = "lazy" /\ x.peer = p /\ x.keys = keys
    BY <1>3 DEF LookupState
  <1> HIDE DEF x
  <1>5. /\ lk \in [Lookups -> LookupState] /\ lk[l] = x
        /\ \A m \in Lookups : m # l => lk[m] = lookup[m]
    BY <1>3, <1>4
  <1> HIDE DEF lk
  <1>6. Grows(lookup, lk)
    BY <1>1, <1>5 DEF Grows, Begun
  <1>7. LookupGood(lookup, fut, honest, l)
    BY DEF Inv, LookupInv
  <1>8. LookupGood(lk, fut, honest, l)
    BY <1>1, <1>3, <1>4, <1>5, <1>7 DEF LookupGood
  <1>9. \A m \in Lookups : LookupGood(lk, fut, honest, m)
    BY <1>5, <1>6, <1>8, OthersGood
  <1>10. info \in Seq(GoodItem(lk, caller)) /\ GoodItem(lk, caller) \subseteq Item
    <2>1. info \in Seq(GoodItem(lk, caller))
      BY <1>6, ItemsKept, Unchanging DEF Inv, InfoInv
    <2> QED
      BY <2>1 DEF GoodItem
  <1>11. [peer |-> p, entry |-> Lookup(l)] \in GoodItem(lk, caller)
    <2>1. Lookup(l) \in Entry /\ Lookup(l).kind = "lookup" /\ Lookup(l).of = l
      BY Entries DEF Lookup
    <2> QED
      BY <1>4, <1>5, <2>1 DEF GoodItem, Item, EntryFor, Begun
  <1>12. Stored(p, Lookup(l)) \in Seq(GoodItem(lk, caller))
    BY <1>10, <1>11, StoredItems
  <1>13. \A c \in Callers : CallerGood(caller, lk, honest, c)
    BY <1>6, CallerKept, Unchanging DEF Inv, CallerInv
  <1> QED
    BY <1>1, <1>2, <1>5, <1>6, <1>9, <1>12, <1>13, CallersMove DEF CallerInv, LookupInv

-----------------------------------------------------------------------------
(* Steps of the lookups *)

Looking(l) == lookup[l].at \in {"ready", "waits"}

LEMMA Fields ==
    ASSUME Inv, NEW l \in Lookups
    PROVE  /\ lookup[l] \in LookupState /\ lookup[l].keys \in Seq(Keys)
           /\ LookupGood(lookup, fut, honest, l)
           /\ Begun(lookup, l) => /\ lookup[l].peer \in Peers /\ lookup[l].keys # <<>>
                                  /\ Head(lookup[l].keys) \in Keys
                                  /\ Head(lookup[l].keys) \in ToSet(lookup[l].keys)
  <1>1. lookup[l] \in LookupState /\ LookupGood(lookup, fut, honest, l)
    BY DEF Inv, TypeOK, LookupInv
  <1>2. lookup[l].keys \in Seq(Keys)
    BY <1>1 DEF LookupState
  <1> QED
    BY <1>1, <1>2, ElementsInSet DEF LookupGood

LEMMA LeadStep ==
    ASSUME Inv, NEW l \in Lookups, Looking(l), Lead(l), UNCHANGED <<callerVars, info, env>>
    PROVE  Inv'
  <1> DEFINE x == [lookup[l] EXCEPT !.at = "leads"]
             lk == [lookup EXCEPT ![l] = x]
             fu == [fut EXCEPT ![l] = "pending"]
             k1 == Head(lookup[l].keys)
             pe == [pending EXCEPT ![k1] = l]
  <1>1. /\ lookup' = lk /\ fut' = fu /\ pending' = pe
        /\ query' = [query EXCEPT ![l] = "asked"] /\ UNCHANGED <<erase, known, hung>>
    BY DEF Lead
  <1>2. /\ honest' = honest /\ up' \in BOOLEAN /\ faults' \in 0..MaxFaults
        /\ query' \in [Lookups -> Outcome] /\ request' \in [Callers -> Outcome]
        /\ erase' \subseteq Lookups /\ known' \in [Keys -> Peers \cup {Nobody}]
        /\ hung' \in BOOLEAN /\ UNCHANGED <<caller, info>>
    BY <1>1 DEF Inv, TypeOK, env, callerVars, Outcome
  <1>3. Begun(lookup, l) /\ fut[l] = "none"
    BY Fields DEF Looking, Begun, LookupGood
  <1>4. lookup[l] \in LookupState /\ k1 \in Keys /\ lookup[l].peer \in Peers /\ lookup[l].keys # <<>>
    BY <1>3, Fields
  <1>5. x \in LookupState /\ x.at = "leads" /\ x.peer = lookup[l].peer /\ x.keys = lookup[l].keys
    BY <1>4 DEF LookupState
  <1>6. /\ fu \in [Lookups -> {"none", "pending", "data", "mismatch", "cancelled"}]
        /\ fu[l] = "pending" /\ \A m \in Lookups : m # l => fu[m] = fut[m]
    BY DEF Inv, TypeOK
  <1>7. /\ pe \in [Keys -> Lookups \cup {0}] /\ pe[k1] = l
        /\ \A k \in Keys : k # k1 => pe[k] = pending[k]
    BY <1>4 DEF Inv, TypeOK
  <1> HIDE DEF x, fu, pe
  <1>8. /\ lk \in [Lookups -> LookupState] /\ Grows(lookup, lk) /\ lk[l] = x
        /\ \A m \in Lookups : m # l => lk[m] = lookup[m]
    BY <1>3, <1>5, Changed
  <1> HIDE DEF lk
  <1>9. LookupGood(lk, fu, honest, l)
    BY <1>4, <1>5, <1>6, <1>8 DEF LookupGood
  <1>10. \A m \in Lookups : LookupGood(lk, fu, honest, m)
    BY <1>6, <1>8, <1>9, OthersGood
  <1>11. \A k \in Keys : KnownGood(known, lk, honest, k) /\ PendingGood(pe, lk, fu, erase, k)
    <2> SUFFICES ASSUME NEW k \in Keys
                 PROVE  KnownGood(known, lk, honest, k) /\ PendingGood(pe, lk, fu, erase, k)
      OBVIOUS
    <2>1. KnownGood(known, lookup, honest, k) /\ PendingGood(pending, lookup, fut, erase, k)
      BY DEF Inv, CacheInv
    <2>2. KnownGood(known, lk, honest, k)
      BY <2>1, <1>8, KnownKept
    <2>3. CASE k = k1
      <3>1. pe[k] = l /\ fu[l] = "pending" /\ Begun(lk, l) /\ Head(lk[l].keys) = k
        BY <1>5, <1>6, <1>7, <1>8, <2>3 DEF Begun
      <3> QED
        BY <3>1, <2>2 DEF PendingGood
    <2>4. CASE k # k1
      <3>1. pending[k] \in Lookups \cup {0} /\ pe[k] = pending[k]
        BY <1>7, <2>4 DEF Inv, TypeOK
      <3>2. pending[k] # 0 => pending[k] # l
        BY <1>3, <2>1 DEF PendingGood
      <3>3. pending[k] # 0 => fu[pending[k]] = fut[pending[k]]
        BY <1>6, <3>1, <3>2
      <3> QED
        BY <1>8, <2>1, <2>2, <3>1, <3>3, PendingKept
    <2> QED
      BY <2>3, <2>4
  <1>12. LoopEnds'
    BY <1>1, <1>3, <1>6 DEF Inv, LoopEnds, TypeOK
  <1> QED
    BY <1>1, <1>2, <1>6, <1>7, <1>8, <1>10, <1>11, <1>12, LookupsMove DEF LookupInv, CacheInv

\* What is found among the futures was created for the hash it is found by.
LEMMA FoundFuture ==
    ASSUME Inv, NEW k \in Keys, pending[k] # 0
    PROVE  LET f == pending[k]
           IN  /\ f \in Lookups /\ fut[f] # "none" /\ Begun(lookup, f)
               /\ Head(lookup[f].keys) = k /\ (fut[f] # "pending" => f \in erase)
  BY DEF Inv, TypeOK, CacheInv, PendingGood

\* A future's data is genuine for every lookup that has its hash.
LEMMA SharedGenuine ==
    ASSUME Inv, NEW l \in Lookups, NEW f \in Lookups, Begun(lookup, l), fut[f] = "data",
           Head(lookup[f].keys) \in ToSet(lookup[l].keys)
    PROVE  /\ lookup[f].got \in Peers \cup {Nobody}
           /\ Genuine(lookup, honest, lookup[l].peer, lookup[f].got)
  <1>1. lookup[f].at = "ok" /\ lookup[f].got = lookup[f].peer /\ lookup[f].peer \in honest
    BY Fields DEF LookupGood
  <1>2. Begun(lookup, f)
    BY <1>1 DEF Begun
  <1>3. Head(lookup[f].keys) \in ToSet(lookup[f].keys) /\ lookup[f].peer \in Peers
    BY <1>2, Fields
  <1> QED
    BY <1>1, <1>2, <1>3 DEF Genuine

\* The world around the caches changes no more than it may.
EnvOK == honest' = honest /\ up' \in BOOLEAN /\ faults' \in 0..MaxFaults

LEMMA EnvFixed == Inv /\ UNCHANGED env => EnvOK
  BY DEF Inv, TypeOK, env, EnvOK

LEMMA EndedStep ==
    ASSUME Inv, NEW l \in Lookups, Begun(lookup, l), fut[l] # "data",
           NEW at \in {"ok", "failed", "cancelled"}, NEW q \in Peers \cup {Nobody},
           at = "ok" => Genuine(lookup, honest, lookup[l].peer, q),
           lookup' = Ended(l, at, q), EnvOK,
           UNCHANGED <<callerVars, info, query, fut, erase, cacheVars, hung>>
    PROVE  Inv'
  <1>1. /\ lookup' \in [Lookups -> LookupState] /\ Grows(lookup, lookup')
        /\ \A m \in Lookups : LookupGood(lookup', fut, honest, m)
    BY EndedGood
  <1>2. \A k \in Keys : /\ KnownGood(known, lookup', honest, k)
                       /\ PendingGood(pending, lookup', fut, erase, k)
    BY <1>1, CacheKept
  <1>3. /\ honest' = honest /\ up' \in BOOLEAN /\ faults' \in 0..MaxFaults
        /\ query' \in [Lookups -> Outcome] /\ request' \in [Callers -> Outcome]
        /\ fut' \in [Lookups -> {"none", "pending", "data", "mismatch", "cancelled"}]
        /\ pending' \in [Keys -> Lookups \cup {0}]
        /\ erase' \subseteq Lookups /\ known' \in [Keys -> Peers \cup {Nobody}]
        /\ hung' \in BOOLEAN /\ UNCHANGED <<caller, info, fut, erase, known, pending>>
    BY DEF Inv, TypeOK, EnvOK, callerVars, cacheVars
  <1>4. LoopEnds'
    BY <1>3 DEF Inv, LoopEnds
  <1> QED
    BY <1>1, <1>2, <1>3, <1>4, LookupsMove DEF LookupInv, CacheInv

LEMMA AwaitFutureStep ==
    ASSUME Inv, ~hung, NEW l \in Lookups, Looking(l), NEW j \in Nat, j >= 1, NEW f \in Lookups,
           fut[f] # "none", fut[f] # "pending" => f \in erase, Begun(lookup, f),
           Head(lookup[f].keys) \in ToSet(lookup[l].keys), AwaitFuture(l, j, f),
           UNCHANGED <<callerVars, info, env>>
    PROVE  Inv'
  <1>1. /\ hung' = (fut[f] = "mismatch") /\ UNCHANGED <<query, fut, erase, cacheVars>>
    BY DEF AwaitFuture
  <1>2. Begun(lookup, l) /\ fut[l] = "none"
    BY Fields DEF Looking, Begun, LookupGood
  <1>3. /\ honest' = honest /\ up' \in BOOLEAN /\ faults' \in 0..MaxFaults
        /\ query' \in [Lookups -> Outcome] /\ request' \in [Callers -> Outcome]
        /\ fut' \in [Lookups -> {"none", "pending", "data", "mismatch", "cancelled"}]
        /\ pending' \in [Keys -> Lookups \cup {0}]
        /\ erase' \subseteq Lookups /\ known' \in [Keys -> Peers \cup {Nobody}]
        /\ hung' \in BOOLEAN /\ UNCHANGED <<caller, info, fut, erase, known, pending>>
    BY <1>1 DEF Inv, TypeOK, env, callerVars, cacheVars
  <1>4. CASE fut[f] = "pending"
    <2> DEFINE x == [lookup[l] EXCEPT !.at = "waits", !.i = j, !.on = f]
               lk == [lookup EXCEPT ![l] = x]
    <2>1. lookup' = lk
      BY <1>4 DEF AwaitFuture
    <2>2. lookup[l] \in LookupState /\ lookup[l].peer \in Peers /\ lookup[l].keys # <<>>
      BY <1>2, Fields
    <2>3. /\ x \in LookupState /\ x.at = "waits" /\ x.i = j /\ x.on = f
          /\ x.peer = lookup[l].peer /\ x.keys = lookup[l].keys
      BY <2>2 DEF LookupState
    <2> HIDE DEF x
    <2>4. /\ lk \in [Lookups -> LookupState] /\ Grows(lookup, lk) /\ lk[l] = x
          /\ \A m \in Lookups : m # l => lk[m] = lookup[m]
      BY <1>2, <2>3, Changed
    <2> HIDE DEF lk
    <2>5. Begun(lk, f) /\ lk[f].keys = lookup[f].keys
      BY <2>4 DEF Grows
    <2>6. LookupGood(lk, fut, honest, l)
      BY <1>2, <2>2, <2>3, <2>4, <2>5 DEF LookupGood
    <2>7. \A m \in Lookups : LookupGood(lk, fut, honest, m)
      BY <2>4, <2>6, OthersGood
    <2>8. \A k \in Keys : KnownGood(known, lk, honest, k) /\ PendingGood(pending, lk, fut, erase, k)
      BY <2>4, CacheKept
    <2>9. LoopEnds'
      BY <1>1, <1>4 DEF LoopEnds
    <2> QED
      BY <1>3, <2>1, <2>4, <2>7, <2>8, <2>9, LookupsMove DEF LookupInv, CacheInv
  <1>5. CASE fut[f] = "data"
    <2>1. /\ lookup[f].got \in Peers \cup {Nobody}
          /\ Genuine(lookup, honest, lookup[l].peer, lookup[f].got)
      BY <1>2, <1>5, SharedGenuine
    <2>2. lookup' = Ended(l, "ok", lookup[f].got) /\ hung' = hung
      BY <1>5, <1>1 DEF AwaitFuture, Inv, TypeOK
    <2> QED
      BY <1>1, <1>2, <2>1, <2>2, EndedStep, EnvFixed
  <1>6. CASE fut[f] = "cancelled"
    <2>1. lookup' = Ended(l, "cancelled", Nobody) /\ hung' = hung
      BY <1>6, <1>1 DEF AwaitFuture, Inv, TypeOK
    <2> QED
      BY <1>1, <1>2, <2>1, EndedStep, EnvFixed
  <1>7. CASE fut[f] = "mismatch"
    <2>1. lookup' = lookup /\ f \in erase
      BY <1>7 DEF AwaitFuture
    <2>2. LoopEnds'
      BY <1>1, <1>7, <2>1 DEF LoopEnds
    <2>3. /\ lookup' \in [Lookups -> LookupState] /\ Grows(lookup, lookup')
          /\ LookupInv' /\ CacheInv'
      BY <1>3, <2>1, Unchanging DEF Inv, TypeOK, LookupInv, CacheInv
    <2> QED
      BY <1>3, <2>2, <2>3, LookupsMove
  <1> QED
    <2>1. fut[f] \in {"none", "pending", "data", "mismatch", "cancelled"}
      BY DEF Inv, TypeOK
    <2> QED
      BY <1>4, <1>5, <1>6, <1>7, <2>1

LEMMA SearchStep ==
    ASSUME Inv, ~hung, NEW l \in Lookups, Looking(l), NEW i \in Nat, i >= 1,
           NEW again \in BOOLEAN, Search(l, i, again), UNCHANGED <<callerVars, info, env>>
    PROVE  Inv'
  <1> DEFINE keys == lookup[l].keys
             inDatabase(j) == known[keys[j]] # Nobody /\ ~(again /\ j = i)
  <1>1. CASE Lead(l)
    BY <1>1, LeadStep
  <1>2. ASSUME NEW j \in i..Len(keys), inDatabase(j) \/ pending[keys[j]] # 0,
               IF inDatabase(j)
               THEN /\ lookup' = Ended(l, "ok", known[keys[j]])
                    /\ UNCHANGED <<query, fut, erase, cacheVars, hung>>
               ELSE AwaitFuture(l, j, pending[keys[j]])
        PROVE  Inv'
    <2>1. Begun(lookup, l) /\ fut[l] = "none"
      BY Fields DEF Looking, Begun, LookupGood
    <2>2. keys \in Seq(Keys)
      BY Fields
    <2>3. j \in Nat /\ j >= 1 /\ j \in 1..Len(keys)
      BY <2>2
    <2>4. keys[j] \in Keys /\ keys[j] \in ToSet(keys)
      BY <2>2, <2>3, InSequence
    <2>5. CASE inDatabase(j)
      <3> DEFINE q == known[keys[j]]
      <3>1. q \in Peers \cup {Nobody} /\ KnownGood(known, lookup, honest, keys[j]) /\ q # Nobody
        BY <2>4, <2>5 DEF Inv, TypeOK, CacheInv
      <3>2. PICK m \in Lookups : Begun(lookup, m) /\ lookup[m].peer = q /\ keys[j] \in ToSet(lookup[m].keys)
        BY <3>1 DEF KnownGood
      <3>3. q \in honest
        BY <3>1 DEF KnownGood
      <3> HIDE DEF q
      <3>4. Genuine(lookup, honest, lookup[l].peer, q)
        BY <2>1, <2>4, <3>2, <3>3 DEF Genuine
      <3>5. lookup' = Ended(l, "ok", q) /\ UNCHANGED <<query, fut, erase, cacheVars, hung>>
        BY <1>2, <2>5 DEF q
      <3> QED
        BY <2>1, <3>1, <3>4, <3>5, EndedStep, EnvFixed
    <2>6. CASE ~inDatabase(j)
      <3> DEFINE f == pending[keys[j]]
      <3>1. f # 0 /\ AwaitFuture(l, j, f)
        BY <1>2, <2>6
      <3>2. /\ f \in Lookups /\ fut[f] # "none" /\ Begun(lookup, f)
            /\ Head(lookup[f].keys) = keys[j] /\ (fut[f] # "pending" => f \in erase)
        BY <2>4, <3>1, FoundFuture
      <3> HIDE DEF f
      <3> QED
        BY <2>3, <2>4, <3>1, <3>2, AwaitFutureStep
    <2> QED
      BY <2>5, <2>6
  <1> QED
    BY <1>1, <1>2 DEF Search

LEMMA BeginStep ==
    ASSUME Inv, ~hung, NEW l \in Lookups, Begin(l)
    PROVE  Inv'
  <1>1. /\ Looking(l) /\ Search(l, 1, FALSE) /\ UNCHANGED <<callerVars, info, env>>
    BY DEF Begin, Looking
  <1>2. 1 \in Nat /\ 1 >= 1 /\ FALSE \in BOOLEAN
    OBVIOUS
  <1> QED
    BY <1>1, <1>2, SearchStep

LEMMA WokenStep ==
    ASSUME Inv, ~hung, NEW l \in Lookups, Woken(l)
    PROVE  Inv'
  <1> DEFINE f == lookup[l].on
  <1>1. lookup[l].at = "waits" /\ UNCHANGED <<callerVars, info, env>>
    BY DEF Woken
  <1>2. Looking(l) /\ Begun(lookup, l) /\ fut[l] = "none"
    BY <1>1, Fields DEF Looking, Begun, LookupGood
  <1>3. f \in Lookups /\ Head(lookup[f].keys) \in ToSet(lookup[l].keys)
        /\ lookup[l].i \in Nat /\ lookup[l].i >= 1
    BY <1>1, Fields DEF LookupGood, LookupState
  <1> HIDE DEF f
  <1>4. CASE fut[f] = "mismatch"
    <2>1. Search(l, lookup[l].i, TRUE)
      BY <1>4 DEF Woken, f
    <2> QED
      BY <1>1, <1>2, <1>3, <2>1, SearchStep
  <1>5. CASE fut[f] = "data"
    <2>1. /\ lookup[f].got \in Peers \cup {Nobody}
          /\ Genuine(lookup, honest, lookup[l].peer, lookup[f].got)
      BY <1>2, <1>3, <1>5, SharedGenuine
    <2>2. lookup' = Ended(l, "ok", lookup[f].got) /\ UNCHANGED <<query, fut, erase, cacheVars, hung>>
      BY <1>5 DEF Woken, f
    <2> QED
      BY <1>1, <1>2, <2>1, <2>2, EndedStep, EnvFixed
  <1>6. CASE fut[f] # "mismatch" /\ fut[f] # "data"
    <2>1. lookup' = Ended(l, "cancelled", Nobody) /\ UNCHANGED <<query, fut, erase, cacheVars, hung>>
      BY <1>6 DEF Woken, f
    <2> QED
      BY <1>1, <1>2, <2>1, EndedStep, EnvFixed
  <1> QED
    BY <1>4, <1>5, <1>6

LEMMA EraseFutureStep ==
    ASSUME Inv, ~hung, NEW l \in Lookups, EraseFuture(l)
    PROVE  Inv'
  <1> DEFINE k1 == Head(lookup[l].keys)
  <1>1. /\ erase' = erase \ {l}
        /\ pending' = IF pending[k1] = l THEN [pending EXCEPT ![k1] = 0] ELSE pending
        /\ UNCHANGED <<callerVars, lookup, query, fut, known, info, hung, env>>
    BY DEF EraseFuture
  <1> HIDE DEF k1
  <1>2. EnvOK
    BY <1>1, EnvFixed
  <1>3. /\ request' \in [Callers -> Outcome] /\ query' \in [Lookups -> Outcome]
        /\ lookup' \in [Lookups -> LookupState] /\ Grows(lookup, lookup')
        /\ fut' \in [Lookups -> {"none", "pending", "data", "mismatch", "cancelled"}]
        /\ erase' \subseteq Lookups /\ known' \in [Keys -> Peers \cup {Nobody}]
        /\ hung' \in BOOLEAN /\ LookupInv' /\ UNCHANGED <<caller, info>>
    BY <1>1, <1>2, Unchanging DEF Inv, TypeOK, callerVars, LookupInv, EnvOK
  <1>4. pending' \in [Keys -> Lookups \cup {0}]
    BY <1>1 DEF Inv, TypeOK
  <1>5. LoopEnds'
    BY <1>1 DEF LoopEnds
  <1>6. CacheInv'
    <2> SUFFICES ASSUME NEW k \in Keys
                 PROVE  /\ KnownGood(known', lookup', honest', k)
                        /\ PendingGood(pending', lookup', fut', erase', k)
      BY DEF CacheInv
    <2>1. KnownGood(known, lookup, honest, k)
      BY DEF Inv, CacheInv
    <2>2. pending'[k] = 0 \/ pending'[k] = pending[k]
      BY <1>1 DEF Inv, TypeOK
    <2>3. ASSUME pending'[k] # 0 PROVE pending'[k] = pending[k] /\ pending[k] # l
      <3>1. pending'[k] = pending[k]
        BY <2>2, <2>3
      <3>2. ASSUME pending[k] = l PROVE FALSE
        <4>1. k = k1
          BY <2>3, <3>1, <3>2, FoundFuture DEF k1
        <4>2. pending'[k] = 0
          BY <1>1, <3>2, <4>1 DEF Inv, TypeOK
        <4> QED
          BY <2>3, <4>2
      <3> QED
        BY <3>1, <3>2
    <2>4. PendingGood(pending', lookup, fut, erase', k)
      <3> SUFFICES ASSUME pending'[k] # 0 PROVE PendingGood(pending', lookup, fut, erase', k)
        BY DEF PendingGood
      <3>1. pending'[k] = pending[k] /\ pending[k] # l
        BY <2>3
      <3>2. PendingGood(pending, lookup, fut, erase, k)
        BY DEF Inv, CacheInv
      <3> QED
        BY <1>1, <3>1, <3>2 DEF PendingGood
    <2> QED
      BY <1>1, <1>2, <2>1, <2>4 DEF EnvOK
  <1> QED
    BY <1>2, <1>3, <1>4, <1>5, <1>6, LookupsMove DEF EnvOK

LEMMA QueryAnsweredStep ==
    ASSUME Inv, ~hung, NEW l \in Lookups, QueryAnswered(l)
    PROVE  Inv'
  <1> DEFINE k1 == Head(lookup[l].keys)
             p == lookup[l].peer
  <1>1. /\ lookup[l].at = "leads" /\ UNCHANGED <<callerVars, query, pending, info, hung, env>>
        /\ known' = IF Verify(l) THEN [known EXCEPT ![k1] = p] ELSE known
    BY DEF QueryAnswered
  <1>2. Begun(lookup, l) /\ fut[l] # "data"
    BY <1>1, Fields DEF LookupGood, Begun
  <1>3. p \in Peers /\ k1 \in Keys /\ k1 \in ToSet(lookup[l].keys)
    BY <1>2, Fields
  <1>4. Verify(l) <=> p \in honest
    BY DEF Verify
  <1>5. EnvOK
    BY <1>1, EnvFixed
  <1> HIDE DEF k1
  <1>6. /\ lookup' \in [Lookups -> LookupState] /\ Grows(lookup, lookup')
        /\ \A m \in Lookups : LookupGood(lookup', fut', honest, m)
        /\ fut' \in [Lookups -> {"none", "pending", "data", "mismatch", "cancelled"}]
        /\ erase' \subseteq Lookups /\ erase \subseteq erase'
        /\ \A f \in Lookups : fut'[f] = fut[f] \/ (fut'[f] # "none" /\ f \in erase')
    <2>1. CASE fut[l] = "pending"
      <3> DEFINE v == IF Verify(l) THEN "data" ELSE "mismatch"
      <3>1. /\ fut' = [fut EXCEPT ![l] = v] /\ erase' = erase \cup {l}
            /\ lookup' = Ended(l, "ok", p)
        BY <2>1 DEF QueryAnswered
      <3>2. v \in {"data", "mismatch"} /\ (v = "data" => p \in honest)
        BY <1>4
      <3> HIDE DEF v
      <3>3. /\ fut' \in [Lookups -> {"none", "pending", "data", "mismatch", "cancelled"}]
            /\ fut'[l] = v /\ \A m \in Lookups : m # l => fut'[m] = fut[m]
        BY <3>1, <3>2 DEF Inv, TypeOK
      <3>4. Genuine(lookup, honest, p, p)
        BY DEF Genuine
      <3>5. p \in Peers \cup {Nobody} /\ "ok" \in {"ok", "failed", "cancelled"}
        BY <1>3
      <3> HIDE DEF p
      <3>6. p = lookup[l].peer
        BY DEF p
      <3>7. /\ lookup' \in [Lookups -> LookupState] /\ Grows(lookup, lookup')
            /\ \A m \in Lookups : LookupGood(lookup', fut', honest, m)
        BY <1>2, <3>1, <3>2, <3>3, <3>4, <3>5, <3>6, EndedGood
      <3>8. erase' \subseteq Lookups /\ erase \subseteq erase' /\ l \in erase'
        BY <3>1 DEF Inv, TypeOK
      <3> QED
        BY <3>2, <3>3, <3>7, <3>8
    <2>2. CASE fut[l] # "pending"
      <3>1. lookup' = Ended(l, "failed", Nobody) /\ fut' = fut /\ erase' = erase
        BY <2>2 DEF QueryAnswered
      <3>2. /\ lookup' \in [Lookups -> LookupState] /\ Grows(lookup, lookup')
            /\ \A m \in Lookups : LookupGood(lookup', fut, honest, m)
        BY <1>2, <3>1, EndedGood
      <3> QED
        BY <3>1, <3>2 DEF Inv, TypeOK
    <2> QED
      BY <2>1, <2>2
  <1>7. \A k \in Keys : /\ KnownGood(known, lookup', honest, k)
                       /\ PendingGood(pending, lookup', fut', erase', k)
    BY <1>6, CacheKept
  <1>8. known' \in [Keys -> Peers \cup {Nobody}]
    BY <1>1, <1>3 DEF Inv, TypeOK
  <1>9. CacheInv'
    <2> SUFFICES ASSUME NEW k \in Keys
                 PROVE  /\ KnownGood(known', lookup', honest', k)
                        /\ PendingGood(pending', lookup', fut', erase', k)
      BY DEF CacheInv
    <2>1. PendingGood(pending', lookup', fut', erase', k)
      BY <1>1, <1>7
    <2>2. CASE known'[k] = known[k]
      <3>1. KnownGood(known', lookup', honest, k)
        BY <1>7, <2>2 DEF KnownGood
      <3> QED
        BY <1>5, <2>1, <3>1 DEF EnvOK
    <2>3. CASE known'[k] # known[k]
      <3>1. known'[k] = p /\ k = k1 /\ p \in honest
        BY <1>1, <1>4, <2>3 DEF Inv, TypeOK
      <3>2. Begun(lookup', l) /\ lookup'[l].peer = p /\ lookup'[l].keys = lookup[l].keys
        BY <1>2, <1>6 DEF Grows
      <3>3. KnownGood(known', lookup', honest, k)
        BY <1>3, <3>1, <3>2 DEF KnownGood
      <3> QED
        BY <1>5, <2>1, <3>3 DEF EnvOK
    <2> QED
      BY <2>2, <2>3
  <1>10. LookupInv'
    BY <1>5, <1>6 DEF LookupInv, EnvOK
  <1>11. LoopEnds'
    BY <1>1 DEF LoopEnds
  <1>12. /\ request' \in [Callers -> Outcome] /\ query' \in [Lookups -> Outcome]
         /\ pending' \in [Keys -> Lookups \cup {0}] /\ hung' \in BOOLEAN
         /\ UNCHANGED <<caller, info>>
    BY <1>1 DEF Inv, TypeOK, callerVars
  <1> QED
    BY <1>5, <1>6, <1>8, <1>9, <1>10, <1>11, <1>12, LookupsMove DEF EnvOK

LEMMA QueryFailedStep ==
    ASSUME Inv, ~hung, NEW l \in Lookups, QueryFailed(l)
    PROVE  Inv'
  <1>1. /\ lookup[l].at = "leads"
        /\ lookup' = Ended(l, "failed", Nobody) \/ lookup' = Ended(l, "cancelled", Nobody)
        /\ UNCHANGED <<callerVars, query, fut, erase, cacheVars, info, hung, env>>
    BY DEF QueryFailed
  <1>2. Begun(lookup, l) /\ fut[l] # "data"
    BY <1>1, Fields DEF LookupGood, Begun
  <1>3. EnvOK
    BY <1>1, EnvFixed
  <1>4. CASE lookup' = Ended(l, "failed", Nobody)
    BY <1>1, <1>2, <1>3, <1>4, EndedStep
  <1>5. CASE lookup' = Ended(l, "cancelled", Nobody)
    BY <1>1, <1>2, <1>3, <1>5, EndedStep
  <1> QED
    BY <1>1, <1>4, <1>5

-----------------------------------------------------------------------------
(* Cancellation, the peers and the stream *)

LEMMA CancelLookupStep ==
    ASSUME Inv, ~hung, NEW l \in Lookups, Begun(lookup, l), OutcomeOf(Lookup(l)) = "asked",
           CancelLookup(l), EnvOK, UNCHANGED <<callerVars, info, cacheVars, hung>>
    PROVE  Inv'
  <1>1. fut[l] # "data"
    BY Fields DEF LookupGood, OutcomeOf, Lookup
  <1>2. /\ request' \in [Callers -> Outcome] /\ hung' \in BOOLEAN
        /\ known' \in [Keys -> Peers \cup {Nobody}] /\ pending' \in [Keys -> Lookups \cup {0}]
        /\ UNCHANGED <<caller, info, known, pending>> /\ LoopEnds'
    BY DEF Inv, TypeOK, callerVars, cacheVars, LoopEnds
  <1>3. CASE lookup' = Ended(l, "cancelled", Nobody) /\ UNCHANGED <<query, fut, erase>>
    BY <1>1, <1>3, EndedStep
  <1>4. CASE /\ lookup[l].at = "waits" /\ fut[lookup[l].on] = "pending"
             /\ fut' = [fut EXCEPT ![lookup[l].on] = "cancelled"]
             /\ erase' = erase \cup {lookup[l].on} /\ UNCHANGED <<lookup, query>>
    <2> DEFINE f == lookup[l].on
    <2>1. f \in Lookups /\ fut[f] = "pending"
      BY <1>4, Fields DEF LookupGood
    <2>2. /\ fut' = [fut EXCEPT ![f] = "cancelled"] /\ erase' = erase \cup {f}
          /\ UNCHANGED <<lookup, query>>
      BY <1>4
    <2> HIDE DEF f
    <2>3. /\ fut' \in [Lookups -> {"none", "pending", "data", "mismatch", "cancelled"}]
          /\ fut'[f] = "cancelled" /\ \A m \in Lookups : m # f => fut'[m] = fut[m]
      BY <2>1, <2>2 DEF Inv, TypeOK
    <2>4. Grows(lookup, lookup)
      BY Unchanging
    <2>5. \A m \in Lookups : LookupGood(lookup, fut', honest, m)
      <3> SUFFICES ASSUME NEW m \in Lookups PROVE LookupGood(lookup, fut', honest, m)
        OBVIOUS
      <3>1. fut'[m] = fut[m] \/ (fut[m] # "none" /\ fut'[m] = "cancelled")
        BY <2>1, <2>3
      <3>2. \A n \in Lookups : fut[n] # "none" => fut'[n] # "none"
        BY <2>3
      <3> QED
        BY <2>4, <3>1, <3>2, Fields, LookupKept
    <2>6. /\ erase \subseteq erase' /\ erase' \subseteq Lookups
          /\ \A m \in Lookups : fut'[m] = fut[m] \/ (fut'[m] # "none" /\ m \in erase')
      BY <2>1, <2>2, <2>3 DEF Inv, TypeOK
    <2>7. \A k \in Keys : /\ KnownGood(known, lookup, honest, k)
                         /\ PendingGood(pending, lookup, fut', erase', k)
      BY <2>4, <2>6, CacheKept
    <2>8. CacheInv' /\ LookupInv'
      BY <1>2, <2>2, <2>5, <2>7 DEF CacheInv, LookupInv, EnvOK
    <2>9. /\ lookup' \in [Lookups -> LookupState] /\ query' \in [Lookups -> Outcome]
          /\ Grows(lookup, lookup')
      BY <2>2, <2>4 DEF Inv, TypeOK
    <2> QED
      BY <1>2, <2>3, <2>6, <2>8, <2>9, LookupsMove DEF EnvOK
  <1>5. CASE query' = [query EXCEPT ![l] = "cancelled"] /\ UNCHANGED <<lookup, fut, erase>>
    <2>1. /\ lookup' \in [Lookups -> LookupState] /\ query' \in [Lookups -> Outcome]
          /\ fut' \in [Lookups -> {"none", "pending", "data", "mismatch", "cancelled"}]
          /\ erase' \subseteq Lookups
      BY <1>5 DEF Inv, TypeOK, Outcome
    <2>2. Grows(lookup, lookup') /\ LookupInv' /\ CacheInv'
      BY <1>2, <1>5, Unchanging DEF Inv, LookupInv, CacheInv, EnvOK
    <2> QED
      BY <1>2, <2>1, <2>2, LookupsMove DEF EnvOK
  <1> QED
    BY <1>3, <1>4, <1>5 DEF CancelLookup

\* Steps that change how requests and queries ended, and nothing that is cached.
LEMMA OutcomesStep ==
    ASSUME Inv, ~hung, EnvOK, request' \in [Callers -> Outcome], query' \in [Lookups -> Outcome],
           info' = info \/ info' = <<>>,
           UNCHANGED <<caller, lookup, fut, erase, cacheVars, hung>>
    PROVE  Inv'
  <1>1. info' \in Seq(GoodItem(lookup', caller'))
    <2>1. <<>> \in Seq(GoodItem(lookup, caller))
      OBVIOUS
    <2> QED
      BY <2>1 DEF Inv, InfoInv
  <1>2. /\ caller' \in [Callers -> CallerState] /\ lookup' \in [Lookups -> LookupState]
        /\ Grows(lookup, lookup') /\ CallerInv' /\ LookupInv'
    BY Unchanging DEF Inv, TypeOK, CallerInv, LookupInv, EnvOK
  <1> QED
    BY <1>1, <1>2, CallersMove DEF EnvOK

LEMMA CancelStep ==
    ASSUME Inv, ~hung, NEW c \in Callers, Cancel(c)
    PROVE  Inv'
  <1> DEFINE e == caller[c].on
             p == caller[c].peer
  <1>1. faults < MaxFaults /\ faults' = faults + 1 /\ UNCHANGED <<cacheVars, hung, honest, up>>
    BY DEF Cancel
  <1>2. EnvOK
    BY <1>1, LookupAssumption DEF Inv, TypeOK, EnvOK
  <1>3. caller[c].at \in {"awaits", "owns"} => p \in Peers /\ e \in Entry
    BY DEF Inv, CallerInv, CallerGood
  <1>4. caller[c].at = "awaits" => EntryFor(lookup, caller, e, p)
    BY DEF Inv, CallerInv, CallerGood
  <1> HIDE DEF p
  <1>5. CASE /\ caller[c].at \in {"awaits", "owns"} /\ OutcomeOf(e) = "asked" /\ e.kind = "request"
             /\ request' = [request EXCEPT ![e.of] = "cancelled"] /\ UNCHANGED <<lookupVars, caller, info>>
    <2>1. request' \in [Callers -> Outcome] /\ query' \in [Lookups -> Outcome]
      BY <1>5 DEF Inv, TypeOK, Outcome, lookupVars
    <2> QED
      BY <1>1, <1>2, <1>5, <2>1, OutcomesStep DEF lookupVars
  <1>6. CASE /\ caller[c].at \in {"awaits", "owns"} /\ OutcomeOf(e) = "asked" /\ e.kind # "request"
             /\ CancelLookup(e.of) /\ UNCHANGED <<request, caller, info>>
    <2>1. e.kind = "lookup" /\ e.of \in Lookups
      BY <1>3, <1>6, Entries
    <2>2. OutcomeOf(Lookup(e.of)) = "asked"
      BY <1>6 DEF OutcomeOf, Lookup
    <2>3. CASE caller[c].at = "awaits"
      <3>1. Begun(lookup, e.of)
        BY <1>4, <2>1, <2>3 DEF EntryFor
      <3> QED
        BY <1>1, <1>2, <1>6, <2>1, <2>2, <3>1, CancelLookupStep DEF callerVars
    <2>4. CASE caller[c].at = "owns"
      <3>1. e = Request(c)
        BY <2>4 DEF Inv, CallerInv, CallerGood
      <3> QED
        BY <1>6, <3>1 DEF Request
    <2> QED
      BY <1>6, <2>3, <2>4
  <1>7. CASE caller[c].at = "awaits" /\ MakeRequest(c, p) /\ UNCHANGED lookupVars
    <2>1. /\ caller' \in [Callers -> CallerState] /\ request' \in [Callers -> Outcome]
          /\ info' \in Seq(GoodItem(lookup, caller'))
          /\ \A d \in Callers : CallerGood(caller', lookup, honest, d)
      BY <1>3, <1>7, RequestMade
    <2>2. /\ lookup' = lookup /\ lookup' \in [Lookups -> LookupState]
          /\ query' \in [Lookups -> Outcome] /\ LookupInv' /\ UNCHANGED <<fut, erase>>
      BY <1>2, <1>7 DEF Inv, TypeOK, lookupVars, LookupInv, EnvOK
    <2> QED
      BY <1>1, <1>2, <2>1, <2>2, CallersMove, Unchanging DEF CallerInv, EnvOK
  <1>8. CASE /\ caller[c].at = "owns" /\ caller' = [caller EXCEPT ![c].at = "failed"]
             /\ info' = Forgotten(c, p) /\ UNCHANGED <<request, lookupVars>>
    <2> DEFINE x == [caller[c] EXCEPT !.at = "failed"]
    <2>1. caller[c] \in CallerState
      BY DEF Inv, TypeOK
    <2>2. x \in CallerState /\ x.at = "failed" /\ x.peer = caller[c].peer
      BY <2>1 DEF CallerState
    <2>3. caller' = [caller EXCEPT ![c] = x]
      BY <1>8
    <2>4. caller[c].at = "owns"
      BY <1>8
    <2> HIDE DEF x
    <2>5. /\ caller' \in [Callers -> CallerState] /\ Settled(caller, caller')
          /\ \A d \in Callers : CallerGood(caller', lookup, honest, d)
      BY <2>2, <2>3, <2>4, CallerEnds
    <2>6. info' \in Seq(GoodItem(lookup, caller'))
      BY <1>8, <2>5, ItemsIn, ForgottenItems
    <2>7. /\ request' \in [Callers -> Outcome] /\ lookup' \in [Lookups -> LookupState]
          /\ query' \in [Lookups -> Outcome] /\ LookupInv' /\ UNCHANGED <<lookup, fut, erase>>
      BY <1>2, <1>8 DEF Inv, TypeOK, lookupVars, LookupInv, EnvOK
    <2> QED
      BY <1>1, <1>2, <2>6, <2>7, <2>5, CallersMove, Unchanging DEF CallerInv, EnvOK
  <1> QED
    BY <1>5, <1>6, <1>7, <1>8 DEF Cancel, p

LEMMA AnswersStep ==
    ASSUME Inv, ~hung, NEW answer \in Answers,
           (\E c \in Callers : RequestAnswered(c, answer))
           \/ (\E l \in Lookups : PeerAnswers(l, answer))
    PROVE  Inv'
  <1>1. answer \in Outcome /\ (answer = "error" => faults < MaxFaults)
    BY DEF Answers, Outcome
  <1>2. Counted(answer) /\ honest' = honest /\ up' = up
    BY DEF RequestAnswered, PeerAnswers
  <1>3. EnvOK
    BY <1>1, <1>2, LookupAssumption DEF Counted, Inv, TypeOK, EnvOK
  <1>4. request' \in [Callers -> Outcome] /\ query' \in [Lookups -> Outcome]
    BY <1>1 DEF RequestAnswered, PeerAnswers, callerVars, lookupVars, Inv, TypeOK
  <1>5. UNCHANGED <<caller, lookup, fut, erase, cacheVars, hung, info>>
    BY DEF RequestAnswered, PeerAnswers, callerVars, lookupVars
  <1> QED
    BY <1>3, <1>4, <1>5, OutcomesStep

LEMMA StreamStep ==
    ASSUME Inv, ~hung, StreamDestroyed \/ StreamEstablished
    PROVE  Inv'
  <1>1. CASE StreamDestroyed
    <2>1. EnvOK
      <3>1. faults < MaxFaults /\ faults' = faults + 1 /\ honest' = honest /\ up' = FALSE
        BY <1>1 DEF StreamDestroyed
      <3>2. faults \in 0..MaxFaults /\ MaxFaults \in Nat
        BY LookupAssumption DEF Inv, TypeOK
      <3>3. up' \in BOOLEAN
        BY <3>1
      <3> QED
        BY <3>1, <3>2, <3>3 DEF EnvOK
    <2>2. request' \in [Callers -> Outcome] /\ query' \in [Lookups -> Outcome]
      BY <1>1 DEF StreamDestroyed, Inv, TypeOK, Outcome
    <2>3. info' = <<>> /\ UNCHANGED <<caller, lookup, fut, erase, cacheVars, hung>>
      BY <1>1 DEF StreamDestroyed
    <2> QED
      BY <2>1, <2>2, <2>3, OutcomesStep
  <1>2. CASE StreamEstablished
    <2>1. EnvOK
      BY <1>2 DEF StreamEstablished, Inv, TypeOK, EnvOK
    <2>2. /\ request' \in [Callers -> Outcome] /\ query' \in [Lookups -> Outcome]
          /\ UNCHANGED <<caller, lookup, fut, erase, cacheVars, hung, info>>
      BY <1>2 DEF StreamEstablished, callerVars, lookupVars, Inv, TypeOK
    <2> QED
      BY <2>1, <2>2, OutcomesStep
  <1> QED
    BY <1>1, <1>2

-----------------------------------------------------------------------------
(* Theorems *)

LEMMA InitInv ==
    ASSUME Init
    PROVE  Inv
  <1>1. TypeOK
    <2>1. caller \in [Callers -> CallerState] /\ request \in [Callers -> Outcome]
      BY DEF Init, CallerState, Outcome
    <2>2. <<>> \in Seq(Keys)
      OBVIOUS
    <2>3. lookup \in [Lookups -> LookupState] /\ query \in [Lookups -> Outcome]
      BY <2>2 DEF Init, LookupState, Outcome
    <2>4. info \in Seq(Item)
      BY DEF Init
    <2>5. /\ fut \in [Lookups -> {"none", "pending", "data", "mismatch", "cancelled"}]
          /\ erase \subseteq Lookups
      BY DEF Init
    <2>6. known \in [Keys -> Peers \cup {Nobody}] /\ pending \in [Keys -> Lookups \cup {0}]
      BY DEF Init
    <2>7. honest \subseteq Peers /\ hung \in BOOLEAN /\ up \in BOOLEAN
      BY DEF Init
    <2>8. faults \in 0..MaxFaults
      BY LookupAssumption DEF Init
    <2> QED
      BY <2>1, <2>3, <2>4, <2>5, <2>6, <2>7, <2>8 DEF TypeOK
  <1>2. InfoInv
    BY DEF Init, InfoInv
  <1>3. CacheInv
    BY DEF Init, CacheInv, KnownGood, PendingGood
  <1>4. CallerInv
    BY DEF Init, CallerInv, CallerGood
  <1>5. LookupInv
    BY DEF Init, LookupInv, LookupGood, Begun
  <1>6. LoopEnds
    BY DEF Init, LoopEnds
  <1> QED
    BY <1>1, <1>2, <1>3, <1>4, <1>5, <1>6 DEF Inv

\* What is cached for a peer and known of a hash is what Inv says, in every state: the
\* inductive invariant the theorems below follow from.
THEOREM Invariance == Spec => []Inv
  <1>1. Init => Inv
    BY InitInv
  <1>2. Inv /\ [Next]_vars => Inv'
    <2> SUFFICES ASSUME Inv, [Next]_vars PROVE Inv'
      OBVIOUS
    <2>1. CASE UNCHANGED vars
      <3>1. UNCHANGED <<caller, request, lookup, query, fut, erase, known, pending, info, hung,
                        honest, up, faults>>
        BY <2>1 DEF vars, callerVars, lookupVars, cacheVars, env
      <3> QED
        BY <3>1 DEF Inv, TypeOK, InfoInv, CacheInv, CallerInv, LookupInv, LoopEnds
    <2>2. CASE Next
      BY <2>2, AskStep, AwaitedStep, OwnedStep, CancelStep, AnswersStep, PresenceStep, BeginStep,
         WokenStep, EraseFutureStep, QueryAnsweredStep, QueryFailedStep, StreamStep
      DEF Next, CallerSteps, LookupSteps
    <2> QED
      BY <2>1, <2>2
  <1> QED
    BY <1>1, <1>2, PTL DEF Spec

\* The state has its type, for any bounds and any size of the cache.
THEOREM TypeCorrect == Spec => []TypeOK
  <1>1. Inv => TypeOK
    BY DEF Inv
  <1> QED
    BY <1>1, Invariance, PTL

\* Nobody is given the information of a peer that does not vouch for it, whoever lies
\* about its hash, and whoever is cancelled or loses the stream (query_and_cache).
THEOREM AnswerIsGenuineThm == Spec => []AnswerIsGenuine
  <1>1. Inv => AnswerIsGenuine
    BY DEF Inv, CallerInv, CallerGood, Genuine, AnswerIsGenuine
  <1> QED
    BY <1>1, Invariance, PTL

\* Whatever lookups share a future, Cache.lookup repeats its loop for ever only on
\* one whose _erase_future is yet to be called.
THEOREM LoopEndsThm == Spec => []LoopEnds
  <1>1. Inv => LoopEnds
    BY DEF Inv
  <1> QED
    BY <1>1, Invariance, PTL
=============================================================================
