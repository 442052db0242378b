------------------------------- MODULE Lookup -------------------------------
(***************************************************************************)
(* Service discovery lookups: DiscoClient.query_info with its cache of     *)
(* requests that are under way or done, and the entity capabilities that   *)
(* put lookups by hash into it (EntityCapsService, with a Cache that is    *)
(* shared by everyone who waits for the same hash).                        *)
(*                                                                         *)
(* Three kinds of tasks wait for each other: callers of query_info, their  *)
(* requests, and the lookups that LazyTask starts for the first caller. An *)
(* action is what one of them does between two awaits, a done callback, a  *)
(* signal handler, or a step of the peers. A caller that finds what it     *)
(* awaits done goes on without yielding in the code, as a step of its own  *)
(* here. Not modelled: query_items, nodes other than None and those of the *)
(* hashes, no_cache for callers, the databases on disk.                    *)
(***************************************************************************)
EXTENDS Naturals, SequencesExt

CONSTANTS
    Peers,          \* addresses that can be queried
    Callers,        \* tasks of the application (numbers); each asks once
    Keys,           \* hashes announced in presence
    Announcements,  \* the sequences of hashes a presence may announce
    CacheSize,      \* info_cache_size
    MaxPresences,   \* bound: presences with hashes
    MaxFaults       \* bound: callers cancelled, streams lost, queries answered with an error

ASSUME LookupAssumption ==
    /\ Callers \subseteq Nat
    /\ Announcements \subseteq Seq(Keys)
    /\ \A a \in Announcements : a # <<>>
    /\ CacheSize \in Nat \ {0}
    /\ {MaxPresences, MaxFaults} \subseteq Nat

VARIABLES
    caller,    \* where each caller is, what it asks about and waits for, its answer
    request,   \* the request of each caller that made one: the state of its task
    lookup,    \* lookup_info for each presence: the state of its task
    query,     \* the query a lookup sent to the peer
    fut,       \* the future a lookup created with create_query_future
    erase,     \* lookups whose future is done and whose _erase_future is due
    known,     \* Cache._memory_overlay: the peer whose information a hash stands for
    pending,   \* Cache._lookup_cache: the lookup whose future a hash has
    info,      \* DiscoClient._info_pending, least recently used last
    honest,    \* the peers whose information has the hashes they announce
    hung,      \* the event loop is in Cache.lookup for ever
    up,        \* the stream is established
    faults     \* what the bound counts

Lookups == 1..MaxPresences
Nobody == "nobody"      \* no peer
Nothing == [kind |-> "nothing", of |-> 0]

callerVars == <<caller, request>>
lookupVars == <<lookup, query, fut, erase>>
cacheVars == <<known, pending>>
env == <<honest, up, faults>>
vars == <<callerVars, lookupVars, cacheVars, info, hung, env>>

Entry == [kind : {"lookup"}, of : Lookups] \cup [kind : {"request"}, of : Callers]
Outcome == {"none", "asked", "data", "error", "cancelled"}

CallerState == [at : {"idle", "awaits", "owns", "ok", "failed"}, peer : Peers \cup {Nobody},
                on : Entry \cup {Nothing}, got : Peers \cup {Nobody}]
LookupState == [at : {"none", "lazy", "ready", "waits", "leads", "ok", "failed", "cancelled"},
                peer : Peers \cup {Nobody}, keys : Seq(Keys), i : Nat,
                on : Lookups \cup {0}, got : Peers \cup {Nobody}]
Item == [peer : Peers, entry : Entry]

TypeOK ==
    /\ caller \in [Callers -> CallerState] /\ request \in [Callers -> Outcome]
    /\ lookup \in [Lookups -> LookupState] /\ query \in [Lookups -> Outcome]
    /\ fut \in [Lookups -> {"none", "pending", "data", "mismatch", "cancelled"}]
    /\ erase \subseteq Lookups
    /\ known \in [Keys -> Peers \cup {Nobody}] /\ pending \in [Keys -> Lookups \cup {0}]
    /\ info \in Seq(Item)
    /\ honest \subseteq Peers /\ hung \in BOOLEAN /\ up \in BOOLEAN
    /\ faults \in 0..MaxFaults

Init ==
    /\ caller = [c \in Callers |-> [at |-> "idle", peer |-> Nobody, on |-> Nothing, got |-> Nobody]]
    /\ request = [c \in Callers |-> "none"] /\ query = [l \in Lookups |-> "none"]
    /\ lookup = [l \in Lookups |-> [at |-> "none", peer |-> Nobody, keys |-> <<>>, i |-> 0,
                                    on |-> 0, got |-> Nobody]]
    /\ fut = [l \in Lookups |-> "none"] /\ erase = {}
    /\ known = [k \in Keys |-> Nobody] /\ pending = [k \in Keys |-> 0]
    /\ info = <<>> /\ hung = FALSE
    /\ honest \in SUBSET Peers /\ up = TRUE /\ faults = 0

-----------------------------------------------------------------------------
(* LRUDict: reading an entry is a use of it, setting one is not *)

Position(p) == CHOOSE i \in DOMAIN info : info[i].peer = p
Has(p) == \E i \in DOMAIN info : info[i].peer = p
Value(p) == info[Position(p)].entry

Used(p) == <<info[Position(p)]>> \o RemoveAt(info, Position(p))

Stored(p, e) ==
    IF Has(p) THEN [info EXCEPT ![Position(p)].entry = e]
    ELSE LET all == <<[peer |-> p, entry |-> e]>> \o info
         IN SubSeq(all, 1, IF Len(all) > CacheSize THEN CacheSize ELSE Len(all))

-----------------------------------------------------------------------------
(* DiscoClient.query_info *)

Request(c) == [kind |-> "request", of |-> c]
Lookup(l) == [kind |-> "lookup", of |-> l]

\* Makes a request and waits for it, whatever else is cached by now.
MakeRequest(c, p) ==
    /\ request' = [request EXCEPT ![c] = "asked"]
    /\ info' = Stored(p, Request(c))
    /\ caller' = [caller EXCEPT ![c].at = "owns", ![c].peer = p, ![c].on = Request(c)]

\* The first to await a LazyTask starts its task.
Started(e) ==
    IF e.kind = "lookup" /\ lookup[e.of].at = "lazy"
    THEN [lookup EXCEPT ![e.of].at = "ready"] ELSE lookup

Ask(c, p, requireFresh) ==
    /\ caller[c].at = "idle"
    /\ IF ~requireFresh /\ Has(p)
       THEN /\ caller' = [caller EXCEPT ![c].at = "awaits", ![c].peer = p, ![c].on = Value(p)]
            /\ info' = Used(p)
            /\ lookup' = Started(Value(p))
            /\ UNCHANGED request
       ELSE MakeRequest(c, p) /\ UNCHANGED lookup
    /\ UNCHANGED <<query, fut, erase, cacheVars, hung, env>>

\* How the task behind a cache entry ended, in the terms of a request.
OutcomeOf(e) ==
    IF e.kind = "request" THEN request[e.of]
    ELSE CASE lookup[e.of].at = "ok" -> "data"
           [] lookup[e.of].at = "failed" -> "error"
           [] lookup[e.of].at = "cancelled" -> "cancelled"
           [] OTHER -> "asked"

DataOf(e) == IF e.kind = "request" THEN caller[e.of].peer ELSE lookup[e.of].got

\* A caller that found an entry wakes up: it has the answer or the exception. If
\* what it awaited was cancelled, for whatever reason, it makes a request.
Awaited(c) ==
    /\ caller[c].at = "awaits"
    /\ LET e == caller[c].on IN
        \/ /\ OutcomeOf(e) = "data"
           /\ caller' = [caller EXCEPT ![c].at = "ok", ![c].got = DataOf(e)]
           /\ UNCHANGED <<request, info>>
        \/ /\ OutcomeOf(e) = "error"
           /\ caller' = [caller EXCEPT ![c].at = "failed"]
           /\ UNCHANGED <<request, info>>
        \/ OutcomeOf(e) = "cancelled" /\ MakeRequest(c, caller[c].peer)
    /\ UNCHANGED <<lookupVars, cacheVars, hung, env>>

\* Removes the caller's request for p from the cache, unless another has its place:
\* then looking at that was a use of it.
Forgotten(c, p) ==
    IF ~Has(p) THEN info
    ELSE IF Value(p) = Request(c) THEN RemoveAt(info, Position(p)) ELSE Used(p)

\* A caller wakes up from its own request. What failed is not kept.
Owned(c) ==
    /\ caller[c].at = "owns" /\ request[c] # "asked"
    /\ IF request[c] = "data"
       THEN /\ caller' = [caller EXCEPT ![c].at = "ok", ![c].got = caller[c].peer]
            /\ UNCHANGED info
       ELSE caller' = [caller EXCEPT ![c].at = "failed"] /\ info' = Forgotten(c, caller[c].peer)
    /\ UNCHANGED <<request, lookupVars, cacheVars, hung, env>>

-----------------------------------------------------------------------------
(* EntityCapsService and its Cache *)

\* handle_inbound_presence replaces the entry of the peer, whatever awaits it.
Presence(l, p, keys) ==
    /\ up /\ lookup[l].at = "none" /\ \A m \in Lookups : m < l => lookup[m].at # "none"
    /\ lookup' = [lookup EXCEPT ![l].at = "lazy", ![l].peer = p, ![l].keys = keys]
    /\ info' = Stored(p, Lookup(l))
    /\ UNCHANGED <<callerVars, query, fut, erase, cacheVars, hung, env>>

Ended(l, at, data) == [lookup EXCEPT ![l].at = at, ![l].got = data]

\* create_query_future and query_and_cache, up to its await: the first hash is
\* the one that is queried, even if somebody else has begun to by now.
Lead(l) ==
    /\ lookup' = [lookup EXCEPT ![l].at = "leads"]
    /\ query' = [query EXCEPT ![l] = "asked"]
    /\ fut' = [fut EXCEPT ![l] = "pending"]
    /\ pending' = [pending EXCEPT ![Head(lookup[l].keys)] = l]
    /\ UNCHANGED <<erase, known, hung>>

\* Cache.lookup awaits the future f of the i-th hash. A future that is done does
\* not suspend; if it has a mismatch and is not erased yet, the loop never ends.
AwaitFuture(l, i, f) ==
    /\ CASE fut[f] = "pending" ->
                lookup' = [lookup EXCEPT ![l].at = "waits", ![l].i = i, ![l].on = f]
         [] fut[f] = "data" -> lookup' = Ended(l, "ok", lookup[f].got)
         [] fut[f] = "cancelled" -> lookup' = Ended(l, "cancelled", Nobody)
         [] OTHER -> UNCHANGED lookup
    /\ hung' = (fut[f] = "mismatch")
    /\ UNCHANGED <<query, fut, erase, cacheVars>>

\* lookup_info from the i-th hash on. After a mismatch the loop of Cache.lookup
\* looks at the futures only.
Search(l, i, again) ==
    LET keys == lookup[l].keys
        inDatabase(j) == known[keys[j]] # Nobody /\ ~(again /\ j = i)
        found == {j \in i..Len(keys) : inDatabase(j) \/ pending[keys[j]] # 0}
    IN \/ found = {} /\ Lead(l)
       \/ \E j \in found :
            /\ \A k \in found : j <= k
            /\ IF inDatabase(j)
               THEN /\ lookup' = Ended(l, "ok", known[keys[j]])
                    /\ UNCHANGED <<query, fut, erase, cacheVars, hung>>
               ELSE AwaitFuture(l, j, pending[keys[j]])

Begin(l) ==
    /\ lookup[l].at = "ready" /\ Search(l, 1, FALSE)
    /\ UNCHANGED <<callerVars, info, env>>

\* The operators named Mutant... are plausible mistakes in the definition that
\* follows them. No action uses them; each must break one of the properties.

MutantWoken(l) ==   \* a lookup is not told that its future was cancelled
    /\ lookup[l].at = "waits"
    /\ LET f == lookup[l].on IN
        /\ fut[f] \notin {"pending", "cancelled"} /\ f \notin erase
        /\ IF fut[f] = "mismatch" THEN Search(l, lookup[l].i, TRUE)
           ELSE /\ lookup' = Ended(l, "ok", lookup[f].got)
                /\ UNCHANGED <<query, fut, erase, cacheVars, hung>>
    /\ UNCHANGED <<callerVars, info, env>>

\* The future is done and its first callback, _erase_future, has run.
Woken(l) ==
    /\ lookup[l].at = "waits"
    /\ LET f == lookup[l].on IN
        /\ fut[f] # "pending" /\ f \notin erase
        /\ CASE fut[f] = "mismatch" -> Search(l, lookup[l].i, TRUE)
             [] fut[f] = "data" -> /\ lookup' = Ended(l, "ok", lookup[f].got)
                                   /\ UNCHANGED <<query, fut, erase, cacheVars, hung>>
             [] OTHER -> /\ lookup' = Ended(l, "cancelled", Nobody)
                         /\ UNCHANGED <<query, fut, erase, cacheVars, hung>>
    /\ UNCHANGED <<callerVars, info, env>>

MutantEraseFuture(l) ==   \* erases the future of the hash that is found, not of the one queried
    /\ l \in erase /\ erase' = erase \ {l}
    /\ LET k == Last(lookup[l].keys) IN
        pending' = IF pending[k] = l THEN [pending EXCEPT ![k] = 0] ELSE pending
    /\ UNCHANGED <<callerVars, lookup, query, fut, known, info, hung, env>>

\* Cache._erase_future, the first done callback of the future of l.
EraseFuture(l) ==
    /\ l \in erase /\ erase' = erase \ {l}
    /\ LET k == Head(lookup[l].keys) IN
        pending' = IF pending[k] = l THEN [pending EXCEPT ![k] = 0] ELSE pending
    /\ UNCHANGED <<callerVars, lookup, query, fut, known, info, hung, env>>

MutantVerify(l) == TRUE   \* takes the peer's word for it

\* AbstractCacheKey.verify for what the peer of l answered.
Verify(l) == lookup[l].peer \in honest

\* query_and_cache goes on with the answer. Setting the future raises if a waiter
\* was cancelled, and the future with it.
QueryAnswered(l) ==
    /\ lookup[l].at = "leads" /\ query[l] = "data"
    /\ known' = IF Verify(l) THEN [known EXCEPT ![Head(lookup[l].keys)] = lookup[l].peer] ELSE known
    /\ IF fut[l] = "pending"
       THEN /\ fut' = [fut EXCEPT ![l] = IF Verify(l) THEN "data" ELSE "mismatch"]
            /\ erase' = erase \cup {l}
            /\ lookup' = Ended(l, "ok", lookup[l].peer)
       ELSE lookup' = Ended(l, "failed", Nobody) /\ UNCHANGED <<fut, erase>>
    /\ UNCHANGED <<callerVars, query, pending, info, hung, env>>

\* The query failed or was cancelled: nobody sets the future.
QueryFailed(l) ==
    /\ lookup[l].at = "leads" /\ query[l] \in {"error", "cancelled"}
    /\ lookup' = Ended(l, IF query[l] = "error" THEN "failed" ELSE "cancelled", Nobody)
    /\ UNCHANGED <<callerVars, query, fut, erase, cacheVars, info, hung, env>>

-----------------------------------------------------------------------------
(* Cancellation: a task that is cancelled cancels what it awaits, and awaits it *)

\* What the task of l awaits: nothing yet, a future (of which it may be about to be
\* told), or its query.
CancelLookup(l) ==
    CASE lookup[l].at = "ready" ->
            lookup' = Ended(l, "cancelled", Nobody) /\ UNCHANGED <<query, fut, erase>>
      [] lookup[l].at = "waits" /\ fut[lookup[l].on] = "pending" ->
            /\ fut' = [fut EXCEPT ![lookup[l].on] = "cancelled"]
            /\ erase' = erase \cup {lookup[l].on}
            /\ UNCHANGED <<lookup, query>>
      [] lookup[l].at = "waits" ->
            lookup' = Ended(l, "cancelled", Nobody) /\ UNCHANGED <<query, fut, erase>>
      [] OTHER -> query' = [query EXCEPT ![l] = "cancelled"] /\ UNCHANGED <<lookup, fut, erase>>

\* The application cancels a caller, or a timeout does (asyncio.wait_for, or the
\* timeout of query_info for its own request). One that awaits another's task
\* takes the cancellation for that task's and goes on with a request; one whose own
\* request is done by then raises, and what the request found is dropped.
Cancel(c) ==
    /\ faults < MaxFaults /\ faults' = faults + 1
    /\ LET e == caller[c].on IN
        \/ /\ caller[c].at \in {"awaits", "owns"} /\ OutcomeOf(e) = "asked"
           /\ IF e.kind = "request"
              THEN request' = [request EXCEPT ![e.of] = "cancelled"] /\ UNCHANGED lookupVars
              ELSE CancelLookup(e.of) /\ UNCHANGED request
           /\ UNCHANGED <<caller, info>>
        \/ /\ caller[c].at = "awaits" /\ OutcomeOf(e) # "asked"
           /\ MakeRequest(c, caller[c].peer)
           /\ UNCHANGED lookupVars
        \/ /\ caller[c].at = "owns" /\ OutcomeOf(e) # "asked"
           /\ caller' = [caller EXCEPT ![c].at = "failed"]
           /\ info' = Forgotten(c, caller[c].peer)
           /\ UNCHANGED <<request, lookupVars>>
    /\ UNCHANGED <<cacheVars, hung, honest, up>>

-----------------------------------------------------------------------------
(* The stream and the peers. Queries made while the stream is down wait for it. *)

Answers == {"data"} \cup IF faults < MaxFaults THEN {"error"} ELSE {}

Counted(answer) == faults' = faults + (IF answer = "error" THEN 1 ELSE 0)

RequestAnswered(c, answer) ==
    /\ up /\ request[c] = "asked"
    /\ request' = [request EXCEPT ![c] = answer]
    /\ Counted(answer)
    /\ UNCHANGED <<caller, lookupVars, cacheVars, info, hung, honest, up>>

PeerAnswers(l, answer) ==
    /\ up /\ query[l] = "asked"
    /\ query' = [query EXCEPT ![l] = answer]
    /\ Counted(answer)
    /\ UNCHANGED <<callerVars, lookup, fut, erase, cacheVars, info, hung, honest, up>>

\* Every query under way fails, and _clear_cache cancels the requests it finds.
\* Cancelling a LazyTask does not reach the task it started.
StreamDestroyed ==
    /\ up /\ up' = FALSE /\ faults < MaxFaults /\ faults' = faults + 1
    /\ request' = [c \in Callers |->
            IF request[c] # "asked" THEN request[c]
            ELSE IF \E i \in DOMAIN info : info[i].entry = Request(c) THEN "cancelled" ELSE "error"]
    /\ query' = [l \in Lookups |-> IF query[l] = "asked" THEN "error" ELSE query[l]]
    /\ info' = <<>>
    /\ UNCHANGED <<caller, lookup, fut, erase, cacheVars, hung, honest>>

StreamEstablished ==
    /\ ~up /\ up' = TRUE
    /\ UNCHANGED <<callerVars, lookupVars, cacheVars, info, hung, honest, faults>>

-----------------------------------------------------------------------------
(* Specification *)

CallerSteps(c) == Awaited(c) \/ Owned(c)
LookupSteps(l) == Begin(l) \/ Woken(l) \/ EraseFuture(l) \/ QueryAnswered(l) \/ QueryFailed(l)

Next ==
    /\ ~hung
    /\ \/ \E c \in Callers :
            \/ CallerSteps(c) \/ Cancel(c)
            \/ \E p \in Peers, requireFresh \in BOOLEAN : Ask(c, p, requireFresh)
            \/ \E answer \in Answers : RequestAnswered(c, answer)
       \/ \E l \in Lookups :
            \/ LookupSteps(l)
            \/ \E p \in Peers, keys \in Announcements : Presence(l, p, keys)
            \/ \E answer \in Answers : PeerAnswers(l, answer)
       \/ StreamDestroyed \/ StreamEstablished

\* The event loop runs every task that can go on, and every query is answered
\* while the stream is up; the client establishes the stream again.
Fairness ==
    /\ \A c \in Callers :
        /\ WF_vars(~hung /\ CallerSteps(c))
        /\ WF_vars(~hung /\ \E answer \in Answers : RequestAnswered(c, answer))
    /\ \A l \in Lookups :
        /\ WF_vars(~hung /\ LookupSteps(l))
        /\ WF_vars(~hung /\ \E answer \in Answers : PeerAnswers(l, answer))
    /\ WF_vars(~hung /\ StreamEstablished)

Spec == Init /\ [][Next]_vars /\ Fairness

-----------------------------------------------------------------------------
(* Properties *)

\* What a caller is given is the information of the peer it asked about, or of one
\* whose information was verified to have a hash that peer announced: a peer that lies
\* about its hash is believed by nobody who asks about another. (query_and_cache)
AnswerIsGenuine ==
    \A c \in Callers : caller[c].at = "ok" =>
        LET p == caller[c].peer
            q == caller[c].got
        IN q = p \/ (q \in honest /\ \E l, m \in Lookups :
                /\ lookup[l].peer = p /\ lookup[m].peer = q
                /\ ToSet(lookup[l].keys) \cap ToSet(lookup[m].keys) # {})

\* Cache.lookup tries again after a mismatch, and its loop ends: the future it saw is
\* no longer there, because _erase_future is called before those who wait. It does not
\* end for a lookup that finds the future done before it is erased, and for no other.
LoopEnds == hung => \E f \in erase : fut[f] = "mismatch"

\* A future that nobody will set: its creator has ended without doing so.
Orphaned(f) == fut[f] = "pending" /\ lookup[f].at \in {"failed", "cancelled"}

\* Whoever asks is answered: with the information, or with the exception. It waits for
\* ever only if the lookup it awaits waits for a future that was left behind by a query
\* that failed, or if the event loop hangs.
CallerIsAnswered ==
    \A c \in Callers :
        caller[c].at \in {"awaits", "owns"} ~>
            \/ caller[c].at \in {"ok", "failed"} \/ hung
            \/ \E l \in Lookups : lookup[l].at = "waits" /\ Orphaned(lookup[l].on)
=============================================================================
