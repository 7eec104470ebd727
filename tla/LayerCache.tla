----------------------------- MODULE LayerCache -----------------------------
(***************************************************************************)
(* app/layer_cache.py: a bounded cache with one producer slot per key, and *)
(* the callers, background refreshes and invalidating writers that share   *)
(* it.  /api/earnings reads through it; the user and admin watchlist       *)
(* writes commit and then invalidate it (app/routers/api.py).              *)
(*                                                                         *)
(* One action is one critical section of the cache's mutex, one wait or    *)
(* one part of a fetch.  The payload of a key is the version of the data   *)
(* it was read from.                                                       *)
(***************************************************************************)
EXTENDS Naturals, FiniteSets

CONSTANTS
  Keys,         \* cache keys; a key also names its background refresh thread
  Callers,      \* threads inside get_or_refresh
  NoOne,        \* the owner of a free slot
  MaxEntries,   \* max_entries
  MaxRequests,  \* bound: calls of get_or_refresh
  MaxWrites     \* bound: writes of each key's origin

ASSUME ConstantsAssumption ==
  /\ Keys \cap Callers = {} /\ NoOne \notin Keys \cup Callers
  /\ MaxEntries \in Nat \ {0} /\ MaxRequests \in Nat /\ MaxWrites \in Nat

VARIABLES
  entries,   \* _entries, without its order
  lru,       \* the order of _entries: of each key, the keys used less recently
  locks,     \* _locks: the producer that owns a key's slot
  tickets,   \* _tickets, 0 when absent
  applied,   \* _applied, 0 when absent
  thread,    \* callers and background refreshes
  origin,    \* version of the data behind each key
  unseen,    \* a write has committed and not invalidated yet
  floor,     \* history: version every request after the last invalidation must see
  idleFloor, \* history: the same, of invalidations that met no fetch of the key
  started,   \* history: fetches of a key that took a ticket
  requests   \* requests so far

vars == <<entries, lru, locks, tickets, applied, thread, origin, unseen, floor, idleFloor,
          started, requests>>

Producers == Callers \cup Keys
NoEntry   == [life |-> "none"]

\* life stands for the clock: fresh until expires_at, stale while stale_ttl
\* lasts, then expired.  seq is history: the number of the fetch that stored it.
Lives == {"fresh", "stale", "expired"}
Entry == [life : Lives, val : Nat, seq : Nat, stale : BOOLEAN]

Idle   == [pc |-> "idle"]
Thread ==
  [pc : {"check", "trigger", "begin", "slot", "wait", "fetch", "got", "failed", "fallback", "release",
         "served", "raised"},
   key : Keys, ticket : Nat, owns : BOOLEAN, val : Nat,
   seq : Nat,           \* history: number of this fetch
   old : BOOLEAN,       \* history: the key was forgotten since its ticket was taken
   floor : Nat, idleFloor : Nat]   \* history: floor and idleFloor at the start

At(t, pc)   == thread[t].pc = pc
GoTo(t, pc) == thread' = [thread EXCEPT ![t].pc = pc]
Key(t)      == thread[t].key
Stored      == {k \in Keys : entries[k] # NoEntry}
Live(k)     == locks[k] # NoOne
\* A fetch of k has read the origin and has not stored yet.
InFlight(k) == \E t \in Producers : At(t, "got") /\ Key(t) = k

\* Mutant of Touch: a key keeps its old place as well.
TouchAppends(order, k) == [order EXCEPT ![k] = Stored \ {k}]

\* move_to_end
Touch(order, k) == [x \in Keys |-> IF x = k THEN Stored \ {k} ELSE order[x] \ {k}]

Without(order, out) == [x \in Keys |-> IF x \in out THEN {} ELSE order[x] \ out]

\* Mutant of Victims: a key with a producer is evicted like any other.
VictimsLive(order, K) == {x \in K : Cardinality(order[x] \cup {x}) + MaxEntries <= Cardinality(K)}

\* _evict_locked, over the keys K with an entry: the least recently used keys without a
\* producer go, as many as the cap asks for or as there are.
Victims(order, K) ==
  {x \in K : /\ ~ Live(x)
             /\ Cardinality({y \in order[x] \cup {x} : ~ Live(y)}) + MaxEntries <= Cardinality(K)}

\* Mutant of Forget: the applied marker outlives its entry.
ForgetTickets(K) ==
  /\ tickets' = [k \in Keys |-> IF k \in K THEN 0 ELSE tickets[k]]
  /\ applied' = applied

\* _forget_key_locked, and the history: the threads that hold an older ticket.
Forget(K) ==
  /\ tickets' = [k \in Keys |-> IF k \in K THEN 0 ELSE tickets[k]]
  /\ applied' = [k \in Keys |-> IF k \in K THEN 0 ELSE applied[k]]
Outdated(th, K) ==
  [t \in Producers |-> IF th[t] # Idle /\ th[t].key \in K /\ th[t].ticket # 0
                       THEN [th[t] EXCEPT !.old = TRUE] ELSE th[t]]

----------------------------------------------------------------------------
(* get_or_refresh                                                          *)

\* Done with the call: only what the caller got is kept.
Done(t, pc, val) ==
  [thread[t] EXCEPT !.pc = pc, !.val = val, !.ticket = 0, !.seq = 0, !.owns = FALSE,
                    !.old = FALSE]

\* The entry is looked up, and a fresh one answers the call.
Lookup(t, k) ==
  /\ t \in Callers
  /\ thread[t].pc \in {"idle", "served", "raised"}
  /\ requests < MaxRequests
  /\ requests' = requests + 1
  /\ lru' = IF k \in Stored THEN Touch(lru, k) ELSE lru
  /\ LET e == entries[k]
         next == CASE e = NoEntry -> "begin" [] e.life = "fresh" -> "served" [] OTHER -> "check"
     IN thread' = [thread EXCEPT ![t] =
          [pc |-> next, key |-> k, ticket |-> 0, owns |-> FALSE,
           val |-> IF next = "begin" THEN 0 ELSE e.val, seq |-> 0, old |-> FALSE,
           floor |-> floor[k], idleFloor |-> idleFloor[k]]]
  /\ UNCHANGED <<entries, locks, tickets, applied, origin, unseen, floor, idleFloor, started>>

\* is_stale_valid reads the entry again, without the mutex; the snapshot the
\* caller goes on with is the one it looked up.
CheckStale(t) ==
  /\ At(t, "check")
  /\ GoTo(t, IF entries[Key(t)].life \in {"fresh", "stale"} THEN "trigger" ELSE "begin")
  /\ UNCHANGED <<entries, lru, locks, tickets, applied, origin, unseen, floor, idleFloor,
                 started, requests>>

\* _trigger_refresh: a background thread takes the slot unless it is owned, and
\* the stale snapshot answers the call.
Trigger(t) ==
  /\ At(t, "trigger")
  /\ LET k == Key(t) IN
     \/ /\ Live(k)
        /\ thread' = [thread EXCEPT ![t] = Done(t, "served", thread[t].val)]
        /\ UNCHANGED <<locks, tickets, started>>
     \/ /\ ~ Live(k)
        /\ locks' = [locks EXCEPT ![k] = k]
        /\ tickets' = [tickets EXCEPT ![k] = @ + 1]
        /\ started' = [started EXCEPT ![k] = @ + 1]
        /\ thread' = [thread EXCEPT
             ![t] = Done(t, "served", thread[t].val),
             ![k] = [pc |-> "fetch", key |-> k, ticket |-> tickets[k] + 1, owns |-> TRUE,
                     val |-> 0, seq |-> started[k] + 1, old |-> FALSE,
                     floor |-> 0, idleFloor |-> 0]]
  /\ UNCHANGED <<entries, lru, applied, origin, unseen, floor, idleFloor, requests>>

\* begin_fetch
Begin(t) ==
  /\ At(t, "begin")
  /\ LET k == Key(t) IN
     /\ tickets' = [tickets EXCEPT ![k] = @ + 1]
     /\ started' = [started EXCEPT ![k] = @ + 1]
     /\ thread' = [thread EXCEPT ![t].pc = "slot", ![t].ticket = tickets[k] + 1,
                                 ![t].seq = started[k] + 1]
  /\ UNCHANGED <<entries, lru, locks, applied, origin, unseen, floor, idleFloor, requests>>

\* Mutant of Slot: a slot whose producer has stored already is taken over.
SlotTakenOver(t) ==
  /\ At(t, "slot")
  /\ LET k == Key(t) IN
     \/ /\ IF Live(k) THEN At(locks[k], "release") ELSE TRUE
        /\ locks' = [locks EXCEPT ![k] = t]
        /\ thread' = [thread EXCEPT ![t].pc = "fetch", ![t].owns = TRUE]
     \/ /\ Live(k)
        /\ GoTo(t, "wait")
        /\ UNCHANGED locks
  /\ UNCHANGED <<entries, lru, tickets, applied, origin, unseen, floor, idleFloor, started, requests>>

\* _do_fetch: own the slot, or wait for its owner.
Slot(t) ==
  /\ At(t, "slot")
  /\ LET k == Key(t) IN
     \/ /\ ~ Live(k)
        /\ locks' = [locks EXCEPT ![k] = t]
        /\ thread' = [thread EXCEPT ![t].pc = "fetch", ![t].owns = TRUE]
     \/ /\ Live(k)
        /\ GoTo(t, "wait")
        /\ UNCHANGED locks
  /\ UNCHANGED <<entries, lru, tickets, applied, origin, unseen, floor, idleFloor, started, requests>>

\* The wait ends, with the owner or with waiter_timeout: any entry answers the
\* call, and without one the caller fetches, owning no slot.
WaitEnds(t) ==
  /\ At(t, "wait")
  /\ LET e == entries[Key(t)] IN
     thread' = [thread EXCEPT ![t] = IF e = NoEntry THEN [@ EXCEPT !.pc = "fetch"]
                                                    ELSE Done(t, "served", e.val)]
  /\ UNCHANGED <<entries, lru, locks, tickets, applied, origin, unseen, floor, idleFloor,
                 started, requests>>

\* The fetcher reads the origin, or raises.
FetchReads(t) ==
  /\ At(t, "fetch")
  /\ thread' = [thread EXCEPT ![t].pc = "got", ![t].val = origin[Key(t)]]
  /\ UNCHANGED <<entries, lru, locks, tickets, applied, origin, unseen, floor, idleFloor,
                 started, requests>>
FetchRaises(t) ==
  /\ At(t, "fetch")
  /\ GoTo(t, "failed")
  /\ UNCHANGED <<entries, lru, locks, tickets, applied, origin, unseen, floor, idleFloor,
                 started, requests>>

\* A caller or a background thread leaves get_or_refresh, or goes on to release
\* the slot it owns.
Finish(t, pc, val) ==
  IF thread[t].owns THEN [thread[t] EXCEPT !.pc = "release", !.val = val]
                    ELSE Done(t, pc, val)

\* Mutant of Overtaken: one ticket late.
OvertakenLate(t) == thread[t].ticket + 1 < applied[Key(t)]

\* put: the snapshot is dropped when one with a later ticket has been stored.
Overtaken(t) == thread[t].ticket < applied[Key(t)]
Put(t) ==
  /\ At(t, "got")
  /\ LET k == Key(t) IN
     \/ /\ Overtaken(t)
        /\ thread' = [thread EXCEPT ![t] = Finish(t, "served", @.val)]
        /\ UNCHANGED <<entries, lru, tickets, applied>>
     \/ /\ ~ Overtaken(t)
        /\ LET order == Touch(lru, k)
               out   == Victims(order, Stored \cup {k})
               new   == [life |-> "fresh", val |-> thread[t].val, seq |-> thread[t].seq,
                         stale |-> FALSE]
           IN /\ entries' = [x \in Keys |-> IF x \in out THEN NoEntry
                                            ELSE IF x = k THEN new ELSE entries[x]]
              /\ lru' = Without(order, out)
              /\ tickets' = [x \in Keys |-> IF x \in out THEN 0 ELSE tickets[x]]
              /\ applied' = [x \in Keys |-> IF x \in out THEN 0
                                            ELSE IF x = k THEN thread[t].ticket ELSE applied[x]]
              /\ thread' = Outdated([thread EXCEPT ![t] = Finish(t, "served", thread[t].val)], out)
  /\ UNCHANGED <<locks, origin, unseen, floor, idleFloor, started, requests>>

\* Mutant of MarkStale: no finally block, a failed refresh keeps its slot.
MarkStaleLeaks(t) ==
  /\ At(t, "failed")
  /\ LET k == Key(t) IN
     entries' = IF entries[k] = NoEntry \/ Overtaken(t) THEN entries
                ELSE [entries EXCEPT ![k].stale = TRUE]
  /\ thread' = [thread EXCEPT ![t] = IF t \in Keys THEN Idle ELSE [@ EXCEPT !.pc = "fallback"]]
  /\ UNCHANGED <<lru, locks, tickets, applied, origin, unseen, floor, idleFloor, started, requests>>

\* mark_stale, under the same ordering rule.
MarkStale(t) ==
  /\ At(t, "failed")
  /\ LET k == Key(t) IN
     entries' = IF entries[k] = NoEntry \/ Overtaken(t) THEN entries
                ELSE [entries EXCEPT ![k].stale = TRUE]
  /\ GoTo(t, IF t \in Keys THEN "release" ELSE "fallback")
  /\ UNCHANGED <<lru, locks, tickets, applied, origin, unseen, floor, idleFloor, started, requests>>

\* Mutant of Fallback: a failed fetch raises, whatever entry is there.
FallbackRaises(t) ==
  /\ At(t, "fallback")
  /\ thread' = [thread EXCEPT ![t] = Finish(t, "raised", 0)]
  /\ UNCHANGED <<entries, lru, locks, tickets, applied, origin, unseen, floor, idleFloor,
                 started, requests>>

\* A failed blocking fetch answers with whatever entry is there, or raises.
Fallback(t) ==
  /\ At(t, "fallback")
  /\ LET e == entries[Key(t)] IN
     thread' = [thread EXCEPT ![t] = IF e = NoEntry THEN Finish(t, "raised", 0)
                                                    ELSE Finish(t, "served", e.val)]
  /\ UNCHANGED <<entries, lru, locks, tickets, applied, origin, unseen, floor, idleFloor,
                 started, requests>>

\* The finally block: the slot is free and its waiters are woken.
Release(t) ==
  /\ At(t, "release")
  /\ locks' = [locks EXCEPT ![Key(t)] = NoOne]
  /\ thread' = [thread EXCEPT ![t] =
       IF t \in Keys THEN Idle
       ELSE Done(t, IF thread[t].val = 0 THEN "raised" ELSE "served", thread[t].val)]
  /\ UNCHANGED <<entries, lru, tickets, applied, origin, unseen, floor, idleFloor, started, requests>>

----------------------------------------------------------------------------
(* The writers of the data behind the cache, and the clock                 *)

\* A write commits; its request invalidates the cache afterwards.
Write(k) ==
  /\ origin[k] <= MaxWrites
  /\ origin' = [origin EXCEPT ![k] = @ + 1]
  /\ unseen' = TRUE
  /\ UNCHANGED <<entries, lru, locks, tickets, applied, thread, floor, idleFloor, started, requests>>

\* Mutant of Cleared: a fresh entry survives.
ClearedStale(K) == {k \in K : ~ Live(k) /\ entries[k].life # "fresh"}

\* invalidate skips the keys with a producer.
Cleared(K) == {k \in K : ~ Live(k)}

\* invalidate(), over the keys with an entry or a slot.
Invalidate ==
  /\ unseen
  /\ unseen' = FALSE
  /\ LET out == Cleared(Stored \cup {k \in Keys : Live(k)}) IN
     /\ entries' = [k \in Keys |-> IF k \in out THEN NoEntry ELSE entries[k]]
     /\ lru' = Without(lru, out)
     /\ Forget(out)
     /\ thread' = Outdated(thread, out)
  /\ floor' = origin
  /\ idleFloor' = [k \in Keys |-> IF Live(k) \/ InFlight(k) THEN idleFloor[k] ELSE origin[k]]
  /\ UNCHANGED <<locks, origin, started, requests>>

\* expires_at, then stale_ttl passes.
Age(k) ==
  /\ entries[k].life \in {"fresh", "stale"}
  /\ entries' = [entries EXCEPT ![k].life = IF @ = "fresh" THEN "stale" ELSE "expired"]
  /\ UNCHANGED <<lru, locks, tickets, applied, thread, origin, unseen, floor, idleFloor,
                 started, requests>>

----------------------------------------------------------------------------
Init ==
  /\ entries = [k \in Keys |-> NoEntry]
  /\ lru = [k \in Keys |-> {}]
  /\ locks = [k \in Keys |-> NoOne]
  /\ tickets = [k \in Keys |-> 0]
  /\ applied = [k \in Keys |-> 0]
  /\ thread = [t \in Producers |-> Idle]
  /\ origin = [k \in Keys |-> 1]
  /\ unseen = FALSE
  /\ floor = [k \in Keys |-> 0]
  /\ idleFloor = [k \in Keys |-> 0]
  /\ started = [k \in Keys |-> 0]
  /\ requests = 0

\* A thread inside the cache goes on.
Step(t) ==
  \/ CheckStale(t) \/ Trigger(t) \/ Begin(t) \/ Slot(t) \/ WaitEnds(t)
  \/ FetchReads(t) \/ FetchRaises(t) \/ Put(t) \/ MarkStale(t) \/ Fallback(t) \/ Release(t)

Next ==
  \/ \E t \in Callers, k \in Keys : Lookup(t, k)
  \/ \E t \in Producers : Step(t)
  \/ \E k \in Keys : Write(k) \/ Age(k)
  \/ Invalidate

Spec == Init /\ [][Next]_vars

\* Threads run and the fetcher returns; nobody has to call, write or invalidate.
FairSpec == Spec /\ \A t \in Producers : WF_vars(Step(t))

----------------------------------------------------------------------------
(* Properties                                                              *)

\* order puts any two keys of K in an order of use, and has no place for another key.
Orders(order, K) ==
  /\ order \in [Keys -> SUBSET K] /\ \A k \in Keys \ K : order[k] = {}
  /\ \A j, k \in K : j \in order[k] <=> j # k /\ k \notin order[j]
  /\ \A k \in K : \A j \in order[k] : order[j] \subseteq order[k]

\* A key has an applied ticket exactly while it has an entry, so the snapshot
\* put drops is dropped in favour of an entry it can return (layer_cache.py:144,
\* the "put always returns an entry" of :329).
AppliedIffStored == \A k \in Keys : applied[k] # 0 <=> k \in Stored

\* The state has its types, the recency order is one of the stored keys, and so are the markers.
TypeOK ==
  /\ entries \in [Keys -> Entry \cup {NoEntry}]
  /\ Orders(lru, Stored) /\ AppliedIffStored
  /\ locks \in [Keys -> Producers \cup {NoOne}]
  /\ tickets \in [Keys -> Nat] /\ applied \in [Keys -> Nat] /\ started \in [Keys -> Nat]
  /\ thread \in [Producers -> Thread \cup {Idle}]
  /\ origin \in [Keys -> Nat] /\ unseen \in BOOLEAN
  /\ floor \in [Keys -> Nat] /\ idleFloor \in [Keys -> Nat] /\ requests \in Nat

\* A slot belongs to the one thread that will release it: of two fetches of one
\* key in flight, at most one owns the slot, and the other waited in vain.
OneProducer ==
  \A t \in Producers : thread[t] # Idle => (thread[t].owns <=> locks[Key(t)] = t)

\* t stores its snapshot over an entry, or labels it stale.
Overwrites(t) ==
  /\ thread[t].pc \in {"got", "failed"}
  /\ thread'[t] # thread[t] /\ thread'[t].pc \notin {"got", "failed"}
  /\ entries[Key(t)] # NoEntry
  /\ entries'[Key(t)] # entries[Key(t)]

\* A fetch that started earlier neither replaces nor relabels the snapshot of a
\* later one, as long as its key was not evicted or invalidated under it.
OrderedSnapshots ==
  [][\A t \in Producers :
       Overwrites(t) /\ ~ thread[t].old => thread[t].seq >= entries[Key(t)].seq]_vars

\* While a key has a producer nothing takes its entry away, so the callers it
\* serves stale, and its own failed fetch, keep a snapshot to answer with.
LiveKeyKeepsEntry ==
  [][\A k \in Keys : k \in Stored /\ Live(k) => entries'[k] # NoEntry]_vars

\* A request made after an invalidation that met no producer and no fetch in
\* flight is never answered from before the write it invalidated for.
IdleInvalidationIsVisible ==
  \A t \in Callers : At(t, "served") => thread[t].val >= thread[t].idleFloor

\* invalidate_calendar_caches (api.py:43-45): both writers "must be visible on the
\* next request instead of after the 120s TTL".  It does not hold: see the README.
InvalidationIsVisible ==
  \A t \in Callers : At(t, "served") => thread[t].val >= thread[t].floor

\* The module's first paragraph (layer_cache.py:8-10): "a snapshot produced by an
\* earlier-started fetch can never overwrite a newer one".  It does not hold when
\* the ticket counter restarted in between: see the README.
NeverOlderSnapshot ==
  [][\A t \in Producers :
       Overwrites(t) /\ At(t, "got") /\ thread[t].seq < entries[Key(t)].seq
         => thread[t].val >= entries[Key(t)].val]_vars

\* What CacheReads says of a call, as far as this thread has come: the answer, or the failure,
\* stands before the slot is given back.
CallOf(th) ==
  IF th = Idle THEN [at |-> "out"]
  ELSE [at |-> CASE th.pc = "served" \/ (th.pc = "release" /\ th.val # 0) -> "answered"
                 [] th.pc = "raised" \/ (th.pc = "release" /\ th.val = 0) -> "failed"
                 [] OTHER -> "waiting",
        key |-> th.key, least |-> th.idleFloor, val |-> th.val]
Calls     == [c \in Callers |-> CallOf(thread[c])]
Snapshots == [k \in Keys |-> IF k \in Stored THEN entries[k].val ELSE 0]

Reads == INSTANCE CacheReads
  WITH version <- origin, settled <- idleFloor, held <- Snapshots, call <- Calls

\* Requests may expect of the cache what CacheReads promises: an answer the key had while it
\* was asked, nothing that a settled change replaced, and no failure while a snapshot, however
\* stale, is there (get_or_refresh, "If we have stale data, return it", layer_cache.py:335).
ImplementsReads == Reads!ReadsSpec

\* A slot is not held for ever: no failure, eviction or invalidation leaves a key
\* that every later caller waits on and nobody refreshes.
SlotIsReleased == \A k \in Keys : Live(k) ~> ~ Live(k)

=============================================================================
