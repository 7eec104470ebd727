-------------------------- MODULE LayerCacheProofs --------------------------
(***************************************************************************)
(* Proofs about LayerCache for every set of keys and callers, every cap    *)
(* and every bound: a slot has one owner, an entry and its applied ticket  *)
(* come and go together, a fetch never overtakes a later one of the same   *)
(* ticket sequence, and a key with a producer keeps its entry.  The        *)
(* recency order has an invariant of its own, which none of these needs.   *)
(* What requests may expect of all this is CacheReads, which LayerCache    *)
(* implements; and a thread that keeps running leaves the cache.           *)
(***************************************************************************)
EXTENDS LayerCache, TLAPS

\* TypeOK, as far as the steps need it.
Types ==
  /\ entries \in [Keys -> Entry \cup {NoEntry}]
  /\ locks \in [Keys -> Producers \cup {NoOne}]
  /\ tickets \in [Keys -> Nat] /\ applied \in [Keys -> Nat] /\ started \in [Keys -> Nat]
  /\ thread \in [Producers -> Thread \cup {Idle}]
  /\ origin \in [Keys -> Nat] /\ floor \in [Keys -> Nat] /\ idleFloor \in [Keys -> Nat]

\* _evict_locked never picks a key that has a producer.
LEMMA VictimsAreIdle ==
  ASSUME NEW order, NEW K, NEW x \in Victims(order, K)
  PROVE  ~ Live(x)
BY DEF Victims

Snapshot(t) == [life |-> "fresh", val |-> thread[t].val, seq |-> thread[t].seq, stale |-> FALSE]

\* What a stored snapshot changes, with nothing of the recency order but that
\* the evicted keys have no producer.
LEMMA PutStores ==
  ASSUME NEW t \in Producers, Put(t), ~ Overtaken(t)
  PROVE  \E out :
           /\ \A x \in out : ~ Live(x)
           /\ entries' = [x \in Keys |-> IF x \in out THEN NoEntry
                                         ELSE IF x = Key(t) THEN Snapshot(t) ELSE entries[x]]
           /\ tickets' = [x \in Keys |-> IF x \in out THEN 0 ELSE tickets[x]]
           /\ applied' = [x \in Keys |-> IF x \in out THEN 0
                                         ELSE IF x = Key(t) THEN thread[t].ticket ELSE applied[x]]
           /\ thread' = Outdated([thread EXCEPT ![t] = Finish(t, "served", thread[t].val)], out)
<1> DEFINE out == Victims(Touch(lru, Key(t)), Stored \cup {Key(t)})
<1>1. \A x \in out : ~ Live(x)
  BY VictimsAreIdle
<1>2. /\ entries' = [x \in Keys |-> IF x \in out THEN NoEntry
                                    ELSE IF x = Key(t) THEN Snapshot(t) ELSE entries[x]]
      /\ tickets' = [x \in Keys |-> IF x \in out THEN 0 ELSE tickets[x]]
      /\ applied' = [x \in Keys |-> IF x \in out THEN 0
                                    ELSE IF x = Key(t) THEN thread[t].ticket ELSE applied[x]]
      /\ thread' = Outdated([thread EXCEPT ![t] = Finish(t, "served", thread[t].val)], out)
  BY DEF Put, Snapshot
<1> HIDE DEF out
<1> QED BY <1>1, <1>2

----------------------------------------------------------------------------
(* Types                                                                   *)

Threads == Thread \cup {Idle}

\* A thread that is not idle has a key and the type of a call.
LEMMA BusyThread ==
  ASSUME Types, NEW t \in Producers, thread[t].pc # "idle"
  PROVE  thread[t] \in Thread /\ Key(t) \in Keys
<1>1. thread[t] \in Thread BY DEF Types, Idle
<1> QED BY <1>1 DEF Thread, Key

\* Leaving get_or_refresh keeps the thread's type ...
LEMMA DoneType ==
  ASSUME NEW t \in Producers, thread[t] \in Thread, NEW pc \in {"served", "raised"}, NEW val \in Nat
  PROVE  Done(t, pc, val) \in Thread
BY DEF Done, Thread

\* ... and so does going on to release the slot,
LEMMA FinishType ==
  ASSUME NEW t \in Producers, thread[t] \in Thread, NEW pc \in {"served", "raised"}, NEW val \in Nat
  PROVE  Finish(t, pc, val) \in Thread
<1>1. [thread[t] EXCEPT !.pc = "release", !.val = val] \in Thread BY DEF Thread
<1> QED BY <1>1, DoneType DEF Finish

\* ... and the history of a forgotten key.
LEMMA OutdatedType ==
  ASSUME NEW th \in [Producers -> Threads], NEW K
  PROVE  Outdated(th, K) \in [Producers -> Threads]
<1>1. ASSUME NEW t \in Producers, th[t] # Idle PROVE [th[t] EXCEPT !.old = TRUE] \in Thread
  <2>1. th[t] \in Thread BY <1>1 DEF Threads
  <2> QED BY <2>1 DEF Thread
<1> QED BY <1>1 DEF Outdated, Threads

\* What an entry has to offer is a Nat.
LEMMA EntryVal ==
  ASSUME Types, NEW k \in Keys, entries[k] # NoEntry
  PROVE  entries[k] \in Entry /\ entries[k].val \in Nat /\ entries[k].seq \in Nat
<1>1. entries[k] \in Entry BY DEF Types
<1> QED BY <1>1 DEF Entry

\* Every step keeps the types.
LEMMA TypesNext == Types /\ [Next]_vars => Types'
<1> SUFFICES ASSUME Types, [Next]_vars PROVE Types'
  OBVIOUS
<1> USE DEF Threads
<1>0. thread \in [Producers -> Threads] BY DEF Types
<1>1. ASSUME NEW t \in Callers, NEW k \in Keys, Lookup(t, k) PROVE Types'
  <2>1. t \in Producers BY DEF Producers
  <2> DEFINE e == entries[k]
             next == CASE e = NoEntry -> "begin" [] e.life = "fresh" -> "served" [] OTHER -> "check"
             new == [pc |-> next, key |-> k, ticket |-> 0, owns |-> FALSE,
                     val |-> IF next = "begin" THEN 0 ELSE e.val, seq |-> 0, old |-> FALSE,
                     floor |-> floor[k], idleFloor |-> idleFloor[k]]
  <2>2. next \in {"begin", "served", "check"} BY DEF NoEntry
  <2>3. next # "begin" => e.val \in Nat
    <3>1. CASE e = NoEntry BY <3>1 DEF NoEntry
    <3>2. CASE e # NoEntry BY <3>2, EntryVal
    <3> QED BY <3>1, <3>2
  <2>4. floor[k] \in Nat /\ idleFloor[k] \in Nat BY DEF Types
  <2>5. new \in Thread
    <3> HIDE DEF next
    <3> QED BY <2>2, <2>3, <2>4 DEF Thread
  <2>6. thread' = [thread EXCEPT ![t] = new] BY <1>1 DEF Lookup
  <2> HIDE DEF new
  <2>7. thread' \in [Producers -> Threads] BY <1>0, <2>1, <2>5, <2>6
  <2> QED BY <1>1, <2>7 DEF Lookup, Types
<1>2. ASSUME NEW t \in Producers, CheckStale(t) PROVE Types'
  <2>1. thread[t] \in Thread BY <1>2, BusyThread DEF CheckStale, At
  <2>2. thread'[t] \in Thread BY <1>0, <1>2, <2>1 DEF CheckStale, GoTo, Thread
  <2>3. thread' \in [Producers -> Threads] BY <1>0, <1>2, <2>2 DEF CheckStale, GoTo
  <2> QED BY <1>2, <2>3 DEF CheckStale, Types
<1>3. ASSUME NEW t \in Producers, Trigger(t) PROVE Types'
  <2>1. thread[t] \in Thread /\ Key(t) \in Keys BY <1>3, BusyThread DEF Trigger, At
  <2>2. Done(t, "served", thread[t].val) \in Thread BY <2>1, DoneType DEF Thread
  <2> DEFINE k == Key(t)
             new == [pc |-> "fetch", key |-> k, ticket |-> tickets[k] + 1, owns |-> TRUE,
                     val |-> 0, seq |-> started[k] + 1, old |-> FALSE, floor |-> 0, idleFloor |-> 0]
  <2>3. new \in Thread BY <2>1 DEF Types, Thread
  <2>4. CASE Live(k)
    <3>1. thread' \in [Producers -> Threads] BY <1>0, <1>3, <2>2, <2>4 DEF Trigger
    <3> QED BY <1>3, <2>4, <3>1 DEF Trigger, Types
  <2>5. CASE ~ Live(k)
    <3>1. thread' = [thread EXCEPT ![t] = Done(t, "served", thread[t].val), ![k] = new]
      BY <1>3, <2>5 DEF Trigger
    <3>2. thread' \in [Producers -> Threads]
      <4> HIDE DEF new, k
      <4> QED BY <1>0, <2>2, <2>3, <3>1
    <3>3. k \in Producers BY <2>1 DEF Producers
    <3>4. locks' = [locks EXCEPT ![k] = k] /\ tickets' = [tickets EXCEPT ![k] = @ + 1]
          /\ started' = [started EXCEPT ![k] = @ + 1]
      BY <1>3, <2>5 DEF Trigger
    <3> QED BY <1>3, <2>1, <3>2, <3>3, <3>4 DEF Trigger, Types
  <2> QED BY <2>4, <2>5
<1>4. ASSUME NEW t \in Producers, Begin(t) PROVE Types'
  <2>1. thread[t] \in Thread /\ Key(t) \in Keys BY <1>4, BusyThread DEF Begin, At
  <2>2. thread'[t] \in Thread
    <3>1. thread'[t] = [thread[t] EXCEPT !.pc = "slot", !.ticket = tickets[Key(t)] + 1,
                                         !.seq = started[Key(t)] + 1]
      BY <1>0, <1>4 DEF Begin
    <3>2. tickets[Key(t)] + 1 \in Nat /\ started[Key(t)] + 1 \in Nat BY <2>1 DEF Types
    <3> QED BY <2>1, <3>1, <3>2 DEF Thread
  <2>3. thread' \in [Producers -> Threads] BY <1>0, <1>4, <2>2 DEF Begin
  <2> QED BY <1>4, <2>1, <2>3 DEF Begin, Types
<1>5. ASSUME NEW t \in Producers, Slot(t) PROVE Types'
  <2>1. thread[t] \in Thread /\ Key(t) \in Keys BY <1>5, BusyThread DEF Slot, At
  <2>2. thread'[t] \in Thread BY <1>0, <1>5, <2>1 DEF Slot, GoTo, Thread
  <2>3. thread' \in [Producers -> Threads] BY <1>0, <1>5, <2>2 DEF Slot, GoTo
  <2>4. locks' \in [Keys -> Producers \cup {NoOne}] BY <1>5, <2>1 DEF Slot, Types
  <2> QED BY <1>5, <2>3, <2>4 DEF Slot, Types
<1>6. ASSUME NEW t \in Producers, WaitEnds(t) PROVE Types'
  <2>1. thread[t] \in Thread /\ Key(t) \in Keys BY <1>6, BusyThread DEF WaitEnds, At
  <2>2. thread'[t] \in Thread
    <3>1. CASE entries[Key(t)] = NoEntry BY <1>0, <1>6, <2>1, <3>1 DEF WaitEnds, Thread
    <3>2. CASE entries[Key(t)] # NoEntry
      BY <1>0, <1>6, <2>1, <3>2, EntryVal, DoneType DEF WaitEnds
    <3> QED BY <3>1, <3>2
  <2>3. thread' \in [Producers -> Threads] BY <1>0, <1>6, <2>2 DEF WaitEnds
  <2> QED BY <1>6, <2>3 DEF WaitEnds, Types
<1>7. ASSUME NEW t \in Producers, FetchReads(t) \/ FetchRaises(t) PROVE Types'
  <2>1. thread[t] \in Thread /\ Key(t) \in Keys BY <1>7, BusyThread DEF FetchReads, FetchRaises, At
  <2>2. thread'[t] \in Thread BY <1>0, <1>7, <2>1 DEF FetchReads, FetchRaises, GoTo, Thread, Types
  <2>3. thread' \in [Producers -> Threads] BY <1>0, <1>7, <2>2 DEF FetchReads, FetchRaises, GoTo
  <2> QED BY <1>7, <2>3 DEF FetchReads, FetchRaises, Types
<1>8. ASSUME NEW t \in Producers, Put(t) PROVE Types'
  <2>1. thread[t] \in Thread /\ Key(t) \in Keys BY <1>8, BusyThread DEF Put, At
  <2>2. Finish(t, "served", thread[t].val) \in Thread BY <2>1, FinishType DEF Thread
  <2>3. CASE Overtaken(t)
    <3>1. thread' = [thread EXCEPT ![t] = Finish(t, "served", thread[t].val)]
          /\ UNCHANGED <<entries, tickets, applied>>
      BY <1>8, <2>3 DEF Put
    <3> QED BY <1>0, <1>8, <2>2, <3>1 DEF Put, Types
  <2>4. CASE ~ Overtaken(t)
    <3>1. PICK out :
           /\ entries' = [x \in Keys |-> IF x \in out THEN NoEntry
                                         ELSE IF x = Key(t) THEN Snapshot(t) ELSE entries[x]]
           /\ tickets' = [x \in Keys |-> IF x \in out THEN 0 ELSE tickets[x]]
           /\ applied' = [x \in Keys |-> IF x \in out THEN 0
                                         ELSE IF x = Key(t) THEN thread[t].ticket ELSE applied[x]]
           /\ thread' = Outdated([thread EXCEPT ![t] = Finish(t, "served", thread[t].val)], out)
      BY <1>8, <2>4, PutStores
    <3>2. Snapshot(t) \in Entry BY <2>1 DEF Snapshot, Entry, Lives, Thread
    <3>3. [thread EXCEPT ![t] = Finish(t, "served", thread[t].val)] \in [Producers -> Threads]
      BY <1>0, <2>2
    <3>4. thread' \in [Producers -> Threads] BY <3>1, <3>3, OutdatedType
    <3>5. thread[t].ticket \in Nat BY <2>1 DEF Thread
    <3>6. UNCHANGED <<locks, origin, floor, idleFloor, started>> BY <1>8 DEF Put
    <3> QED BY <2>1, <3>1, <3>2, <3>4, <3>5, <3>6 DEF Types
  <2> QED BY <2>3, <2>4
<1>9. ASSUME NEW t \in Producers, MarkStale(t) PROVE Types'
  <2>1. thread[t] \in Thread /\ Key(t) \in Keys BY <1>9, BusyThread DEF MarkStale, At
  <2>2. thread'[t] \in Thread BY <1>0, <1>9, <2>1 DEF MarkStale, GoTo, Thread
  <2>3. thread' \in [Producers -> Threads] BY <1>0, <1>9, <2>2 DEF MarkStale, GoTo
  <2>4. entries' \in [Keys -> Entry \cup {NoEntry}]
    <3>1. entries[Key(t)] # NoEntry => [entries[Key(t)] EXCEPT !.stale = TRUE] \in Entry
      BY <2>1, EntryVal DEF Entry
    <3> QED BY <1>9, <2>1, <3>1 DEF MarkStale, Types
  <2> QED BY <1>9, <2>3, <2>4 DEF MarkStale, Types
<1>10. ASSUME NEW t \in Producers, Fallback(t) PROVE Types'
  <2>1. thread[t] \in Thread /\ Key(t) \in Keys BY <1>10, BusyThread DEF Fallback, At
  <2>2. thread'[t] \in Thread
    BY <1>0, <1>10, <2>1, EntryVal, FinishType DEF Fallback
  <2>3. thread' \in [Producers -> Threads] BY <1>0, <1>10, <2>2 DEF Fallback
  <2> QED BY <1>10, <2>3 DEF Fallback, Types
<1>11. ASSUME NEW t \in Producers, Release(t) PROVE Types'
  <2>1. thread[t] \in Thread /\ Key(t) \in Keys BY <1>11, BusyThread DEF Release, At
  <2>2. thread'[t] \in Threads BY <1>0, <1>11, <2>1, DoneType DEF Release, Thread
  <2>3. thread' \in [Producers -> Threads] BY <1>0, <1>11, <2>2 DEF Release
  <2> QED BY <1>11, <2>1, <2>3 DEF Release, Types
<1>12. ASSUME NEW k \in Keys, Write(k) PROVE Types'
  BY <1>12 DEF Write, Types
<1>13. ASSUME NEW k \in Keys, Age(k) PROVE Types'
  <2>1. entries[k] \in Entry BY <1>13 DEF Age, Types, NoEntry
  <2>2. entries' \in [Keys -> Entry \cup {NoEntry}]
    <3>1. [entries[k] EXCEPT !.life = IF @ = "fresh" THEN "stale" ELSE "expired"] \in Entry
      BY <2>1 DEF Entry, Lives
    <3> QED BY <1>13, <3>1 DEF Age, Types
  <2> QED BY <1>13, <2>2 DEF Age, Types
<1>14. ASSUME Invalidate PROVE Types'
  <2> DEFINE out == Cleared(Stored \cup {k \in Keys : Live(k)})
  <2>1. /\ entries' = [k \in Keys |-> IF k \in out THEN NoEntry ELSE entries[k]]
        /\ Forget(out)
        /\ thread' = Outdated(thread, out)
        /\ floor' = origin
        /\ idleFloor' = [k \in Keys |-> IF Live(k) \/ InFlight(k) THEN idleFloor[k] ELSE origin[k]]
        /\ UNCHANGED <<locks, origin, started>>
    BY <1>14 DEF Invalidate
  <2> HIDE DEF out
  <2>2. thread' \in [Producers -> Threads] BY <1>0, <2>1, OutdatedType
  <2> QED BY <2>1, <2>2 DEF Forget, Types
<1>15. CASE UNCHANGED vars BY <1>15 DEF vars, Types
<1> QED BY <1>1, <1>2, <1>3, <1>4, <1>5, <1>6, <1>7, <1>8, <1>9, <1>10, <1>11, <1>12, <1>13,
          <1>14, <1>15 DEF Next, Step

----------------------------------------------------------------------------
(* Slots                                                                   *)

\* What a thread's place in the code says of its slot and its ticket.
ThreadSlots(t) ==
  thread[t] # Idle =>
    /\ t \in Keys => thread[t].owns /\ Key(t) = t
    /\ thread[t].owns <=> locks[Key(t)] = t
    /\ thread[t].pc \in {"check", "trigger", "begin", "slot", "wait", "served", "raised"}
         => ~ thread[t].owns
    /\ thread[t].pc \in {"slot", "wait", "fetch", "got", "failed"} => thread[t].ticket # 0
    /\ thread[t].pc = "release" => thread[t].owns

Held(k) == Live(k) => thread[locks[k]] # Idle /\ Key(locks[k]) = k

Slots == (\A t \in Producers : ThreadSlots(t)) /\ (\A k \in Keys : Held(k))

\* A step that leaves the slots alone, and the other threads but for old.
SameSlot(u) ==
  /\ (thread[u] = Idle)' <=> thread[u] = Idle
  /\ thread[u] # Idle =>
       /\ thread'[u].key = thread[u].key /\ thread'[u].owns = thread[u].owns
       /\ thread'[u].pc = thread[u].pc /\ thread'[u].ticket = thread[u].ticket

\* A step of one thread that keeps its key and moves no slot keeps Slots, once
\* that thread's own program counter agrees with the slot it owns.
LEMMA SlotsKept ==
  ASSUME Types, Slots, NEW t \in Producers, ThreadSlots(t)', locks' = locks,
         \A u \in Producers \ {t} : SameSlot(u),
         thread[t] # Idle, thread'[t] # Idle, thread'[t].key = thread[t].key
  PROVE  Slots'
<1>1. ASSUME NEW u \in Producers PROVE ThreadSlots(u)'
  <2>1. CASE u = t BY <2>1
  <2>2. CASE u # t
    <3>1. SameSlot(u) /\ ThreadSlots(u) BY <2>2 DEF Slots
    <3> QED BY <3>1 DEF SameSlot, ThreadSlots, Key
  <2> QED BY <2>1, <2>2
<1>2. ASSUME NEW k \in Keys PROVE Held(k)'
  <2> SUFFICES ASSUME Live(k) PROVE thread'[locks[k]] # Idle /\ thread'[locks[k]].key = k
    BY DEF Held, Live, Key
  <2>1. locks[k] \in Producers BY DEF Types, Live
  <2>2. thread[locks[k]] # Idle /\ thread[locks[k]].key = k BY DEF Slots, Held, Key
  <2>3. CASE locks[k] = t BY <2>2, <2>3
  <2>4. CASE locks[k] # t BY <2>1, <2>2, <2>4 DEF SameSlot
  <2> QED BY <2>3, <2>4
<1> QED BY <1>1, <1>2 DEF Slots

\* The same for a step that only sets old.
LEMMA SlotsOutdated ==
  ASSUME Types, Slots, locks' = locks, \A u \in Producers : SameSlot(u)
  PROVE  Slots'
<1>1. ASSUME NEW u \in Producers PROVE ThreadSlots(u)'
  <2>1. SameSlot(u) /\ ThreadSlots(u) BY DEF Slots
  <2> QED BY <2>1 DEF SameSlot, ThreadSlots, Key
<1>2. ASSUME NEW k \in Keys PROVE Held(k)'
  <2> SUFFICES ASSUME Live(k) PROVE thread'[locks[k]] # Idle /\ thread'[locks[k]].key = k
    BY DEF Held, Live, Key
  <2>1. locks[k] \in Producers BY DEF Types, Live
  <2>2. thread[locks[k]] # Idle /\ thread[locks[k]].key = k BY DEF Slots, Held, Key
  <2> QED BY <2>1, <2>2 DEF SameSlot
<1> QED BY <1>1, <1>2 DEF Slots

\* The history of a forgotten key says nothing about slots.
LEMMA OutdatedSameSlot ==
  ASSUME NEW th \in [Producers -> Threads], NEW K, NEW u \in Producers
  PROVE  /\ Outdated(th, K)[u] = Idle <=> th[u] = Idle
         /\ th[u] # Idle =>
              /\ Outdated(th, K)[u].key = th[u].key /\ Outdated(th, K)[u].owns = th[u].owns
              /\ Outdated(th, K)[u].pc = th[u].pc /\ Outdated(th, K)[u].ticket = th[u].ticket
              /\ Outdated(th, K)[u].seq = th[u].seq /\ (th[u].old => Outdated(th, K)[u].old)
              /\ th[u].key \in K /\ th[u].ticket # 0 => Outdated(th, K)[u].old
<1>1. CASE th[u] = Idle BY <1>1 DEF Outdated
<1>2. CASE th[u] # Idle
  <2>1. th[u] \in Thread BY <1>2 DEF Threads
  <2>2. [th[u] EXCEPT !.old = TRUE] # Idle BY <2>1 DEF Thread, Idle
  <2> QED BY <1>2, <2>1, <2>2 DEF Outdated, Thread
<1> QED BY <1>1, <1>2

\* Every step keeps the slots in line with the program counters.
LEMMA SlotsNext == ConstantsAssumption /\ Types /\ Types' /\ Slots /\ [Next]_vars => Slots'
<1> SUFFICES ASSUME ConstantsAssumption, Types, Types', Slots, [Next]_vars PROVE Slots'
  OBVIOUS
<1>0. thread \in [Producers -> Threads] BY DEF Types, Threads
<1>1. ASSUME NEW t \in Callers, NEW k \in Keys, Lookup(t, k) PROVE Slots'
  <2>1. t \in Producers /\ t \notin Keys BY DEF Producers, ConstantsAssumption
  <2>2. locks' = locks /\ \A u \in Producers \ {t} : thread'[u] = thread[u]
    BY <1>0, <1>1, <2>1 DEF Lookup
  <2>3. /\ thread'[t].key = k /\ thread'[t].owns = FALSE
        /\ thread'[t].pc \in {"begin", "served", "check"} /\ thread'[t] # Idle
    <3> DEFINE e == entries[k]
               next == CASE e = NoEntry -> "begin" [] e.life = "fresh" -> "served" [] OTHER -> "check"
    <3>1. next \in {"begin", "served", "check"} BY DEF NoEntry
    <3>2. thread'[t] = [pc |-> next, key |-> k, ticket |-> 0, owns |-> FALSE,
                     val |-> IF next = "begin" THEN 0 ELSE e.val, seq |-> 0, old |-> FALSE,
                     floor |-> floor[k], idleFloor |-> idleFloor[k]]
      BY <1>0, <1>1, <2>1 DEF Lookup
    <3> HIDE DEF next
    <3> QED BY <3>1, <3>2 DEF Idle
  <2>4. \A x \in Keys : locks[x] # t
    <3> SUFFICES ASSUME NEW x \in Keys, locks[x] = t PROVE FALSE
      OBVIOUS
    <3>1. Live(x) BY <2>1 DEF Live, Producers, ConstantsAssumption
    <3>2. thread[t] # Idle /\ Key(t) = x BY <3>1 DEF Slots, Held
    <3>3. thread[t].owns BY <2>1, <3>2 DEF Slots, ThreadSlots
    <3>4. thread[t].pc \in {"served", "raised"} BY <1>1, <3>2, <2>1 DEF Lookup, Types, Thread
    <3> QED BY <2>1, <3>2, <3>3, <3>4 DEF Slots, ThreadSlots
  <2>5. ASSUME NEW u \in Producers PROVE ThreadSlots(u)'
    <3>1. CASE u = t BY <2>1, <2>2, <2>3, <2>4, <3>1 DEF ThreadSlots, Key
    <3>2. CASE u # t BY <2>2, <3>2 DEF Slots, ThreadSlots, Key
    <3> QED BY <3>1, <3>2
  <2>6. ASSUME NEW x \in Keys PROVE Held(x)'
    BY <2>2, <2>4 DEF Slots, Held, Live, Key, Types
  <2> QED BY <2>5, <2>6 DEF Slots
<1>2. ASSUME NEW t \in Producers, CheckStale(t) PROVE Slots'
  <2>1. thread[t] \in Thread BY <1>2, BusyThread DEF CheckStale, At
  <2>2. \E pc \in {"trigger", "begin"} : thread'[t] = [thread[t] EXCEPT !.pc = pc]
    BY <1>0, <1>2 DEF CheckStale, GoTo
  <2>3. ThreadSlots(t) /\ thread[t].pc = "check" /\ thread[t] # Idle
    BY <1>2 DEF Slots, CheckStale, At, Idle
  <2>4. ThreadSlots(t)' /\ thread'[t] # Idle /\ thread'[t].key = thread[t].key
    BY <1>2, <2>1, <2>2, <2>3 DEF ThreadSlots, Thread, Idle, Key, CheckStale
  <2>5. locks' = locks /\ \A u \in Producers \ {t} : SameSlot(u)
    BY <1>0, <1>2 DEF CheckStale, GoTo, SameSlot
  <2> QED BY <2>3, <2>4, <2>5, SlotsKept
<1>3. ASSUME NEW t \in Producers, Trigger(t) PROVE Slots'
  <2>1. thread[t] \in Thread /\ Key(t) \in Keys BY <1>3, BusyThread DEF Trigger, At
  <2>2. ThreadSlots(t) /\ thread[t].pc = "trigger" /\ thread[t] # Idle
    BY <1>3 DEF Slots, Trigger, At, Idle
  <2>3. ~ thread[t].owns /\ t \notin Keys BY <2>2 DEF ThreadSlots
  <2> DEFINE done == Done(t, "served", thread[t].val)
             k == Key(t)
  <2>4. done.pc = "served" /\ done.key = thread[t].key /\ done.owns = FALSE /\ done # Idle
    BY <2>1 DEF Done, Thread, Idle
  <2>5. CASE Live(k)
    <3>1. thread' = [thread EXCEPT ![t] = done] /\ locks' = locks BY <1>3, <2>5 DEF Trigger
    <3>2. thread'[t] = done BY <1>0, <3>1
    <3>3. ThreadSlots(t)' BY <2>2, <2>3, <2>4, <3>1, <3>2 DEF ThreadSlots, Key
    <3>4. \A u \in Producers \ {t} : SameSlot(u) BY <1>0, <3>1 DEF SameSlot
    <3> HIDE DEF done
    <3> QED BY <2>2, <2>4, <3>1, <3>2, <3>3, <3>4, SlotsKept
  <2>6. CASE ~ Live(k)
    <3> DEFINE new == [pc |-> "fetch", key |-> k, ticket |-> tickets[k] + 1, owns |-> TRUE,
                     val |-> 0, seq |-> started[k] + 1, old |-> FALSE, floor |-> 0, idleFloor |-> 0]
    <3>1. thread' = [thread EXCEPT ![t] = done, ![k] = new] /\ locks' = [locks EXCEPT ![k] = k]
      BY <1>3, <2>6 DEF Trigger
    <3>2. k \in Producers /\ k # t BY <2>1, <2>3 DEF Producers
    <3>3. new.key = k /\ new.owns /\ new.pc = "fetch" /\ new.ticket # 0 /\ new # Idle
      BY <2>1 DEF Types, Idle
    <3>4. thread[k] = Idle
      <4> SUFFICES ASSUME thread[k] # Idle PROVE FALSE
        OBVIOUS
      <4>1. locks[k] = k BY <2>1, <3>2 DEF Slots, ThreadSlots
      <4> QED BY <2>1, <2>6, <4>1 DEF Live, ConstantsAssumption
    <3> HIDE DEF done, new
    <3>5. thread'[t] = done /\ thread'[k] = new /\ \A u \in Producers \ {t, k} : thread'[u] = thread[u]
      BY <1>0, <3>1, <3>2
    <3>6. locks'[k] = k /\ \A x \in Keys \ {k} : locks'[x] = locks[x] BY <2>1, <3>1 DEF Types
    <3>7. locks[k] = NoOne BY <2>6 DEF Live
    <3>8. ASSUME NEW u \in Producers PROVE ThreadSlots(u)'
      <4>1. CASE u = t
        <5>1. locks'[k] # t BY <3>2, <3>6
        <5> QED BY <2>3, <2>4, <3>5, <4>1, <5>1 DEF ThreadSlots, Key
      <4>2. CASE u = k BY <3>3, <3>5, <3>6, <4>2 DEF ThreadSlots, Key
      <4>3. CASE u # t /\ u # k
        <5> SUFFICES ASSUME thread[u] # Idle PROVE ThreadSlots(u)'
          BY <3>5, <4>3 DEF ThreadSlots
        <5>1. thread[u].key \in Keys BY DEF Types, Thread
        <5>2. ThreadSlots(u) BY DEF Slots
        <5>3. (locks'[thread[u].key] = u) <=> (locks[thread[u].key] = u)
          BY <3>6, <3>7, <4>3, <5>1 DEF ConstantsAssumption, Producers
        <5> QED BY <3>5, <4>3, <5>2, <5>3 DEF ThreadSlots, Key
      <4> QED BY <4>1, <4>2, <4>3
    <3>9. ASSUME NEW x \in Keys PROVE Held(x)'
      <4>1. CASE x = k BY <3>3, <3>5, <3>6, <4>1 DEF Held, Key
      <4>2. CASE x # k
        <5> SUFFICES ASSUME locks[x] # NoOne PROVE thread'[locks[x]] # Idle /\ thread'[locks[x]].key = x
          BY <3>6, <4>2 DEF Held, Live, Key
        <5>1. locks[x] \in Producers BY DEF Types
        <5>2. thread[locks[x]] # Idle /\ thread[locks[x]].key = x BY DEF Slots, Held, Live, Key
        <5>3. thread[locks[x]].owns BY <5>1, <5>2 DEF Slots, ThreadSlots, Key
        <5>4. locks[x] # t /\ locks[x] # k BY <2>3, <3>4, <5>2, <5>3
        <5> QED BY <3>5, <5>1, <5>2, <5>4
      <4> QED BY <4>1, <4>2
    <3> QED BY <3>8, <3>9 DEF Slots
  <2> QED BY <2>5, <2>6
<1>4. ASSUME NEW t \in Producers, Begin(t) PROVE Slots'
  <2>1. thread[t] \in Thread /\ Key(t) \in Keys BY <1>4, BusyThread DEF Begin, At
  <2>2. thread'[t] = [thread[t] EXCEPT !.pc = "slot", !.ticket = tickets[Key(t)] + 1,
                                       !.seq = started[Key(t)] + 1]
    BY <1>0, <1>4 DEF Begin
  <2>3. ThreadSlots(t) /\ thread[t].pc = "begin" /\ thread[t] # Idle
    BY <1>4 DEF Slots, Begin, At, Idle
  <2>4. locks' = locks /\ tickets[Key(t)] + 1 # 0 BY <1>4, <2>1 DEF Begin, Types
  <2>5. ThreadSlots(t)' /\ thread'[t] # Idle /\ thread'[t].key = thread[t].key
    BY <2>1, <2>2, <2>3, <2>4 DEF ThreadSlots, Thread, Idle, Key
  <2>6. \A u \in Producers \ {t} : SameSlot(u) BY <1>0, <1>4 DEF Begin, SameSlot
  <2> QED BY <2>3, <2>4, <2>5, <2>6, SlotsKept
<1>5. ASSUME NEW t \in Producers, Slot(t) PROVE Slots'
  <2>1. thread[t] \in Thread /\ Key(t) \in Keys BY <1>5, BusyThread DEF Slot, At
  <2>2. ThreadSlots(t) /\ thread[t].pc = "slot" /\ thread[t] # Idle
    BY <1>5 DEF Slots, Slot, At, Idle
  <2>3. ~ thread[t].owns /\ t \notin Keys BY <2>2 DEF ThreadSlots
  <2> DEFINE k == Key(t)
  <2>4. \A u \in Producers \ {t} : thread'[u] = thread[u] BY <1>0, <1>5 DEF Slot, GoTo
  <2>5. CASE Live(k)
    <3>1. thread'[t] = [thread[t] EXCEPT !.pc = "wait"] /\ locks' = locks
      BY <1>0, <1>5, <2>5 DEF Slot, GoTo
    <3>2. ThreadSlots(t)' /\ thread'[t] # Idle /\ thread'[t].key = thread[t].key
      BY <2>1, <2>2, <2>3, <3>1 DEF ThreadSlots, Thread, Idle, Key
    <3>3. \A u \in Producers \ {t} : SameSlot(u) BY <2>4 DEF SameSlot
    <3> QED BY <2>2, <3>1, <3>2, <3>3, SlotsKept
  <2>6. CASE ~ Live(k)
    <3>1. thread'[t] = [thread[t] EXCEPT !.pc = "fetch", !.owns = TRUE]
          /\ locks' = [locks EXCEPT ![k] = t]
      BY <1>0, <1>5, <2>6 DEF Slot
    <3>2. /\ thread'[t] # Idle /\ thread'[t].key = k /\ thread'[t].owns
          /\ thread'[t].pc = "fetch" /\ thread'[t].ticket = thread[t].ticket
      BY <2>1, <3>1 DEF Thread, Idle, Key
    <3>3. locks'[k] = t /\ \A x \in Keys \ {k} : locks'[x] = locks[x] BY <2>1, <3>1 DEF Types
    <3>4. locks[k] = NoOne BY <2>6 DEF Live
    <3>5. ASSUME NEW u \in Producers PROVE ThreadSlots(u)'
      <4>1. CASE u = t BY <2>2, <2>3, <3>2, <3>3, <4>1 DEF ThreadSlots, Key
      <4>2. CASE u # t
        <5> SUFFICES ASSUME thread[u] # Idle PROVE ThreadSlots(u)'
          BY <2>4, <4>2 DEF ThreadSlots
        <5>1. thread[u].key \in Keys BY DEF Types, Thread
        <5>2. ThreadSlots(u) BY DEF Slots
        <5>3. (locks'[thread[u].key] = u) <=> (locks[thread[u].key] = u)
          BY <3>3, <3>4, <4>2, <5>1 DEF ConstantsAssumption, Producers
        <5> QED BY <2>4, <4>2, <5>2, <5>3 DEF ThreadSlots, Key
      <4> QED BY <4>1, <4>2
    <3>6. ASSUME NEW x \in Keys PROVE Held(x)'
      <4>1. CASE x = k BY <3>2, <3>3, <4>1 DEF Held, Key
      <4>2. CASE x # k
        <5> SUFFICES ASSUME locks[x] # NoOne PROVE thread'[locks[x]] # Idle /\ thread'[locks[x]].key = x
          BY <3>3, <4>2 DEF Held, Live, Key
        <5>1. locks[x] \in Producers BY DEF Types
        <5>2. thread[locks[x]] # Idle /\ thread[locks[x]].key = x BY DEF Slots, Held, Live, Key
        <5>3. thread[locks[x]].owns BY <5>1, <5>2 DEF Slots, ThreadSlots, Key
        <5> QED BY <2>3, <2>4, <5>1, <5>2, <5>3
      <4> QED BY <4>1, <4>2
    <3> QED BY <3>5, <3>6 DEF Slots
  <2> QED BY <2>5, <2>6
<1>6. ASSUME NEW t \in Producers, WaitEnds(t) PROVE Slots'
  <2>1. thread[t] \in Thread /\ Key(t) \in Keys BY <1>6, BusyThread DEF WaitEnds, At
  <2>2. ThreadSlots(t) /\ thread[t].pc = "wait" /\ thread[t] # Idle
    BY <1>6 DEF Slots, WaitEnds, At, Idle
  <2>3. thread'[t] = [thread[t] EXCEPT !.pc = "fetch"]
        \/ thread'[t] = Done(t, "served", entries[Key(t)].val)
    BY <1>0, <1>6 DEF WaitEnds
  <2>4. /\ thread'[t] # Idle /\ thread'[t].key = thread[t].key /\ thread'[t].owns = FALSE
        /\ \/ thread'[t].pc = "served"
           \/ thread'[t].pc = "fetch" /\ thread'[t].ticket = thread[t].ticket
    BY <2>1, <2>2, <2>3 DEF ThreadSlots, Done, Thread, Idle
  <2>5. locks' = locks /\ \A u \in Producers \ {t} : SameSlot(u)
    BY <1>0, <1>6 DEF WaitEnds, SameSlot
  <2>6. ThreadSlots(t)' BY <2>2, <2>4, <2>5 DEF ThreadSlots, Key
  <2> QED BY <2>2, <2>4, <2>5, <2>6, SlotsKept
<1>7. ASSUME NEW t \in Producers, FetchReads(t) \/ FetchRaises(t) PROVE Slots'
  <2>1. thread[t] \in Thread /\ Key(t) \in Keys BY <1>7, BusyThread DEF FetchReads, FetchRaises, At
  <2>2. ThreadSlots(t) /\ thread[t].pc = "fetch" /\ thread[t] # Idle
    BY <1>7 DEF Slots, FetchReads, FetchRaises, At, Idle
  <2>3. /\ thread'[t] # Idle /\ thread'[t].key = thread[t].key /\ thread'[t].owns = thread[t].owns
        /\ thread'[t].pc \in {"got", "failed"} /\ thread'[t].ticket = thread[t].ticket
    BY <1>0, <1>7, <2>1 DEF FetchReads, FetchRaises, GoTo, Thread, Idle
  <2>4. locks' = locks /\ \A u \in Producers \ {t} : SameSlot(u)
    BY <1>0, <1>7 DEF FetchReads, FetchRaises, GoTo, SameSlot
  <2>5. ThreadSlots(t)' BY <2>2, <2>3, <2>4 DEF ThreadSlots, Key
  <2> QED BY <2>2, <2>3, <2>4, <2>5, SlotsKept
<1>8. ASSUME NEW t \in Producers, Put(t) PROVE Slots'
  <2>1. thread[t] \in Thread /\ Key(t) \in Keys BY <1>8, BusyThread DEF Put, At
  <2>2. ThreadSlots(t) /\ thread[t].pc = "got" /\ thread[t] # Idle
    BY <1>8 DEF Slots, Put, At, Idle
  <2> DEFINE done == Finish(t, "served", thread[t].val)
  <2>3. /\ done \in Thread /\ done # Idle /\ done.key = thread[t].key /\ done.owns = thread[t].owns
        /\ IF thread[t].owns THEN done.pc = "release" ELSE done.pc = "served"
    BY <2>1 DEF Finish, Done, Thread, Idle
  <2>4. PICK out : \/ thread' = [thread EXCEPT ![t] = done]
                   \/ thread' = Outdated([thread EXCEPT ![t] = done], out)
    <3>1. CASE Overtaken(t) BY <1>8, <3>1 DEF Put
    <3>2. CASE ~ Overtaken(t) BY <1>8, <3>2, PutStores
    <3> QED BY <3>1, <3>2
  <2> DEFINE th == [thread EXCEPT ![t] = done]
  <2>5. th \in [Producers -> Threads] BY <1>0, <2>3 DEF Threads
  <2>6. th[t] = done /\ \A u \in Producers \ {t} : th[u] = thread[u] BY <1>0
  <2>7. locks' = locks BY <1>8 DEF Put
  <2> HIDE DEF th
  <2>8. ASSUME NEW u \in Producers
        PROVE  /\ thread'[u] = Idle <=> th[u] = Idle
               /\ th[u] # Idle => /\ thread'[u].key = th[u].key /\ thread'[u].owns = th[u].owns
                                  /\ thread'[u].pc = th[u].pc /\ thread'[u].ticket = th[u].ticket
    <3>1. CASE thread' = th BY <3>1
    <3>2. CASE thread' = Outdated(th, out) BY <2>5, <3>2, OutdatedSameSlot
    <3> QED BY <2>4, <3>1, <3>2 DEF th
  <2> HIDE DEF done
  <2>9. \A u \in Producers \ {t} : SameSlot(u) BY <2>6, <2>8 DEF SameSlot
  <2>10. ThreadSlots(t)' BY <2>2, <2>3, <2>6, <2>7, <2>8 DEF ThreadSlots, Key
  <2>11. thread'[t] # Idle /\ thread'[t].key = thread[t].key BY <2>3, <2>6, <2>8
  <2> QED BY <2>2, <2>7, <2>9, <2>10, <2>11, SlotsKept
<1>9. ASSUME NEW t \in Producers, MarkStale(t) PROVE Slots'
  <2>1. thread[t] \in Thread /\ Key(t) \in Keys BY <1>9, BusyThread DEF MarkStale, At
  <2>2. ThreadSlots(t) /\ thread[t].pc = "failed" /\ thread[t] # Idle
    BY <1>9 DEF Slots, MarkStale, At, Idle
  <2>3. /\ thread'[t] # Idle /\ thread'[t].key = thread[t].key /\ thread'[t].owns = thread[t].owns
        /\ IF t \in Keys THEN thread'[t].pc = "release" ELSE thread'[t].pc = "fallback"
    BY <1>0, <1>9, <2>1 DEF MarkStale, GoTo, Thread, Idle
  <2>4. locks' = locks /\ \A u \in Producers \ {t} : SameSlot(u)
    BY <1>0, <1>9 DEF MarkStale, GoTo, SameSlot
  <2>5. ThreadSlots(t)' BY <2>2, <2>3, <2>4 DEF ThreadSlots, Key
  <2> QED BY <2>2, <2>3, <2>4, <2>5, SlotsKept
<1>10. ASSUME NEW t \in Producers, Fallback(t) PROVE Slots'
  <2>1. thread[t] \in Thread /\ Key(t) \in Keys BY <1>10, BusyThread DEF Fallback, At
  <2>2. ThreadSlots(t) /\ thread[t].pc = "fallback" /\ thread[t] # Idle
    BY <1>10 DEF Slots, Fallback, At, Idle
  <2>3. /\ thread'[t] # Idle /\ thread'[t].key = thread[t].key /\ thread'[t].owns = thread[t].owns
        /\ IF thread[t].owns THEN thread'[t].pc = "release" ELSE thread'[t].pc \in {"served", "raised"}
    <3>1. PICK pc, val : pc \in {"served", "raised"} /\ thread'[t] = Finish(t, pc, val)
      BY <1>0, <1>10 DEF Fallback
    <3>2. CASE thread[t].owns
      <4>1. thread'[t] = [thread[t] EXCEPT !.pc = "release", !.val = val] BY <3>1, <3>2 DEF Finish
      <4> QED BY <2>1, <3>2, <4>1 DEF Thread, Idle
    <3>3. CASE ~ thread[t].owns
      <4>1. thread'[t] = Done(t, pc, val) BY <3>1, <3>3 DEF Finish
      <4> QED BY <2>1, <3>1, <3>3, <4>1 DEF Done, Thread, Idle
    <3> QED BY <3>2, <3>3
  <2>4. locks' = locks /\ \A u \in Producers \ {t} : SameSlot(u)
    BY <1>0, <1>10 DEF Fallback, SameSlot
  <2>5. ThreadSlots(t)' BY <2>2, <2>3, <2>4 DEF ThreadSlots, Key
  <2> QED BY <2>2, <2>3, <2>4, <2>5, SlotsKept
<1>11. ASSUME NEW t \in Producers, Release(t) PROVE Slots'
  <2>1. thread[t] \in Thread /\ Key(t) \in Keys BY <1>11, BusyThread DEF Release, At
  <2>2. ThreadSlots(t) /\ thread[t].pc = "release" /\ thread[t] # Idle
    BY <1>11 DEF Slots, Release, At, Idle
  <2> DEFINE k == Key(t)
  <2>3. locks[k] = t BY <2>2 DEF ThreadSlots
  <2>4. locks'[k] = NoOne /\ \A x \in Keys \ {k} : locks'[x] = locks[x]
    BY <1>11, <2>1 DEF Release, Types
  <2>5. \A u \in Producers \ {t} : thread'[u] = thread[u] BY <1>0, <1>11 DEF Release
  <2>6. t \notin Keys => /\ thread'[t].key = k /\ thread'[t].owns = FALSE
                         /\ thread'[t].pc \in {"served", "raised"}
    BY <1>0, <1>11, <2>1 DEF Release, Done, Thread, Key
  <2>7. t \in Keys => thread'[t] = Idle BY <1>0, <1>11 DEF Release
  <2>8. ASSUME NEW u \in Producers PROVE ThreadSlots(u)'
    <3>1. CASE u = t
      BY <2>4, <2>6, <2>7, <3>1 DEF ThreadSlots, Key, ConstantsAssumption, Producers
    <3>2. CASE u # t
      <4> SUFFICES ASSUME thread[u] # Idle PROVE ThreadSlots(u)'
        BY <2>5, <3>2 DEF ThreadSlots
      <4>1. thread[u].key \in Keys BY DEF Types, Thread
      <4>2. ThreadSlots(u) BY DEF Slots
      <4>3. (locks'[thread[u].key] = u) <=> (locks[thread[u].key] = u)
        BY <2>3, <2>4, <3>2, <4>1 DEF ConstantsAssumption, Producers
      <4> QED BY <2>5, <3>2, <4>2, <4>3 DEF ThreadSlots, Key
    <3> QED BY <3>1, <3>2
  <2>9. ASSUME NEW x \in Keys PROVE Held(x)'
    <3>1. CASE x = k BY <2>4, <3>1 DEF Held, Live
    <3>2. CASE x # k
      <4> SUFFICES ASSUME locks[x] # NoOne PROVE thread'[locks[x]] # Idle /\ thread'[locks[x]].key = x
        BY <2>4, <3>2 DEF Held, Live, Key
      <4>1. locks[x] \in Producers BY DEF Types
      <4>2. thread[locks[x]] # Idle /\ thread[locks[x]].key = x BY DEF Slots, Held, Live, Key
      <4>3. locks[x] # t BY <3>2, <4>2 DEF Key
      <4> QED BY <2>5, <4>1, <4>2, <4>3
    <3> QED BY <3>1, <3>2
  <2> QED BY <2>8, <2>9 DEF Slots
<1>12. ASSUME NEW k \in Keys, Write(k) \/ Age(k) PROVE Slots'
  <2>1. thread' = thread /\ locks' = locks BY <1>12 DEF Write, Age
  <2>2. \A u \in Producers : SameSlot(u) BY <2>1 DEF SameSlot
  <2> QED BY <2>1, <2>2, SlotsOutdated
<1>13. ASSUME Invalidate PROVE Slots'
  <2>1. PICK out : thread' = Outdated(thread, out) BY <1>13 DEF Invalidate
  <2>2. \A u \in Producers : SameSlot(u) BY <1>0, <2>1, OutdatedSameSlot DEF SameSlot
  <2>3. locks' = locks BY <1>13 DEF Invalidate
  <2> QED BY <2>2, <2>3, SlotsOutdated
<1>14. CASE UNCHANGED vars BY <1>14, SlotsOutdated DEF vars, SameSlot
<1> QED BY <1>1, <1>2, <1>3, <1>4, <1>5, <1>6, <1>7, <1>8, <1>9, <1>10, <1>11, <1>12, <1>13,
          <1>14 DEF Next, Step

----------------------------------------------------------------------------
(* The applied marker                                                      *)

\* Every step stores and drops an entry together with its applied ticket.
LEMMA AppliedNext ==
  Types /\ Types' /\ Slots /\ AppliedIffStored /\ [Next]_vars => AppliedIffStored'
<1> SUFFICES ASSUME Types, Types', Slots, AppliedIffStored, [Next]_vars PROVE AppliedIffStored'
  OBVIOUS
<1>1. ASSUME NEW t \in Producers, Put(t) PROVE AppliedIffStored'
  <2>1. CASE Overtaken(t) BY <1>1, <2>1 DEF Put, AppliedIffStored, Stored
  <2>2. CASE ~ Overtaken(t)
    <3>1. PICK out :
           /\ entries' = [x \in Keys |-> IF x \in out THEN NoEntry
                                         ELSE IF x = Key(t) THEN Snapshot(t) ELSE entries[x]]
           /\ applied' = [x \in Keys |-> IF x \in out THEN 0
                                         ELSE IF x = Key(t) THEN thread[t].ticket ELSE applied[x]]
      BY <1>1, <2>2, PutStores
    <3>2. thread[t].ticket # 0 BY <1>1 DEF Put, At, Slots, ThreadSlots, Idle
    <3>3. Snapshot(t) # NoEntry BY DEF Snapshot, NoEntry
    <3> QED BY <3>1, <3>2, <3>3 DEF AppliedIffStored, Stored
  <2> QED BY <2>1, <2>2
<1>2. ASSUME NEW t \in Producers, MarkStale(t) PROVE AppliedIffStored'
  <2>1. \A k \in Keys : entries'[k] = NoEntry <=> entries[k] = NoEntry
    <3>1. Key(t) \in Keys BY <1>2, BusyThread DEF MarkStale, At
    <3>2. entries[Key(t)] # NoEntry => [entries[Key(t)] EXCEPT !.stale = TRUE] # NoEntry
      BY <3>1, EntryVal DEF Entry, NoEntry, Lives
    <3> QED BY <1>2, <3>1, <3>2 DEF MarkStale, Types
  <2> QED BY <1>2, <2>1 DEF MarkStale, AppliedIffStored, Stored
<1>3. ASSUME NEW k \in Keys, Age(k) PROVE AppliedIffStored'
  <2>1. entries[k] \in Entry BY <1>3 DEF Age, Types, NoEntry
  <2>2. entries'[k] # NoEntry /\ \A x \in Keys \ {k} : entries'[x] = entries[x]
    BY <1>3, <2>1 DEF Age, Types, Entry, NoEntry
  <2>3. entries[k] # NoEntry BY <2>1 DEF Entry, NoEntry, Lives
  <2> QED BY <1>3, <2>2, <2>3 DEF Age, AppliedIffStored, Stored
<1>4. ASSUME Invalidate PROVE AppliedIffStored'
  <2>1. PICK out : /\ entries' = [k \in Keys |-> IF k \in out THEN NoEntry ELSE entries[k]]
                   /\ Forget(out)
    BY <1>4 DEF Invalidate
  <2> QED BY <2>1 DEF Forget, AppliedIffStored, Stored
<1>5. CASE UNCHANGED <<entries, applied>> BY <1>5 DEF AppliedIffStored, Stored
<1>6. ASSUME NEW t \in Producers, CheckStale(t) \/ Trigger(t) \/ Begin(t) \/ Slot(t) \/ WaitEnds(t)
                \/ FetchReads(t) \/ FetchRaises(t) \/ Fallback(t) \/ Release(t)
      PROVE  UNCHANGED <<entries, applied>>
  BY <1>6 DEF CheckStale, Trigger, Begin, Slot, WaitEnds, FetchReads, FetchRaises, Fallback, Release
<1>7. ASSUME NEW t \in Callers, NEW k \in Keys, Lookup(t, k) \/ Write(k)
      PROVE  UNCHANGED <<entries, applied>>
  BY <1>7 DEF Lookup, Write
<1>8. ASSUME NEW k \in Keys, Write(k) PROVE UNCHANGED <<entries, applied>> BY <1>8 DEF Write
<1> QED BY <1>1, <1>2, <1>3, <1>4, <1>5, <1>6, <1>7, <1>8 DEF Next, Step, vars

----------------------------------------------------------------------------
(* Tickets                                                                 *)

Ticketed(t) == thread[t] # Idle /\ thread[t].ticket # 0

\* Tickets and fetches are counted, and until its key is forgotten a thread's
\* ticket tells whether it started before another fetch or the stored snapshot.
Counted(t) == Ticketed(t) => /\ thread[t].seq <= started[Key(t)]
                             /\ ~ thread[t].old => thread[t].ticket <= tickets[Key(t)]
Ordered(t, u) ==
  Ticketed(t) /\ Ticketed(u) /\ Key(t) = Key(u) /\ ~ thread[t].old /\ thread[t].seq < thread[u].seq
    => thread[t].ticket < thread[u].ticket
StoreOrdered(t, k) ==
  Ticketed(t) /\ Key(t) = k /\ k \in Stored /\ ~ thread[t].old /\ thread[t].seq < entries[k].seq
    => thread[t].ticket < applied[k]

Order ==
  /\ \A t \in Producers : Counted(t)
  /\ \A t, u \in Producers : Ordered(t, u)
  /\ \A t \in Producers, k \in Keys : StoreOrdered(t, k)
  /\ \A k \in Stored : entries[k].seq <= started[k]

\* What u held before it still holds, unless it is done or its key was forgotten.
SameTicket(u) ==
  Ticketed(u)' => /\ Ticketed(u)
                  /\ thread'[u].key = thread[u].key /\ thread'[u].ticket = thread[u].ticket
                  /\ thread'[u].seq = thread[u].seq /\ (thread[u].old => thread'[u].old)

\* A step that starts no fetch and stores no snapshot keeps the order.
LEMMA OrderKept ==
  ASSUME Types, Types', Order, started' = started,
         \A u \in Producers : SameTicket(u),
         \A k \in Keys : \/ tickets'[k] = tickets[k]
                         \/ \A u \in Producers : Ticketed(u)' /\ thread'[u].key = k => thread'[u].old,
         \A k \in Keys : entries'[k] # NoEntry =>
            entries[k] # NoEntry /\ entries'[k].seq = entries[k].seq /\ applied'[k] = applied[k]
  PROVE  Order'
<1>0. ASSUME NEW u \in Producers, Ticketed(u)
      PROVE  /\ thread[u].old \in BOOLEAN /\ thread[u].key \in Keys
             /\ thread[u].ticket \in Nat /\ thread[u].seq \in Nat
  <2>1. thread[u] \in Thread BY <1>0 DEF Ticketed, Types
  <2> QED BY <2>1 DEF Thread
<1>1. ASSUME NEW u \in Producers PROVE Counted(u)'
  <2> SUFFICES ASSUME Ticketed(u)'
               PROVE  /\ thread'[u].seq <= started'[thread'[u].key]
                      /\ ~ thread'[u].old => thread'[u].ticket <= tickets'[thread'[u].key]
    BY DEF Counted, Key
  <2>1. SameTicket(u) /\ Counted(u) BY DEF Order
  <2> QED BY <1>0, <2>1 DEF SameTicket, Counted, Key
<1>2. ASSUME NEW t \in Producers, NEW u \in Producers PROVE Ordered(t, u)'
  <2>1. SameTicket(t) /\ SameTicket(u) /\ Ordered(t, u) BY DEF Order
  <2> QED BY <2>1 DEF SameTicket, Ordered, Key
<1>3. ASSUME NEW t \in Producers, NEW k \in Keys PROVE StoreOrdered(t, k)'
  <2>1. SameTicket(t) /\ StoreOrdered(t, k) BY DEF Order
  <2> QED BY <2>1 DEF SameTicket, StoreOrdered, Key, Stored
<1>4. \A k \in Stored' : entries'[k].seq <= started'[k]
  BY DEF Order, Stored
<1> QED BY <1>1, <1>2, <1>3, <1>4 DEF Order

\* Neither does one that starts a fetch.
LEMMA OrderStarted ==
  ASSUME Types, Types', Order, NEW t \in Producers, NEW k \in Keys,
         thread'[t] # Idle, thread'[t].key = k,
         thread'[t].ticket = tickets[k] + 1, thread'[t].seq = started[k] + 1,
         tickets' = [tickets EXCEPT ![k] = @ + 1], started' = [started EXCEPT ![k] = @ + 1],
         UNCHANGED <<entries, applied>>,
         \A u \in Producers \ {t} : SameTicket(u)
  PROVE  Order'
<1>0. ASSUME NEW u \in Producers, Ticketed(u)
      PROVE  /\ thread[u].old \in BOOLEAN /\ thread[u].key \in Keys
             /\ thread[u].ticket \in Nat /\ thread[u].seq \in Nat
  <2>1. thread[u] \in Thread BY <1>0 DEF Ticketed, Types
  <2> QED BY <2>1 DEF Thread
<1>1. /\ tickets'[k] = tickets[k] + 1 /\ started'[k] = started[k] + 1
      /\ tickets[k] \in Nat /\ started[k] \in Nat
      /\ \A x \in Keys \ {k} : tickets'[x] = tickets[x] /\ started'[x] = started[x]
      /\ \A x \in Keys : tickets[x] \in Nat /\ started[x] \in Nat
  BY DEF Types
<1>2. ASSUME NEW u \in Producers \ {t}, Ticketed(u)'
      PROVE  /\ Ticketed(u) /\ thread'[u].key = thread[u].key /\ thread'[u].ticket = thread[u].ticket
             /\ thread'[u].seq = thread[u].seq /\ (thread[u].old => thread'[u].old)
             /\ thread[u].key \in Keys /\ thread[u].ticket \in Nat /\ thread[u].seq \in Nat
             /\ thread[u].seq <= started[thread[u].key]
             /\ ~ thread[u].old => thread[u].ticket <= tickets[thread[u].key]
  BY <1>0, <1>2 DEF SameTicket, Order, Counted, Key
<1>3. ASSUME NEW u \in Producers PROVE Counted(u)'
  <2>1. CASE u = t BY <1>1, <2>1 DEF Counted, Key
  <2>2. CASE u # t
    <3> SUFFICES ASSUME Ticketed(u)'
                 PROVE  /\ thread'[u].seq <= started'[thread'[u].key]
                        /\ ~ thread'[u].old => thread'[u].ticket <= tickets'[thread'[u].key]
      BY DEF Counted, Key
    <3> QED BY <1>1, <1>2, <2>2
  <2> QED BY <2>1, <2>2
<1>4. ASSUME NEW v \in Producers, NEW u \in Producers PROVE Ordered(v, u)'
  <2> SUFFICES ASSUME Ticketed(v)', Ticketed(u)', thread'[v].key = thread'[u].key, ~ thread'[v].old,
                      thread'[v].seq < thread'[u].seq
               PROVE  thread'[v].ticket < thread'[u].ticket
    BY DEF Ordered, Key
  <2>1. CASE v = t /\ u = t BY <1>1, <2>1
  <2>2. CASE v = t /\ u # t BY <1>1, <1>2, <2>2
  <2>3. CASE v # t /\ u = t BY <1>1, <1>2, <2>3
  <2>4. CASE v # t /\ u # t
    <3>1. Ordered(v, u) BY DEF Order
    <3> QED BY <1>2, <2>4, <3>1 DEF Ordered, Key
  <2> QED BY <2>1, <2>2, <2>3, <2>4
<1>5. ASSUME NEW v \in Producers, NEW x \in Keys PROVE StoreOrdered(v, x)'
  <2> SUFFICES ASSUME Ticketed(v)', thread'[v].key = x, entries[x] # NoEntry, ~ thread'[v].old,
                      thread'[v].seq < entries[x].seq
               PROVE  thread'[v].ticket < applied[x]
    BY DEF StoreOrdered, Key, Stored
  <2>1. entries[x].seq <= started[x] /\ entries[x].seq \in Nat BY EntryVal DEF Order, Stored
  <2>2. CASE v = t BY <1>1, <2>1, <2>2
  <2>3. CASE v # t
    <3>1. StoreOrdered(v, x) BY DEF Order
    <3> QED BY <1>2, <2>3, <3>1 DEF StoreOrdered, Key, Stored
  <2> QED BY <2>2, <2>3
<1>6. \A x \in Stored' : entries'[x].seq <= started'[x]
  <2> SUFFICES ASSUME NEW x \in Keys, entries[x] # NoEntry PROVE entries[x].seq <= started'[x]
    BY DEF Stored
  <2>1. entries[x].seq <= started[x] /\ entries[x].seq \in Nat BY EntryVal DEF Order, Stored
  <2> QED BY <1>1, <2>1
<1> QED BY <1>3, <1>4, <1>5, <1>6 DEF Order

\* A snapshot that is stored keeps tickets in the order the fetches started.
LEMMA OrderPut ==
  ASSUME Types, Types', Slots, Order, NEW t \in Producers, Put(t), ~ Overtaken(t)
  PROVE  Order'
<1>0. thread \in [Producers -> Threads] BY DEF Types, Threads
<1>1. thread[t] \in Thread /\ Key(t) \in Keys BY BusyThread DEF Put, At
<1>2. Ticketed(t) BY DEF Put, At, Slots, ThreadSlots, Ticketed, Idle
<1> DEFINE done == Finish(t, "served", thread[t].val)
           th == [thread EXCEPT ![t] = done]
<1>3. PICK out :
        /\ entries' = [x \in Keys |-> IF x \in out THEN NoEntry
                                      ELSE IF x = Key(t) THEN Snapshot(t) ELSE entries[x]]
        /\ tickets' = [x \in Keys |-> IF x \in out THEN 0 ELSE tickets[x]]
        /\ applied' = [x \in Keys |-> IF x \in out THEN 0
                                      ELSE IF x = Key(t) THEN thread[t].ticket ELSE applied[x]]
        /\ thread' = Outdated(th, out)
  BY PutStores
<1>4. /\ done \in Thread /\ done # Idle /\ done.key = thread[t].key
      /\ \/ done.ticket = 0
         \/ done.ticket = thread[t].ticket /\ done.seq = thread[t].seq /\ done.old = thread[t].old
  BY <1>1 DEF Finish, Done, Thread, Idle
<1>5. th \in [Producers -> Threads] BY <1>0, <1>4 DEF Threads
<1>6. th[t] = done /\ \A u \in Producers \ {t} : th[u] = thread[u] BY <1>0
<1>7. ASSUME NEW u \in Producers
      PROVE  SameTicket(u) /\ (Ticketed(u)' /\ thread'[u].key \in out => thread'[u].old)
  <2> HIDE DEF th, done
  <2>1. /\ thread'[u] = Idle <=> th[u] = Idle
        /\ th[u] # Idle =>
             /\ thread'[u].key = th[u].key /\ thread'[u].ticket = th[u].ticket
             /\ thread'[u].seq = th[u].seq /\ (th[u].old => thread'[u].old)
             /\ th[u].key \in out /\ th[u].ticket # 0 => thread'[u].old
    BY <1>3, <1>5, OutdatedSameSlot
  <2>2. CASE u = t BY <1>2, <1>4, <1>6, <2>1, <2>2 DEF SameTicket, Ticketed
  <2>3. CASE u # t BY <1>6, <2>1, <2>3 DEF SameTicket, Ticketed
  <2> QED BY <2>2, <2>3
<1> HIDE DEF th, done
<1>8. started' = started BY DEF Put
<1>9. ASSUME NEW u \in Producers, Ticketed(u)
      PROVE  /\ thread[u].key \in Keys /\ thread[u].ticket \in Nat /\ thread[u].seq \in Nat
  <2>1. thread[u] \in Thread BY <1>9 DEF Ticketed, Types
  <2> QED BY <2>1 DEF Thread
<1>10. ASSUME NEW u \in Producers PROVE Counted(u)'
  <2> SUFFICES ASSUME Ticketed(u)'
               PROVE  /\ thread'[u].seq <= started'[thread'[u].key]
                      /\ ~ thread'[u].old => thread'[u].ticket <= tickets'[thread'[u].key]
    BY DEF Counted, Key
  <2>1. SameTicket(u) /\ Counted(u) BY <1>7 DEF Order
  <2>2. thread[u].key \in Keys BY <1>9, <2>1 DEF SameTicket
  <2> QED BY <1>3, <1>7, <1>8, <2>1, <2>2 DEF SameTicket, Counted, Key
<1>11. ASSUME NEW v \in Producers, NEW u \in Producers PROVE Ordered(v, u)'
  <2>1. SameTicket(v) /\ SameTicket(u) /\ Ordered(v, u) BY <1>7 DEF Order
  <2> QED BY <2>1 DEF SameTicket, Ordered, Key
<1>12. ASSUME NEW v \in Producers, NEW x \in Keys PROVE StoreOrdered(v, x)'
  <2> SUFFICES ASSUME Ticketed(v)', thread'[v].key = x, entries'[x] # NoEntry, ~ thread'[v].old,
                      thread'[v].seq < entries'[x].seq
               PROVE  thread'[v].ticket < applied'[x]
    BY DEF StoreOrdered, Key, Stored
  <2>1. SameTicket(v) /\ StoreOrdered(v, x) /\ Ordered(v, t) BY <1>7 DEF Order
  <2>2. x \notin out BY <1>7
  <2>3. CASE x = Key(t)
    <3>1. entries'[x].seq = thread[t].seq /\ applied'[x] = thread[t].ticket
      BY <1>3, <2>2, <2>3 DEF Snapshot
    <3> QED BY <1>2, <2>1, <2>3, <3>1 DEF SameTicket, Ordered, Key
  <2>4. CASE x # Key(t)
    <3>1. entries'[x] = entries[x] /\ applied'[x] = applied[x] BY <1>3, <2>2, <2>4
    <3> QED BY <2>1, <3>1 DEF SameTicket, StoreOrdered, Key, Stored
  <2> QED BY <2>3, <2>4
<1>13. \A x \in Stored' : entries'[x].seq <= started'[x]
  <2> SUFFICES ASSUME NEW x \in Keys, entries'[x] # NoEntry PROVE entries'[x].seq <= started[x]
    BY <1>8 DEF Stored
  <2>1. CASE x = Key(t)
    <3>1. entries'[x].seq = thread[t].seq BY <1>3, <2>1 DEF Snapshot
    <3> QED BY <1>2, <2>1, <3>1 DEF Order, Counted
  <2>2. CASE x # Key(t) BY <1>3, <2>2 DEF Order, Stored
  <2> QED BY <2>1, <2>2
<1> QED BY <1>10, <1>11, <1>12, <1>13 DEF Order

\* Every step keeps tickets in the order the fetches started.
LEMMA OrderNext == Types /\ Types' /\ Slots /\ Order /\ [Next]_vars => Order'
<1> SUFFICES ASSUME Types, Types', Slots, Order, [Next]_vars PROVE Order'
  OBVIOUS
<1>0. thread \in [Producers -> Threads] BY DEF Types, Threads
\* The steps of t that change no ticket, marker or entry.
<1>a. ASSUME NEW t \in Producers, SameTicket(t), \A u \in Producers \ {t} : thread'[u] = thread[u],
             UNCHANGED <<entries, tickets, applied, started>>
      PROVE  Order'
  <2>1. \A u \in Producers : SameTicket(u) BY <1>a DEF SameTicket, Ticketed
  <2> QED BY <1>a, <2>1, OrderKept
<1>1. ASSUME NEW t \in Callers, NEW k \in Keys, Lookup(t, k) PROVE Order'
  <2>1. t \in Producers BY DEF Producers
  <2>2. thread'[t].ticket = 0 BY <1>0, <1>1, <2>1 DEF Lookup
  <2>3. SameTicket(t) BY <2>2 DEF SameTicket, Ticketed
  <2>4. \A u \in Producers \ {t} : thread'[u] = thread[u] BY <1>0, <1>1, <2>1 DEF Lookup
  <2>5. UNCHANGED <<entries, tickets, applied, started>> BY <1>1 DEF Lookup
  <2> QED BY <2>1, <2>3, <2>4, <2>5, <1>a
<1>2. ASSUME NEW t \in Producers, CheckStale(t) PROVE Order'
  <2>1. thread[t] \in Thread BY <1>2, BusyThread DEF CheckStale, At
  <2>2. SameTicket(t) BY <1>0, <1>2, <2>1 DEF CheckStale, GoTo, SameTicket, Ticketed, Thread, Idle
  <2>3. (\A u \in Producers \ {t} : thread'[u] = thread[u])
        /\ UNCHANGED <<entries, tickets, applied, started>>
    BY <1>0, <1>2 DEF CheckStale, GoTo
  <2> QED BY <2>2, <2>3, <1>a
<1>3. ASSUME NEW t \in Producers, Trigger(t) PROVE Order'
  <2>1. thread[t] \in Thread /\ Key(t) \in Keys BY <1>3, BusyThread DEF Trigger, At
  <2> DEFINE done == Done(t, "served", thread[t].val)
             k == Key(t)
  <2>2. done.ticket = 0 BY <2>1 DEF Done, Thread
  <2>3. CASE Live(k)
    <3>1. thread' = [thread EXCEPT ![t] = done] /\ UNCHANGED <<entries, tickets, applied, started>>
      BY <1>3, <2>3 DEF Trigger
    <3>2. SameTicket(t) BY <1>0, <2>2, <3>1 DEF SameTicket, Ticketed
    <3>3. \A u \in Producers \ {t} : thread'[u] = thread[u] BY <1>0, <3>1
    <3> QED BY <3>1, <3>2, <3>3, <1>a
  <2>4. CASE ~ Live(k)
    <3> DEFINE new == [pc |-> "fetch", key |-> k, ticket |-> tickets[k] + 1, owns |-> TRUE,
                     val |-> 0, seq |-> started[k] + 1, old |-> FALSE, floor |-> 0, idleFloor |-> 0]
    <3>1. /\ thread' = [thread EXCEPT ![t] = done, ![k] = new]
          /\ tickets' = [tickets EXCEPT ![k] = @ + 1] /\ started' = [started EXCEPT ![k] = @ + 1]
          /\ UNCHANGED <<entries, applied>>
      BY <1>3, <2>4 DEF Trigger
    <3>2. k \in Producers BY <2>1 DEF Producers
    <3>3. /\ new.key = k /\ new # Idle /\ new.ticket = tickets[k] + 1 /\ new.seq = started[k] + 1
      BY <2>1 DEF Idle
    <3> HIDE DEF done, new
    <3>4. thread'[k] = new BY <1>0, <3>1, <3>2
    <3>5. ASSUME NEW u \in Producers \ {k} PROVE SameTicket(u)
      <4>1. CASE u = t BY <1>0, <2>2, <3>1, <3>5, <4>1 DEF SameTicket, Ticketed
      <4>2. CASE u # t
        <5>1. thread'[u] = thread[u] BY <1>0, <3>1, <3>5, <4>2
        <5> QED BY <5>1 DEF SameTicket, Ticketed
      <4> QED BY <4>1, <4>2
    <3> QED BY <2>1, <3>1, <3>2, <3>3, <3>4, <3>5, OrderStarted
  <2> QED BY <2>3, <2>4
<1>4. ASSUME NEW t \in Producers, Begin(t) PROVE Order'
  <2>1. thread[t] \in Thread /\ Key(t) \in Keys BY <1>4, BusyThread DEF Begin, At
  <2> DEFINE k == Key(t)
  <2>2. thread'[t] = [thread[t] EXCEPT !.pc = "slot", !.ticket = tickets[k] + 1, !.seq = started[k] + 1]
    BY <1>0, <1>4 DEF Begin
  <2>3. /\ thread'[t] # Idle /\ thread'[t].key = k
        /\ thread'[t].ticket = tickets[k] + 1 /\ thread'[t].seq = started[k] + 1
    BY <2>1, <2>2 DEF Thread, Idle, Key
  <2>4. /\ tickets' = [tickets EXCEPT ![k] = @ + 1] /\ started' = [started EXCEPT ![k] = @ + 1]
        /\ UNCHANGED <<entries, applied>>
    BY <1>4 DEF Begin
  <2>5. \A u \in Producers \ {t} : SameTicket(u) BY <1>0, <1>4 DEF Begin, SameTicket, Ticketed
  <2> QED BY <2>1, <2>3, <2>4, <2>5, OrderStarted
<1>5. ASSUME NEW t \in Producers, Slot(t) PROVE Order'
  <2>1. thread[t] \in Thread BY <1>5, BusyThread DEF Slot, At
  <2>2. SameTicket(t) BY <1>0, <1>5, <2>1 DEF Slot, GoTo, SameTicket, Ticketed, Thread, Idle
  <2>3. (\A u \in Producers \ {t} : thread'[u] = thread[u])
        /\ UNCHANGED <<entries, tickets, applied, started>>
    BY <1>0, <1>5 DEF Slot, GoTo
  <2> QED BY <2>2, <2>3, <1>a
<1>6. ASSUME NEW t \in Producers, WaitEnds(t) PROVE Order'
  <2>1. thread[t] \in Thread BY <1>6, BusyThread DEF WaitEnds, At
  <2>2. thread'[t] = [thread[t] EXCEPT !.pc = "fetch"] \/ thread'[t] = Done(t, "served", entries[Key(t)].val)
    BY <1>0, <1>6 DEF WaitEnds
  <2>3. SameTicket(t)
    <3>1. CASE thread'[t] = [thread[t] EXCEPT !.pc = "fetch"]
      BY <2>1, <3>1 DEF SameTicket, Ticketed, Thread, Idle
    <3>2. CASE thread'[t] = Done(t, "served", entries[Key(t)].val)
      BY <2>1, <3>2 DEF SameTicket, Ticketed, Done, Thread
    <3> QED BY <2>2, <3>1, <3>2
  <2>4. (\A u \in Producers \ {t} : thread'[u] = thread[u])
        /\ UNCHANGED <<entries, tickets, applied, started>>
    BY <1>0, <1>6 DEF WaitEnds
  <2> QED BY <2>3, <2>4, <1>a
<1>7. ASSUME NEW t \in Producers, FetchReads(t) \/ FetchRaises(t) PROVE Order'
  <2>1. thread[t] \in Thread BY <1>7, BusyThread DEF FetchReads, FetchRaises, At
  <2>2. SameTicket(t)
    BY <1>0, <1>7, <2>1 DEF FetchReads, FetchRaises, GoTo, SameTicket, Ticketed, Thread, Idle
  <2>3. (\A u \in Producers \ {t} : thread'[u] = thread[u])
        /\ UNCHANGED <<entries, tickets, applied, started>>
    BY <1>0, <1>7 DEF FetchReads, FetchRaises, GoTo
  <2> QED BY <2>2, <2>3, <1>a
<1>8. ASSUME NEW t \in Producers, Put(t) PROVE Order'
  <2>1. CASE ~ Overtaken(t) BY <1>8, <2>1, OrderPut
  <2>2. CASE Overtaken(t)
    <3>1. thread[t] \in Thread BY <1>8, BusyThread DEF Put, At
    <3>2. thread'[t] = Finish(t, "served", thread[t].val) BY <1>0, <1>8, <2>2 DEF Put
    <3>3. SameTicket(t) BY <3>1, <3>2 DEF SameTicket, Ticketed, Finish, Done, Thread, Idle
    <3>4. (\A u \in Producers \ {t} : thread'[u] = thread[u])
          /\ UNCHANGED <<entries, tickets, applied, started>>
      BY <1>0, <1>8, <2>2 DEF Put
    <3> QED BY <3>3, <3>4, <1>a
  <2> QED BY <2>1, <2>2
<1>9. ASSUME NEW t \in Producers, MarkStale(t) PROVE Order'
  <2>1. thread[t] \in Thread /\ Key(t) \in Keys BY <1>9, BusyThread DEF MarkStale, At
  <2>2. SameTicket(t) BY <1>0, <1>9, <2>1 DEF MarkStale, GoTo, SameTicket, Ticketed, Thread, Idle
  <2>3. \A u \in Producers : SameTicket(u)
    BY <1>0, <1>9, <2>2 DEF MarkStale, GoTo, SameTicket, Ticketed
  <2>4. UNCHANGED <<tickets, applied, started>> BY <1>9 DEF MarkStale
  <2>5. \A k \in Keys : entries'[k] # NoEntry => entries[k] # NoEntry /\ entries'[k].seq = entries[k].seq
    <3>1. entries[Key(t)] # NoEntry => [entries[Key(t)] EXCEPT !.stale = TRUE].seq = entries[Key(t)].seq
      BY <2>1, EntryVal DEF Entry
    <3> QED BY <1>9, <2>1, <3>1 DEF MarkStale, Types
  <2> QED BY <2>3, <2>4, <2>5, OrderKept
<1>10. ASSUME NEW t \in Producers, Fallback(t) PROVE Order'
  <2>1. thread[t] \in Thread BY <1>10, BusyThread DEF Fallback, At
  <2>2. PICK pc, val : thread'[t] = Finish(t, pc, val) BY <1>0, <1>10 DEF Fallback
  <2>3. SameTicket(t) BY <2>1, <2>2 DEF SameTicket, Ticketed, Finish, Done, Thread, Idle
  <2>4. (\A u \in Producers \ {t} : thread'[u] = thread[u])
        /\ UNCHANGED <<entries, tickets, applied, started>>
    BY <1>0, <1>10 DEF Fallback
  <2> QED BY <2>3, <2>4, <1>a
<1>11. ASSUME NEW t \in Producers, Release(t) PROVE Order'
  <2>1. thread[t] \in Thread BY <1>11, BusyThread DEF Release, At
  <2>2. thread'[t] = Idle \/ \E pc, val : thread'[t] = Done(t, pc, val) BY <1>0, <1>11 DEF Release
  <2>3. SameTicket(t) BY <2>1, <2>2 DEF SameTicket, Ticketed, Done, Thread
  <2>4. (\A u \in Producers \ {t} : thread'[u] = thread[u])
        /\ UNCHANGED <<entries, tickets, applied, started>>
    BY <1>0, <1>11 DEF Release
  <2> QED BY <2>3, <2>4, <1>a
<1>12. ASSUME UNCHANGED <<entries, tickets, applied, started, thread>> PROVE Order'
  <2>1. \A u \in Producers : SameTicket(u) BY <1>12 DEF SameTicket, Ticketed
  <2> QED BY <1>12, <2>1, OrderKept
<1>13. ASSUME NEW k \in Keys, Age(k) PROVE Order'
  <2>1. thread' = thread /\ UNCHANGED <<tickets, applied, started>> BY <1>13 DEF Age
  <2>2. \A u \in Producers : SameTicket(u) BY <2>1 DEF SameTicket, Ticketed
  <2>3. entries[k] \in Entry /\ entries[k] # NoEntry BY <1>13 DEF Age, Types, NoEntry
  <2>4. \A x \in Keys : entries'[x] # NoEntry => entries[x] # NoEntry /\ entries'[x].seq = entries[x].seq
    BY <1>13, <2>3 DEF Age, Types, Entry
  <2> QED BY <2>1, <2>2, <2>4, OrderKept
<1>14. ASSUME Invalidate PROVE Order'
  <2>1. PICK out : /\ entries' = [k \in Keys |-> IF k \in out THEN NoEntry ELSE entries[k]]
                   /\ Forget(out)
                   /\ thread' = Outdated(thread, out)
    BY <1>14 DEF Invalidate
  <2>2. started' = started BY <1>14 DEF Invalidate
  <2>3. ASSUME NEW u \in Producers
        PROVE  SameTicket(u) /\ (Ticketed(u)' /\ thread'[u].key \in out => thread'[u].old)
    BY <1>0, <2>1, OutdatedSameSlot DEF SameTicket, Ticketed
  <2>4. \A k \in Keys : k \notin out => tickets'[k] = tickets[k] /\ applied'[k] = applied[k]
    BY <2>1 DEF Forget
  <2> QED BY <2>1, <2>2, <2>3, <2>4, OrderKept
<1> QED BY <1>1, <1>2, <1>3, <1>4, <1>5, <1>6, <1>7, <1>8, <1>9, <1>10, <1>11, <1>12, <1>13,
          <1>14 DEF Next, Step, Write, vars

----------------------------------------------------------------------------
(* What an invalidation that met no fetch of its key promises              *)

\* A caller has a value to hand out.
Holds(t) ==
  /\ t \in Callers
  /\ \/ thread[t].pc \in {"check", "trigger", "served"}
     \/ At(t, "release") /\ thread[t].val # 0

\* A fetched value covers all that was promised of the key so far, a value to hand
\* out what was promised when the call began.
Covers(t) ==
  thread[t] # Idle =>
    /\ thread[t].idleFloor <= idleFloor[Key(t)]
    /\ At(t, "got") => thread[t].val >= idleFloor[Key(t)]
    /\ Holds(t) => thread[t].val >= thread[t].idleFloor

\* Every entry and every call covers what was promised of its key.
Promise ==
  /\ \A k \in Keys : /\ idleFloor[k] <= origin[k]
                     /\ entries[k] # NoEntry => entries[k].val >= idleFloor[k]
  /\ \A t \in Producers : Covers(t)

\* No step of a thread makes a promise or takes one back.
SamePromise == idleFloor' = idleFloor /\ origin' = origin

\* What the entries have to offer is unchanged, where they are kept.
SameOffers ==
  \A k \in Keys : entries'[k] # NoEntry => /\ entries[k] # NoEntry
                                           /\ entries'[k].val = entries[k].val

\* A thread that stands where it stood covers what it covered.
SameCall(u) ==
  /\ thread'[u] = Idle <=> thread[u] = Idle
  /\ thread[u] # Idle =>
       /\ thread'[u].pc = thread[u].pc /\ thread'[u].key = thread[u].key
       /\ thread'[u].val = thread[u].val /\ thread'[u].idleFloor = thread[u].idleFloor

LEMMA CallKept ==
  ASSUME Types, Promise, NEW u \in Producers, SameCall(u), idleFloor' = idleFloor
  PROVE  Covers(u)'
<1>1. Covers(u) BY DEF Promise
<1> QED BY <1>1 DEF Covers, Holds, SameCall, At, Key

LEMMA PromiseKept ==
  ASSUME Types, Promise, SamePromise, SameOffers, \A u \in Producers : Covers(u)'
  PROVE  Promise'
BY DEF Promise, SamePromise, SameOffers

\* A step of one thread.
LEMMA PromiseOfStep ==
  ASSUME Types, Promise, NEW t \in Producers, SamePromise, SameOffers, Covers(t)',
         \A u \in Producers \ {t} : thread'[u] = thread[u]
  PROVE  Promise'
<1>1. ASSUME NEW u \in Producers \ {t} PROVE Covers(u)'
  <2>1. SameCall(u) BY <1>1 DEF SameCall
  <2> QED BY <2>1, CallKept DEF SamePromise
<1> QED BY <1>1, PromiseKept

\* A call that is done or on its way to release its slot covers what it hands out.
LEMMA FinishCovers ==
  ASSUME Types, Promise, NEW t \in Producers, thread[t] \in Thread, SamePromise,
         NEW pc \in {"served", "raised"}, NEW val \in Nat,
         t \in Callers => val >= thread[t].idleFloor \/ (pc = "raised" /\ val = 0),
         thread'[t] = Finish(t, pc, val) \/ thread'[t] = Done(t, pc, val)
  PROVE  Covers(t)'
<1>1. thread[t].idleFloor <= idleFloor[Key(t)]
  BY DEF Promise, Covers, Thread, Idle
<1> DEFINE new == thread'[t]
<1>2. /\ new.key = thread[t].key /\ new.idleFloor = thread[t].idleFloor /\ new.val = val
      /\ new.pc = "release" \/ new.pc = pc
  BY DEF Finish, Done, Thread
<1>3. new.pc # "got"
  BY <1>2
<1>4. Holds(t)' => new.val >= new.idleFloor
  BY <1>2 DEF Holds, At
<1> QED BY <1>1, <1>2, <1>3, <1>4 DEF Covers, At, Key, SamePromise

\* Every step keeps what was promised.
LEMMA PromiseNext ==
  ConstantsAssumption /\ Types /\ Types' /\ Promise /\ [Next]_vars => Promise'
<1> SUFFICES ASSUME ConstantsAssumption, Types, Types', Promise, [Next]_vars PROVE Promise'
  OBVIOUS
<1>0. thread \in [Producers -> Threads] /\ idleFloor \in [Keys -> Nat] /\ origin \in [Keys -> Nat]
  BY DEF Types, Threads
<1>a. ASSUME NEW t \in Producers, thread[t] \in Thread
      PROVE  /\ thread[t] # Idle /\ Key(t) \in Keys
             /\ thread[t].idleFloor \in Nat /\ idleFloor[Key(t)] \in Nat
             /\ thread[t].idleFloor <= idleFloor[Key(t)]
  BY <1>0, <1>a DEF Promise, Covers, Thread, Idle, Key
<1>1. ASSUME NEW t \in Callers, NEW k \in Keys, Lookup(t, k) PROVE Promise'
  <2>1. t \in Producers BY DEF Producers
  <2> DEFINE e == entries[k]
             next == CASE e = NoEntry -> "begin" [] e.life = "fresh" -> "served" [] OTHER -> "check"
             new == [pc |-> next, key |-> k, ticket |-> 0, owns |-> FALSE,
                     val |-> IF next = "begin" THEN 0 ELSE e.val, seq |-> 0, old |-> FALSE,
                     floor |-> floor[k], idleFloor |-> idleFloor[k]]
  <2>2. thread' = [thread EXCEPT ![t] = new] BY <1>1 DEF Lookup
  <2>3. next \in {"begin", "served", "check"} /\ (next # "begin" => e # NoEntry)
    BY DEF NoEntry
  <2>4. next # "begin" => e.val >= idleFloor[k]
    BY <2>3 DEF Promise
  <2>5. /\ new.key = k /\ new.idleFloor = idleFloor[k] /\ new.pc \notin {"got", "release"}
        /\ new.pc \in {"check", "trigger", "served"} => new.val >= idleFloor[k]
    <3> HIDE DEF next, e
    <3> QED BY <2>3, <2>4
  <2>6. SamePromise /\ SameOffers
    BY <1>1 DEF Lookup, SamePromise, SameOffers
  <2> HIDE DEF new
  <2>7. thread'[t] = new /\ \A u \in Producers \ {t} : thread'[u] = thread[u]
    BY <1>0, <2>1, <2>2
  <2>8. Covers(t)'
    BY <1>0, <2>5, <2>6, <2>7 DEF Covers, Holds, At, Key, SamePromise
  <2> QED BY <2>1, <2>6, <2>7, <2>8, PromiseOfStep
<1>2. ASSUME NEW t \in Producers, CheckStale(t) PROVE Promise'
  <2>1. thread[t] \in Thread BY <1>2, BusyThread DEF CheckStale, At
  <2>2. \E pc \in {"trigger", "begin"} : thread' = [thread EXCEPT ![t].pc = pc]
    BY <1>2 DEF CheckStale, GoTo
  <2>3. SamePromise /\ SameOffers /\ \A u \in Producers \ {t} : thread'[u] = thread[u]
    BY <1>0, <1>2, <2>2 DEF CheckStale, SamePromise, SameOffers
  <2>4. /\ thread'[t].pc \in {"trigger", "begin"} /\ thread'[t].key = thread[t].key
        /\ thread'[t].val = thread[t].val /\ thread'[t].idleFloor = thread[t].idleFloor
    BY <1>0, <2>1, <2>2 DEF Thread
  <2>5. t \in Callers => thread[t].val >= thread[t].idleFloor
    BY <1>2, <2>1, <1>a DEF CheckStale, At, Promise, Covers, Holds
  <2>6. Covers(t)'
    BY <1>a, <2>1, <2>3, <2>4, <2>5 DEF Covers, Holds, At, Key, SamePromise
  <2> QED BY <2>3, <2>6, PromiseOfStep
<1>3. ASSUME NEW t \in Producers, Trigger(t) PROVE Promise'
  <2>1. thread[t] \in Thread /\ Key(t) \in Keys BY <1>3, BusyThread DEF Trigger, At
  <2>k. PICK k \in Keys : k = Key(t) BY <2>1
  <2> DEFINE done == Done(t, "served", thread[t].val)
             new == [pc |-> "fetch", key |-> k, ticket |-> tickets[k] + 1, owns |-> TRUE,
                     val |-> 0, seq |-> started[k] + 1, old |-> FALSE, floor |-> 0, idleFloor |-> 0]
  <2>2. (t \in Callers => thread[t].val >= thread[t].idleFloor) /\ thread[t].val \in Nat
    BY <1>3, <2>1, <1>a DEF Trigger, At, Promise, Covers, Holds, Thread
  <2>3. SamePromise /\ SameOffers
    BY <1>3 DEF Trigger, SamePromise, SameOffers
  <2>4. new.pc = "fetch" /\ new.key = k /\ new.idleFloor = 0
    OBVIOUS
  <2>5. k \in Producers BY DEF Producers
  <2>6. \/ thread' = [thread EXCEPT ![t] = done]
        \/ thread' = [thread EXCEPT ![t] = done, ![k] = new]
    BY <1>3, <2>k DEF Trigger
  <2> HIDE DEF new
  <2>7. \/ thread'[t] = done
        \/ t = k /\ thread'[t] = new
    BY <1>0, <2>5, <2>6
  <2>8. CASE thread'[t] = done /\ \A u \in Producers \ {t} : thread'[u] = thread[u]
    <3>1. Covers(t)' BY <2>1, <2>2, <2>3, <2>8, FinishCovers
    <3> QED BY <2>3, <2>8, <3>1, PromiseOfStep
  <2>9. CASE thread' = [thread EXCEPT ![t] = done, ![k] = new]
    <3>1. thread'[k] = new /\ \A u \in Producers \ {t, k} : thread'[u] = thread[u]
      BY <1>0, <2>5, <2>9
    <3>2. Covers(k)'
      BY <1>0, <2>1, <2>3, <2>4, <3>1 DEF Covers, Holds, At, Key, SamePromise
    <3>3. t # k => thread'[t] = done
      BY <2>7
    <3>4. t # k => Covers(t)'
      BY <2>1, <2>2, <2>3, <3>3, FinishCovers
    <3>5. ASSUME NEW u \in Producers \ {t, k} PROVE Covers(u)'
      <4>1. SameCall(u) BY <3>1 DEF SameCall
      <4> QED BY <2>3, <4>1, CallKept DEF SamePromise
    <3> QED BY <2>3, <3>2, <3>4, <3>5, PromiseKept
  <2> QED BY <1>0, <2>6, <2>8, <2>9
<1>4. ASSUME NEW t \in Producers, Begin(t) \/ Slot(t) \/ FetchRaises(t) \/ MarkStale(t)
      PROVE  Promise'
  <2>1. thread[t] \in Thread
    BY <1>4, BusyThread DEF Begin, Slot, FetchRaises, MarkStale, At
  <2>2. /\ thread'[t].key = thread[t].key /\ thread'[t].idleFloor = thread[t].idleFloor
        /\ thread'[t].val = thread[t].val
        /\ thread'[t].pc \in {"slot", "fetch", "wait", "failed", "fallback", "release"}
        /\ thread'[t].pc = "release" => t \in Keys
        /\ \A u \in Producers \ {t} : thread'[u] = thread[u]
    <3>1. CASE Begin(t) BY <1>0, <2>1, <3>1 DEF Begin, Thread
    <3>2. CASE Slot(t) BY <1>0, <2>1, <3>2 DEF Slot, GoTo, Thread
    <3>3. CASE FetchRaises(t) BY <1>0, <2>1, <3>3 DEF FetchRaises, GoTo, Thread
    <3>4. CASE MarkStale(t) BY <1>0, <2>1, <3>4 DEF MarkStale, GoTo, Thread
    <3> QED BY <1>4, <3>1, <3>2, <3>3, <3>4
  <2>3. SamePromise
    BY <1>4 DEF Begin, Slot, FetchRaises, MarkStale, SamePromise
  <2>4. SameOffers
    <3>1. CASE MarkStale(t)
      <4>1. Key(t) \in Keys BY <1>a, <2>1
      <4>2. entries[Key(t)] # NoEntry
              => [entries[Key(t)] EXCEPT !.stale = TRUE].val = entries[Key(t)].val
        BY <4>1, EntryVal DEF Entry
      <4> QED BY <3>1, <4>1, <4>2 DEF MarkStale, Types, SameOffers
    <3>2. CASE entries' = entries BY <3>2 DEF SameOffers
    <3> QED BY <1>4, <3>1, <3>2 DEF Begin, Slot, FetchRaises
  <2>5. Covers(t)'
    BY <1>a, <2>1, <2>2, <2>3 DEF Covers, Holds, At, Key, SamePromise, ConstantsAssumption
  <2> QED BY <2>2, <2>3, <2>4, <2>5, PromiseOfStep
<1>5. ASSUME NEW t \in Producers, WaitEnds(t) PROVE Promise'
  <2>1. thread[t] \in Thread /\ Key(t) \in Keys BY <1>5, BusyThread DEF WaitEnds, At
  <2>2. SamePromise /\ SameOffers /\ \A u \in Producers \ {t} : thread'[u] = thread[u]
    BY <1>0, <1>5 DEF WaitEnds, SamePromise, SameOffers
  <2>3. CASE entries[Key(t)] = NoEntry
    <3>1. thread'[t] = [thread[t] EXCEPT !.pc = "fetch"]
      BY <1>0, <1>5, <2>3 DEF WaitEnds
    <3>2. /\ thread'[t].key = thread[t].key /\ thread'[t].idleFloor = thread[t].idleFloor
          /\ thread'[t].pc = "fetch"
      BY <2>1, <3>1 DEF Thread
    <3>3. Covers(t)'
      BY <1>a, <2>1, <2>2, <3>2 DEF Covers, Holds, At, Key, SamePromise
    <3> QED BY <2>2, <3>3, PromiseOfStep
  <2>4. CASE entries[Key(t)] # NoEntry
    <3>1. thread'[t] = Done(t, "served", entries[Key(t)].val)
      BY <1>0, <1>5, <2>4 DEF WaitEnds
    <3>2. entries[Key(t)].val \in Nat BY <2>1, <2>4, EntryVal
    <3>3. entries[Key(t)].val >= thread[t].idleFloor
      BY <1>a, <2>1, <2>4, <3>2 DEF Promise
    <3>4. Covers(t)' BY <2>1, <2>2, <3>1, <3>2, <3>3, FinishCovers
    <3> QED BY <2>2, <3>4, PromiseOfStep
  <2> QED BY <2>3, <2>4
<1>6. ASSUME NEW t \in Producers, FetchReads(t) PROVE Promise'
  <2>1. thread[t] \in Thread /\ Key(t) \in Keys BY <1>6, BusyThread DEF FetchReads, At
  <2>2. SamePromise /\ SameOffers /\ \A u \in Producers \ {t} : thread'[u] = thread[u]
    BY <1>0, <1>6 DEF FetchReads, SamePromise, SameOffers
  <2>3. /\ thread'[t].key = thread[t].key /\ thread'[t].idleFloor = thread[t].idleFloor
        /\ thread'[t].pc = "got" /\ thread'[t].val = origin[Key(t)]
    BY <1>0, <1>6, <2>1 DEF FetchReads, Thread
  <2>4. origin[Key(t)] >= idleFloor[Key(t)] BY <1>0, <2>1 DEF Promise
  <2>5. Covers(t)'
    BY <1>a, <2>1, <2>2, <2>3, <2>4 DEF Covers, Holds, At, Key, SamePromise
  <2> QED BY <2>2, <2>5, PromiseOfStep
<1>7. ASSUME NEW t \in Producers, Put(t) PROVE Promise'
  <2>1. thread[t] \in Thread /\ Key(t) \in Keys BY <1>7, BusyThread DEF Put, At
  <2>2. SamePromise BY <1>7 DEF Put, SamePromise
  <2>3. thread[t].val \in Nat /\ thread[t].val >= idleFloor[Key(t)]
    BY <1>7, <2>1, <1>a DEF Put, At, Promise, Covers, Thread
  <2>4. thread[t].val >= thread[t].idleFloor BY <1>a, <2>1, <2>3
  <2>5. CASE Overtaken(t)
    <3>1. thread'[t] = Finish(t, "served", thread[t].val) /\ SameOffers
          /\ \A u \in Producers \ {t} : thread'[u] = thread[u]
      BY <1>0, <1>7, <2>5 DEF Put, SameOffers
    <3>2. Covers(t)' BY <2>1, <2>2, <2>3, <2>4, <3>1, FinishCovers
    <3> QED BY <2>2, <3>1, <3>2, PromiseOfStep
  <2>6. CASE ~ Overtaken(t)
    <3> DEFINE done == Finish(t, "served", thread[t].val)
    <3>1. PICK out :
           /\ entries' = [x \in Keys |-> IF x \in out THEN NoEntry
                                         ELSE IF x = Key(t) THEN Snapshot(t) ELSE entries[x]]
           /\ thread' = Outdated([thread EXCEPT ![t] = done], out)
      BY <1>7, <2>6, PutStores
    <3>2. \A k \in Keys : entries'[k] # NoEntry => entries'[k].val >= idleFloor[k]
      BY <2>3, <3>1 DEF Promise, Snapshot
    <3>3. done \in Thread BY <2>1, <2>3, FinishType
    <3>4. /\ done.pc \in {"served", "release"} /\ done.key = thread[t].key
          /\ done.val = thread[t].val /\ done.idleFloor = thread[t].idleFloor
      BY <2>1 DEF Finish, Done, Thread
    <3> HIDE DEF done
    <3> DEFINE th == [thread EXCEPT ![t] = done]
    <3>5. th \in [Producers -> Threads] /\ th[t] = done /\ \A u \in Producers \ {t} : th[u] = thread[u]
      BY <1>0, <3>3 DEF Threads
    <3>6. ASSUME NEW u \in Producers, th[u] # Idle
          PROVE  /\ thread'[u].key = th[u].key /\ thread'[u].pc = th[u].pc
                 /\ thread'[u].val = th[u].val /\ thread'[u].idleFloor = th[u].idleFloor
      <4>1. th[u] \in Thread BY <3>5, <3>6 DEF Threads
      <4>2. thread'[u] = th[u] \/ thread'[u] = [th[u] EXCEPT !.old = TRUE]
        BY <3>1 DEF Outdated
      <4> QED BY <4>1, <4>2 DEF Thread
    <3>a. thread' = Outdated(th, out) BY <3>1
    <3> HIDE DEF th
    <3>7. ASSUME NEW u \in Producers PROVE thread'[u] = Idle <=> th[u] = Idle
      BY <3>5, <3>a, OutdatedSameSlot
    <3>8. Covers(t)'
      BY <1>a, <2>1, <2>2, <2>4, <3>3, <3>4, <3>5, <3>6, <3>7
         DEF Covers, Holds, At, Key, SamePromise
    <3>9. ASSUME NEW u \in Producers \ {t} PROVE Covers(u)'
      <4>1. SameCall(u) BY <3>5, <3>6, <3>7 DEF SameCall
      <4> QED BY <2>2, <4>1, CallKept DEF SamePromise
    <3> QED BY <2>2, <3>2, <3>8, <3>9 DEF Promise, SamePromise
  <2> QED BY <2>5, <2>6
<1>8. ASSUME NEW t \in Producers, Fallback(t) PROVE Promise'
  <2>1. thread[t] \in Thread /\ Key(t) \in Keys BY <1>8, BusyThread DEF Fallback, At
  <2>2. SamePromise /\ SameOffers /\ \A u \in Producers \ {t} : thread'[u] = thread[u]
    BY <1>0, <1>8 DEF Fallback, SamePromise, SameOffers
  <2>3. CASE entries[Key(t)] = NoEntry
    <3>1. thread'[t] = Finish(t, "raised", 0) BY <1>0, <1>8, <2>3 DEF Fallback
    <3>2. Covers(t)' BY <2>1, <2>2, <3>1, FinishCovers
    <3> QED BY <2>2, <3>2, PromiseOfStep
  <2>4. CASE entries[Key(t)] # NoEntry
    <3>1. thread'[t] = Finish(t, "served", entries[Key(t)].val)
      BY <1>0, <1>8, <2>4 DEF Fallback
    <3>2. entries[Key(t)].val \in Nat BY <2>1, <2>4, EntryVal
    <3>3. entries[Key(t)].val >= thread[t].idleFloor
      BY <1>a, <2>1, <2>4, <3>2 DEF Promise
    <3>4. Covers(t)' BY <2>1, <2>2, <3>1, <3>2, <3>3, FinishCovers
    <3> QED BY <2>2, <3>4, PromiseOfStep
  <2> QED BY <2>3, <2>4
<1>9. ASSUME NEW t \in Producers, Release(t) PROVE Promise'
  <2>1. thread[t] \in Thread BY <1>9, BusyThread DEF Release, At
  <2>2. SamePromise /\ SameOffers /\ \A u \in Producers \ {t} : thread'[u] = thread[u]
    BY <1>0, <1>9 DEF Release, SamePromise, SameOffers
  <2>3. thread[t].val \in Nat
        /\ (t \in Callers /\ thread[t].val # 0 => thread[t].val >= thread[t].idleFloor)
    BY <1>9, <1>a, <2>1 DEF Release, At, Promise, Covers, Holds, Thread
  <2>4. CASE t \in Keys
    <3>1. thread'[t] = Idle BY <1>0, <1>9, <2>4 DEF Release
    <3>2. Covers(t)' BY <3>1 DEF Covers
    <3> QED BY <2>2, <3>2, PromiseOfStep
  <2>5. CASE t \notin Keys /\ thread[t].val = 0
    <3>1. thread'[t] = Done(t, "raised", 0) BY <1>0, <1>9, <2>5 DEF Release
    <3>2. Covers(t)' BY <2>1, <2>2, <3>1, FinishCovers
    <3> QED BY <2>2, <3>2, PromiseOfStep
  <2>6. CASE t \notin Keys /\ thread[t].val # 0
    <3>1. thread'[t] = Done(t, "served", thread[t].val) BY <1>0, <1>9, <2>6 DEF Release
    <3>2. Covers(t)' BY <2>1, <2>2, <2>3, <2>6, <3>1, FinishCovers
    <3> QED BY <2>2, <3>2, PromiseOfStep
  <2> QED BY <2>4, <2>5, <2>6
<1>10. ASSUME NEW k \in Keys, Write(k) PROVE Promise'
  <2>1. UNCHANGED <<entries, thread, idleFloor>> /\ \A x \in Keys : origin'[x] >= origin[x]
    BY <1>0, <1>10 DEF Write
  <2>2. \A x \in Keys : idleFloor[x] \in Nat /\ origin[x] \in Nat /\ origin'[x] \in Nat
    BY <1>0 DEF Types
  <2>3. \A u \in Producers : SameCall(u) BY <2>1 DEF SameCall
  <2>4. \A u \in Producers : Covers(u)' BY <2>1, <2>3, CallKept
  <2> QED BY <2>1, <2>2, <2>4 DEF Promise
<1>11. ASSUME NEW k \in Keys, Age(k) PROVE Promise'
  <2>1. UNCHANGED <<thread, idleFloor, origin>> BY <1>11 DEF Age
  <2>2. entries[k] \in Entry /\ entries[k] # NoEntry BY <1>11 DEF Age, Types, NoEntry
  <2>3. SameOffers BY <1>11, <2>2 DEF Age, Types, Entry, SameOffers
  <2>4. \A u \in Producers : SameCall(u) BY <2>1 DEF SameCall
  <2>5. \A u \in Producers : Covers(u)' BY <2>1, <2>4, CallKept
  <2> QED BY <2>1, <2>3, <2>5, PromiseKept DEF SamePromise
<1>12. ASSUME Invalidate PROVE Promise'
  <2> DEFINE out == Cleared(Stored \cup {k \in Keys : Live(k)})
  <2>1. /\ entries' = [k \in Keys |-> IF k \in out THEN NoEntry ELSE entries[k]]
        /\ thread' = Outdated(thread, out)
        /\ idleFloor' = [k \in Keys |-> IF Live(k) \/ InFlight(k) THEN idleFloor[k] ELSE origin[k]]
        /\ origin' = origin
    BY <1>12 DEF Invalidate
  <2>2. \A k \in Keys : entries[k] # NoEntry /\ ~ Live(k) => k \in out
    BY DEF Cleared, Stored
  <2> HIDE DEF out
  <2>3. ASSUME NEW k \in Keys
        PROVE  /\ idleFloor[k] \in Nat /\ idleFloor'[k] \in Nat
               /\ idleFloor[k] <= idleFloor'[k] /\ idleFloor'[k] <= origin'[k]
    BY <1>0, <2>1 DEF Promise
  <2>4. ASSUME NEW k \in Keys, entries'[k] # NoEntry PROVE entries'[k].val >= idleFloor'[k]
    BY <2>1, <2>2, <2>4 DEF Promise
  <2>5. ASSUME NEW u \in Producers PROVE Covers(u)'
    <3>1. CASE thread[u] = Idle
      BY <1>0, <2>1, <3>1, OutdatedSameSlot DEF Covers
    <3>2. CASE thread[u] # Idle
      <4>1. thread[u] \in Thread BY <1>0, <3>2 DEF Threads
      <4>2. thread'[u] = thread[u] \/ thread'[u] = [thread[u] EXCEPT !.old = TRUE]
        BY <2>1 DEF Outdated
      <4>3. /\ thread'[u].pc = thread[u].pc /\ thread'[u].key = thread[u].key
            /\ thread'[u].val = thread[u].val /\ thread'[u].idleFloor = thread[u].idleFloor
        BY <4>1, <4>2 DEF Thread
      <4>4. thread'[u].idleFloor <= idleFloor'[thread'[u].key]
        BY <1>a, <2>3, <4>1, <4>3 DEF Key
      <4>5. At(u, "got") => idleFloor'[Key(u)] = idleFloor[Key(u)]
        BY <1>a, <2>1, <4>1 DEF InFlight
      <4>6. Covers(u) BY DEF Promise
      <4> QED BY <3>2, <4>3, <4>4, <4>5, <4>6 DEF Covers, Holds, At, Key
    <3> QED BY <3>1, <3>2
  <2> QED BY <2>3, <2>4, <2>5 DEF Promise
<1>13. ASSUME UNCHANGED vars PROVE Promise'
  <2>1. UNCHANGED <<entries, thread, idleFloor, origin>> BY <1>13 DEF vars
  <2>2. \A u \in Producers : SameCall(u) BY <2>1 DEF SameCall
  <2>3. \A u \in Producers : Covers(u)' BY <2>1, <2>2, CallKept
  <2> QED BY <2>1, <2>3, PromiseKept DEF SamePromise, SameOffers
<1> QED BY <1>1, <1>2, <1>3, <1>4, <1>5, <1>6, <1>7, <1>8, <1>9, <1>10, <1>11, <1>12, <1>13
        DEF Next, Step

----------------------------------------------------------------------------
(* The theorems                                                            *)

\* The inductive invariant.
IInv == Types /\ AppliedIffStored /\ Slots /\ Order /\ Promise

\* The inductive invariant holds in every reachable state: the cache's maps keep
\* their types, slots and producers match, markers and entries match, and tickets
\* tell the order of the fetches whose key has not been forgotten.
THEOREM Invariance == Spec => []IInv
<1>1. Init => IInv
  <2> SUFFICES ASSUME Init PROVE IInv
    OBVIOUS
  <2>1. Types BY DEF Init, Types
  <2>2. AppliedIffStored BY DEF Init, AppliedIffStored, Stored
  <2>3. Slots BY DEF Init, Slots, ThreadSlots, Held, Live
  <2>4. Order BY DEF Init, Order, Counted, Ordered, StoreOrdered, Ticketed, Stored
  <2>5. Promise BY DEF Init, Promise, Covers
  <2> QED BY <2>1, <2>2, <2>3, <2>4, <2>5 DEF IInv
<1>2. IInv /\ [Next]_vars => IInv'
  BY TypesNext, AppliedNext, SlotsNext, OrderNext, PromiseNext, ConstantsAssumption DEF IInv
<1> QED BY <1>1, <1>2, PTL DEF Spec

\* A slot belongs to the thread that will release it, for every number of keys and
\* callers and whatever is evicted, invalidated or raised meanwhile.
THEOREM SlotOwnership == Spec => []OneProducer
<1>1. IInv => OneProducer BY DEF IInv, Slots, ThreadSlots, OneProducer
<1> QED BY <1>1, Invariance, PTL

\* put never drops a snapshot in favour of an entry that is not there.
THEOREM MarkersMatchEntries == Spec => []AppliedIffStored
<1>1. IInv => AppliedIffStored BY DEF IInv
<1> QED BY <1>1, Invariance, PTL

\* A fetch whose key was not forgotten under it never replaces nor relabels the
\* snapshot of a fetch that started later.
THEOREM SnapshotOrder == Spec => OrderedSnapshots
<1>1. ASSUME IInv, [Next]_vars, NEW t \in Producers, Overwrites(t), ~ thread[t].old
      PROVE  thread[t].seq >= entries[Key(t)].seq
  <2> USE DEF IInv
  <2>0. thread \in [Producers -> Threads] BY <1>1 DEF Types, Threads
  <2>1. thread[t] \in Thread /\ Key(t) \in Keys BY <1>1, BusyThread DEF Overwrites
  <2>2. Ticketed(t)
    BY <1>1 DEF Overwrites, Slots, ThreadSlots, Ticketed, Idle
  <2>3. entries[Key(t)].seq \in Nat /\ thread[t].seq \in Nat /\ thread[t].ticket \in Nat
        /\ applied[Key(t)] \in Nat
    BY <1>1, <2>1, EntryVal DEF Overwrites, Thread, Types
  <2>4. ~ Overtaken(t) => thread[t].seq >= entries[Key(t)].seq
    <3>1. StoreOrdered(t, Key(t)) BY <1>1, <2>1 DEF Order
    <3> QED BY <1>1, <2>1, <2>2, <2>3, <3>1 DEF StoreOrdered, Overtaken, Stored, Overwrites
  <2>5. ASSUME Overtaken(t) PROVE FALSE
    <3>1. /\ entries' # entries /\ thread'[t].pc # thread[t].pc
      BY <1>1 DEF Overwrites
    <3>2. ASSUME NEW u \in Producers, Put(u) PROVE FALSE
      <4>1. CASE Overtaken(u) BY <3>1, <3>2, <4>1 DEF Put
      <4>2. CASE ~ Overtaken(u)
        <5> DEFINE done == Finish(u, "served", thread[u].val)
                   th == [thread EXCEPT ![u] = done]
        <5>1. PICK out : thread' = Outdated(th, out) BY <3>2, <4>2, PutStores
        <5>2. done \in Thread
          <6>1. thread[u] \in Thread BY <1>1, <3>2, BusyThread DEF Put, At
          <6> QED BY <6>1, FinishType DEF Thread
        <5> HIDE DEF done
        <5>3. th \in [Producers -> Threads] /\ u # t /\ th[t] = thread[t]
          BY <2>0, <2>5, <4>2, <5>2 DEF Threads
        <5> HIDE DEF th
        <5>4. thread[t] # Idle BY <2>2 DEF Ticketed
        <5> QED BY <3>1, <5>1, <5>3, <5>4, OutdatedSameSlot
      <4> QED BY <4>1, <4>2
    <3>3. ASSUME NEW u \in Producers, MarkStale(u) PROVE FALSE
      <4>1. CASE u = t BY <2>5, <3>1, <3>3, <4>1 DEF MarkStale
      <4>2. CASE u # t BY <2>0, <3>1, <3>3, <4>2 DEF MarkStale, GoTo
      <4> QED BY <4>1, <4>2
    <3>4. ASSUME Invalidate PROVE FALSE
      <4>1. PICK out : thread' = Outdated(thread, out) BY <3>4 DEF Invalidate
      <4> QED BY <2>0, <2>2, <3>1, <4>1, OutdatedSameSlot DEF Ticketed
    <3>5. ASSUME NEW u \in Producers, CheckStale(u) \/ Trigger(u) \/ Begin(u) \/ Slot(u) \/ WaitEnds(u)
                    \/ FetchReads(u) \/ FetchRaises(u) \/ Fallback(u) \/ Release(u)
          PROVE  FALSE
      BY <3>1, <3>5 DEF CheckStale, Trigger, Begin, Slot, WaitEnds, FetchReads, FetchRaises, Fallback, Release
    <3>6. ASSUME NEW u \in Callers, NEW k \in Keys, Lookup(u, k) PROVE FALSE BY <3>1, <3>6 DEF Lookup
    <3>7. ASSUME NEW k \in Keys, Write(k) PROVE FALSE BY <3>1, <3>7 DEF Write
    <3>8. ASSUME NEW k \in Keys, Age(k) PROVE FALSE BY <3>1, <3>8 DEF Age
    <3> QED BY <1>1, <3>1, <3>2, <3>3, <3>4, <3>5, <3>6, <3>7, <3>8 DEF Next, Step, vars
  <2> QED BY <2>4, <2>5
<1>2. IInv /\ [Next]_vars
        => [\A t \in Producers : Overwrites(t) /\ ~ thread[t].old
              => thread[t].seq >= entries[Key(t)].seq]_vars
  BY <1>1
<1> QED BY <1>2, Invariance, PTL DEF Spec, OrderedSnapshots

\* Neither eviction nor invalidation takes the entry of a key that has a producer.
THEOREM LiveEntries == Spec => LiveKeyKeepsEntry
<1>1. ASSUME IInv, [Next]_vars, NEW k \in Keys, k \in Stored, Live(k)
      PROVE  entries'[k] # NoEntry
  <2>0. Types BY <1>1 DEF IInv
  <2>1. ASSUME NEW t \in Producers, Put(t) PROVE entries'[k] # NoEntry
    <3>1. CASE Overtaken(t) BY <1>1, <2>1, <3>1 DEF Put, Stored
    <3>2. CASE ~ Overtaken(t)
      <4>1. PICK out :
             /\ \A x \in out : ~ Live(x)
             /\ entries' = [x \in Keys |-> IF x \in out THEN NoEntry
                                           ELSE IF x = Key(t) THEN Snapshot(t) ELSE entries[x]]
        BY <2>1, <3>2, PutStores
      <4>2. Snapshot(t) # NoEntry BY DEF Snapshot, NoEntry
      <4> QED BY <1>1, <4>1, <4>2 DEF Stored
    <3> QED BY <3>1, <3>2
  <2>2. ASSUME NEW t \in Producers, MarkStale(t) PROVE entries'[k] # NoEntry
    <3>1. Key(t) \in Keys BY <2>0, <2>2, BusyThread DEF MarkStale, At
    <3>2. entries[Key(t)] # NoEntry => [entries[Key(t)] EXCEPT !.stale = TRUE] # NoEntry
      BY <2>0, <3>1, EntryVal DEF Entry, NoEntry, Lives
    <3> QED BY <1>1, <2>0, <2>2, <3>1, <3>2 DEF MarkStale, Types, Stored
  <2>3. ASSUME NEW x \in Keys, Age(x) PROVE entries'[k] # NoEntry
    <3>1. entries[x] \in Entry BY <2>0, <2>3 DEF Age, Types, NoEntry
    <3> QED BY <1>1, <2>0, <2>3, <3>1 DEF Age, Types, Entry, NoEntry, Stored
  <2>4. ASSUME Invalidate PROVE entries'[k] # NoEntry
    BY <1>1, <2>4 DEF Invalidate, Cleared, Stored
  <2>5. CASE UNCHANGED entries BY <1>1, <2>5 DEF Stored
  <2>6. ASSUME NEW t \in Producers, CheckStale(t) \/ Trigger(t) \/ Begin(t) \/ Slot(t) \/ WaitEnds(t)
                  \/ FetchReads(t) \/ FetchRaises(t) \/ Fallback(t) \/ Release(t)
        PROVE  UNCHANGED entries
    BY <2>6 DEF CheckStale, Trigger, Begin, Slot, WaitEnds, FetchReads, FetchRaises, Fallback, Release
  <2>7. ASSUME NEW t \in Callers, NEW x \in Keys, Lookup(t, x) PROVE UNCHANGED entries
    BY <2>7 DEF Lookup
  <2>8. ASSUME NEW x \in Keys, Write(x) PROVE UNCHANGED entries BY <2>8 DEF Write
  <2> QED BY <1>1, <2>1, <2>2, <2>3, <2>4, <2>5, <2>6, <2>7, <2>8 DEF Next, Step, vars
<1>2. IInv /\ [Next]_vars
        => [\A k \in Keys : k \in Stored /\ Live(k) => entries'[k] # NoEntry]_vars
  BY <1>1
<1> QED BY <1>2, Invariance, PTL DEF Spec, LiveKeyKeepsEntry

\* A request made after an invalidation that met no producer and no fetch in flight
\* is never answered from before it, however the calls and fetches interleave.
THEOREM IdleInvalidations == Spec => []IdleInvalidationIsVisible
<1>1. ASSUME IInv PROVE IdleInvalidationIsVisible
  <2> SUFFICES ASSUME NEW t \in Callers, At(t, "served")
               PROVE  thread[t].val >= thread[t].idleFloor
    BY DEF IdleInvalidationIsVisible
  <2>1. t \in Producers /\ thread[t] # Idle BY DEF Producers, At, Idle
  <2>2. Covers(t) BY <1>1, <2>1 DEF IInv, Promise
  <2> QED BY <2>1, <2>2 DEF Covers, Holds, At
<1> QED BY <1>1, Invariance, PTL

----------------------------------------------------------------------------
(* The recency order                                                       *)

\* A key that is used comes last; one that goes leaves the order of the others alone.
LEMMA Touched ==
  ASSUME Orders(lru, Stored), NEW k \in Keys
  PROVE  Orders(Touch(lru, k), Stored \cup {k})
<1> DEFINE order == Touch(lru, k)
<1>1. \A x \in Keys : order[x] = IF x = k THEN Stored \ {k} ELSE lru[x] \ {k}
  BY DEF Touch
<1>2. Stored \subseteq Keys /\ \A x \in Keys : lru[x] \subseteq Stored
  BY DEF Orders, Stored
<1>3. order \in [Keys -> SUBSET (Stored \cup {k})] /\ \A x \in Keys \ (Stored \cup {k}) : order[x] = {}
  BY <1>2 DEF Touch, Orders
<1> HIDE DEF order
<1>4. ASSUME NEW i \in Stored \cup {k}, NEW j \in Stored \cup {k}
      PROVE  i \in order[j] <=> i # j /\ j \notin order[i]
  <2>1. CASE i = k \/ j = k
    BY <1>1, <1>2, <2>1
  <2>2. CASE i # k /\ j # k
    <3>1. i \in lru[j] <=> i # j /\ j \notin lru[i]
      BY <2>2 DEF Orders
    <3>2. order[i] = lru[i] \ {k} /\ order[j] = lru[j] \ {k}
      BY <1>1, <1>2, <2>2
    <3> QED BY <2>2, <3>1, <3>2
  <2> QED BY <2>1, <2>2
<1>5. ASSUME NEW j \in Stored \cup {k}, NEW i \in order[j]
      PROVE  order[i] \subseteq order[j]
  <2>1. i \in Keys /\ j \in Keys /\ i # k /\ i \in Stored
    BY <1>1, <1>2, <1>5
  <2>2. order[i] = lru[i] \ {k} /\ lru[i] \subseteq Stored
    BY <1>1, <1>2, <2>1
  <2>3. CASE j = k
    BY <1>1, <2>1, <2>2, <2>3
  <2>4. CASE j # k
    <3>1. i \in lru[j] /\ order[j] = lru[j] \ {k}
      BY <1>1, <1>5, <2>1, <2>4
    <3>2. lru[i] \subseteq lru[j]
      BY <3>1, <2>4 DEF Orders
    <3> QED BY <2>2, <3>1, <3>2
  <2> QED BY <2>3, <2>4
<1>6. Orders(order, Stored \cup {k})
  BY <1>3, <1>4, <1>5 DEF Orders
<1> QED BY <1>6 DEF order

LEMMA Dropped ==
  ASSUME NEW order, NEW K \in SUBSET Keys, Orders(order, K), NEW out
  PROVE  Orders(Without(order, out), K \ out)
<1> DEFINE left == Without(order, out)
<1>1. \A x \in Keys : left[x] = IF x \in out THEN {} ELSE order[x] \ out
  BY DEF Without
<1>2. left \in [Keys -> SUBSET (K \ out)] /\ \A x \in Keys \ (K \ out) : left[x] = {}
  BY DEF Without, Orders
<1> HIDE DEF left
<1>3. ASSUME NEW i \in K \ out, NEW j \in K \ out
      PROVE  i \in left[j] <=> i # j /\ j \notin left[i]
  <2>1. left[i] = order[i] \ out /\ left[j] = order[j] \ out
    BY <1>1
  <2>2. i \in order[j] <=> i # j /\ j \notin order[i]
    BY DEF Orders
  <2> QED BY <2>1, <2>2
<1>4. \A j \in K \ out : \A i \in left[j] : left[i] \subseteq left[j]
  BY <1>1, <1>2 DEF Orders
<1>5. Orders(left, K \ out)
  BY <1>2, <1>3, <1>4 DEF Orders
<1> QED BY <1>5 DEF left

LEMMA OrderSame ==
  ASSUME Orders(lru, Stored), lru' = lru, Stored' = Stored
  PROVE  Orders(lru, Stored)'
BY DEF Orders

LEMMA StoredType == Stored \in SUBSET Keys
BY DEF Stored

\* The order of use follows the entries through every step.
LEMMA RecencyNext ==
  ASSUME Types, Orders(lru, Stored), [Next]_vars
  PROVE  Orders(lru, Stored)'
<1>1. ASSUME NEW t \in Callers, NEW k \in Keys, Lookup(t, k) PROVE Orders(lru, Stored)'
  <2>1. Stored' = Stored
    BY <1>1 DEF Lookup, Stored
  <2>2. CASE k \in Stored
    <3>1. lru' = Touch(lru, k) /\ Stored \cup {k} = Stored
      BY <1>1, <2>2 DEF Lookup
    <3>2. Orders(Touch(lru, k), Stored)
      BY <3>1, Touched
    <3> QED BY <2>1, <3>1, <3>2
  <2>3. CASE k \notin Stored
    BY <1>1, <2>1, <2>3, OrderSame DEF Lookup
  <2> QED BY <2>2, <2>3
<1>2. ASSUME NEW t \in Producers, Put(t) PROVE Orders(lru, Stored)'
  <2>1. CASE UNCHANGED <<entries, lru>>
    BY <2>1, OrderSame DEF Stored
  <2>2. CASE ~ UNCHANGED <<entries, lru>>
    <3> DEFINE k == Key(t)
               order == Touch(lru, k)
               out == Victims(order, Stored \cup {k})
    <3>1. /\ entries' = [x \in Keys |-> IF x \in out THEN NoEntry
                                        ELSE IF x = k THEN Snapshot(t) ELSE entries[x]]
          /\ lru' = Without(order, out)
      BY <1>2, <2>2 DEF Put, Snapshot
    <3>2. k \in Keys
      BY <1>2, BusyThread DEF Put, At
    <3>3. Snapshot(t) # NoEntry
      BY DEF Snapshot, NoEntry
    <3>4. Orders(order, Stored \cup {k}) /\ Stored \cup {k} \in SUBSET Keys
      BY <3>2, Touched, StoredType
    <3> HIDE DEF order, out, k
    <3>5. Stored' = (Stored \cup {k}) \ out
      BY <3>1, <3>2, <3>3 DEF Stored
    <3>6. Orders(Without(order, out), (Stored \cup {k}) \ out)
      BY <3>4, Dropped
    <3> QED BY <3>1, <3>5, <3>6
  <2> QED BY <2>1, <2>2
<1>3. ASSUME Invalidate PROVE Orders(lru, Stored)'
  <2> DEFINE out == Cleared(Stored \cup {k \in Keys : Live(k)})
  <2>1. entries' = [k \in Keys |-> IF k \in out THEN NoEntry ELSE entries[k]] /\ lru' = Without(lru, out)
    BY <1>3 DEF Invalidate
  <2> HIDE DEF out
  <2>2. Stored' = Stored \ out
    BY <2>1 DEF Stored
  <2>3. Orders(Without(lru, out), Stored \ out)
    BY Dropped, StoredType
  <2> QED BY <2>1, <2>2, <2>3
<1>4. ASSUME NEW t \in Producers, MarkStale(t) PROVE Orders(lru, Stored)'
  <2>1. Stored' = Stored
    <3>1. CASE entries' = entries
      BY <3>1 DEF Stored
    <3>2. CASE entries' # entries
      <4>1. entries' = [entries EXCEPT ![Key(t)].stale = TRUE] /\ entries[Key(t)] # NoEntry
        BY <1>4, <3>2 DEF MarkStale
      <4>2. Key(t) \in Keys
        BY <1>4, BusyThread DEF MarkStale, At
      <4>3. entries[Key(t)] \in Entry
        BY <4>1, <4>2, EntryVal
      <4>4. [entries[Key(t)] EXCEPT !.stale = TRUE].life # "none"
        BY <4>3 DEF Entry, Lives
      <4>5. [entries[Key(t)] EXCEPT !.stale = TRUE] # NoEntry
        BY <4>4 DEF NoEntry
      <4> QED BY <4>1, <4>2, <4>5 DEF Stored, Types
    <3> QED BY <3>1, <3>2
  <2> QED BY <1>4, <2>1, OrderSame DEF MarkStale
<1>5. ASSUME NEW k \in Keys, Age(k) PROVE Orders(lru, Stored)'
  <2>1. entries[k].life \in {"fresh", "stale"} /\ lru' = lru
        /\ entries' = [entries EXCEPT ![k].life = IF @ = "fresh" THEN "stale" ELSE "expired"]
    BY <1>5 DEF Age
  <2>2. entries[k] # NoEntry
    BY <2>1 DEF NoEntry
  <2>3. entries[k] \in Entry /\ entries \in [Keys -> Entry \cup {NoEntry}]
    BY <2>2, EntryVal DEF Types
  <2>4. entries'[k].life # "none"
    BY <2>1, <2>3 DEF Entry
  <2>5. entries'[k] # NoEntry
    BY <2>4 DEF NoEntry
  <2>6. Stored' = Stored
    BY <2>1, <2>2, <2>3, <2>5 DEF Stored
  <2> QED BY <2>1, <2>6, OrderSame
<1>6. ASSUME UNCHANGED <<entries, lru>> PROVE Orders(lru, Stored)'
  BY <1>6, OrderSame DEF Stored
<1>7. ASSUME NEW t \in Producers, Step(t), ~ Put(t), ~ MarkStale(t) PROVE UNCHANGED <<entries, lru>>
  BY <1>7 DEF Step, CheckStale, Trigger, Begin, Slot, WaitEnds, FetchReads, FetchRaises, Fallback, Release
<1>8. ASSUME NEW k \in Keys, Write(k) PROVE UNCHANGED <<entries, lru>>
  BY <1>8 DEF Write
<1>9. CASE UNCHANGED vars
  BY <1>6, <1>9 DEF vars
<1> QED BY <1>1, <1>2, <1>3, <1>4, <1>5, <1>6, <1>7, <1>8, <1>9 DEF Next

\* Every variable keeps its type, and any two entries have an order of use, whichever
\* were touched, stored, evicted past a producer, or invalidated.
THEOREM CacheTypes == Spec => []TypeOK
<1> DEFINE Flag == unseen \in BOOLEAN
           Count == requests \in Nat
           Recency == Orders(lru, Stored)
<1>1. Init => Recency /\ Flag /\ Count
  <2> SUFFICES ASSUME Init PROVE Recency /\ Flag /\ Count
    OBVIOUS
  <2>1. Stored = {} /\ lru = [k \in Keys |-> {}]
    BY DEF Init, Stored
  <2>2. Recency
    BY <2>1 DEF Orders
  <2>3. unseen = FALSE /\ requests = 0
    BY DEF Init
  <2> QED BY <2>2, <2>3
<1>2. [Next]_vars /\ Flag => Flag'
  <2> SUFFICES ASSUME [Next]_vars, Flag PROVE Flag'
    OBVIOUS
  <2>1. unseen' = unseen \/ unseen' = TRUE \/ unseen' = FALSE
    BY DEF Next, Step, vars, Lookup, CheckStale, Trigger, Begin, Slot, WaitEnds, FetchReads,
           FetchRaises, Put, MarkStale, Fallback, Release, Write, Age, Invalidate
  <2> QED BY <2>1
<1>3. [Next]_vars /\ Count => Count'
  <2> SUFFICES ASSUME [Next]_vars, Count PROVE Count'
    OBVIOUS
  <2>1. requests' = requests \/ requests' = requests + 1
    BY DEF Next, Step, vars, Lookup, CheckStale, Trigger, Begin, Slot, WaitEnds, FetchReads,
           FetchRaises, Put, MarkStale, Fallback, Release, Write, Age, Invalidate
  <2> QED BY <2>1
<1>4. IInv /\ Recency /\ [Next]_vars => Recency'
  BY RecencyNext DEF IInv
<1>5. IInv /\ Recency /\ Flag /\ Count => TypeOK
  BY DEF IInv, Types, TypeOK
<1> HIDE DEF Recency, Flag, Count
<1> QED BY <1>1, <1>2, <1>3, <1>4, <1>5, Invariance, PTL DEF Spec

----------------------------------------------------------------------------
(* What callers and entries have was read from the origin                  *)

\* A version of the data behind k that there has been.
Had(k, v) == v \in Nat /\ v # 0 /\ v <= origin[k]

\* A thread that has looked an entry up, or read the origin, has a version of its key in hand.
InHand(t) == thread[t].pc \in {"check", "trigger", "got"} => Had(Key(t), thread[t].val)

\* Entries, and what threads have in hand, were read from the origin.
WasRead ==
  /\ \A k \in Keys : origin[k] # 0 /\ (k \in Stored => Had(k, entries[k].val))
  /\ \A t \in Producers : InHand(t)

\* A step changes only thread t, its entries offer what they did, and what t has in hand
\* was read.
LEMMA ReadOfStep ==
  ASSUME Types, Types', WasRead, NEW t \in Producers, origin' = origin,
         \A k \in Keys : entries'[k] # NoEntry =>
           Had(k, entries'[k].val) \/ (entries[k] # NoEntry /\ entries'[k].val = entries[k].val),
         InHand(t)', \A u \in Producers \ {t} : InHand(u)' \/ thread'[u] = thread[u]
  PROVE  WasRead'
<1>1. ASSUME NEW k \in Keys, k \in Stored' PROVE Had(k, entries[k].val)'
  BY <1>1 DEF WasRead, Had, Stored
<1>2. ASSUME NEW u \in Producers, thread'[u] = thread[u] PROVE InHand(u)'
  BY <1>2 DEF WasRead, InHand, Key, Had
<1> QED BY <1>1, <1>2 DEF WasRead

\* Every step keeps it.
LEMMA ReadNext == ConstantsAssumption /\ Types /\ Types' /\ WasRead /\ [Next]_vars => WasRead'
<1> SUFFICES ASSUME ConstantsAssumption, Types, Types', WasRead, [Next]_vars PROVE WasRead'
  OBVIOUS
<1>0. thread \in [Producers -> Threads] /\ origin \in [Keys -> Nat]
  BY DEF Types, Threads
<1>1. ASSUME NEW t \in Callers, NEW k \in Keys, Lookup(t, k) PROVE WasRead'
  <2>1. t \in Producers BY DEF Producers
  <2>2. /\ thread'[t].key = k /\ thread'[t].pc \in {"begin", "served", "check"}
        /\ thread'[t].pc = "check" => k \in Stored /\ thread'[t].val = entries[k].val
    <3> DEFINE e == entries[k]
               next == CASE e = NoEntry -> "begin" [] e.life = "fresh" -> "served" [] OTHER -> "check"
               new == [pc |-> next, key |-> k, ticket |-> 0, owns |-> FALSE,
                       val |-> IF next = "begin" THEN 0 ELSE e.val, seq |-> 0, old |-> FALSE,
                       floor |-> floor[k], idleFloor |-> idleFloor[k]]
    <3>1. thread' = [thread EXCEPT ![t] = new] BY <1>1 DEF Lookup
    <3>2. next \in {"begin", "served", "check"} /\ (next = "check" => k \in Stored)
      BY DEF Stored
    <3>3. thread'[t] = new
      <4> HIDE DEF new
      <4> QED BY <1>0, <2>1, <3>1
    <3>4. new.key = k /\ new.pc = next /\ (next = "check" => new.val = entries[k].val)
      <4> HIDE DEF next
      <4> QED OBVIOUS
    <3> HIDE DEF new, next
    <3> QED BY <3>2, <3>3, <3>4
  <2>3. InHand(t)'
    BY <1>1, <2>2 DEF InHand, Had, WasRead, Key, Lookup
  <2>4. \A u \in Producers \ {t} : thread'[u] = thread[u]
    BY <1>0, <1>1 DEF Lookup
  <2> QED BY <1>1, <2>1, <2>3, <2>4, ReadOfStep DEF Lookup
<1>2. ASSUME NEW t \in Producers, Step(t), ~ Trigger(t), ~ Put(t) PROVE WasRead'
  <2>1. thread[t] \in Thread /\ Key(t) \in Keys
    BY <1>2, BusyThread
       DEF Step, At, CheckStale, Begin, Slot, WaitEnds, FetchReads, FetchRaises, MarkStale, Fallback, Release
  <2>2. origin' = origin /\ \A u \in Producers \ {t} : thread'[u] = thread[u]
    BY <1>0, <1>2 DEF Step, GoTo, CheckStale, Begin, Slot, WaitEnds, FetchReads, FetchRaises, MarkStale,
                      Fallback, Release
  <2>3. \A k \in Keys : entries'[k] # NoEntry => entries[k] # NoEntry /\ entries'[k].val = entries[k].val
    <3>1. CASE MarkStale(t)
      <4>1. entries[Key(t)] # NoEntry
              => [entries[Key(t)] EXCEPT !.stale = TRUE].val = entries[Key(t)].val
        BY <2>1, EntryVal DEF Entry
      <4> QED BY <2>1, <3>1, <4>1 DEF MarkStale, Types
    <3>2. CASE ~ MarkStale(t)
      <4>1. entries' = entries
        BY <1>2, <3>2 DEF Step, CheckStale, Begin, Slot, WaitEnds, FetchReads, FetchRaises, Fallback, Release
      <4> QED BY <4>1
    <3> QED BY <3>1, <3>2
  <2>4. InHand(t)'
    <3>1. CASE CheckStale(t)
      <4>1. \E pc \in {"trigger", "begin"} : thread' = [thread EXCEPT ![t].pc = pc]
        BY <3>1 DEF CheckStale, GoTo
      <4>2. thread'[t].pc \in {"trigger", "begin"} /\ thread'[t].key = thread[t].key
            /\ thread'[t].val = thread[t].val
        BY <1>0, <2>1, <4>1 DEF Thread
      <4>3. Had(Key(t), thread[t].val) BY <3>1 DEF CheckStale, At, WasRead, InHand
      <4> QED BY <2>2, <4>2, <4>3 DEF InHand, Had, Key
    <3>2. CASE FetchReads(t)
      <4>1. thread'[t].key = thread[t].key /\ thread'[t].val = origin[Key(t)]
        BY <1>0, <2>1, <3>2 DEF FetchReads, Thread
      <4> QED BY <1>0, <2>1, <2>2, <4>1 DEF InHand, Had, Key, WasRead
    <3>3. CASE ~ CheckStale(t) /\ ~ FetchReads(t)
      <4>1. thread'[t].pc \notin {"check", "trigger", "got"}
        <5>1. CASE Begin(t) \/ Slot(t) \/ FetchRaises(t) \/ MarkStale(t)
          BY <1>0, <2>1, <5>1 DEF Begin, Slot, FetchRaises, MarkStale, GoTo, Thread
        <5>2. CASE WaitEnds(t)
          BY <1>0, <2>1, <5>2 DEF WaitEnds, Done, Thread
        <5>3. CASE Fallback(t)
          BY <1>0, <2>1, <5>3 DEF Fallback, Finish, Done, Thread
        <5>4. CASE Release(t)
          BY <1>0, <2>1, <5>4 DEF Release, Done, Thread, Idle
        <5> QED BY <1>2, <3>3, <5>1, <5>2, <5>3, <5>4 DEF Step
      <4> QED BY <4>1 DEF InHand
    <3> QED BY <3>1, <3>2, <3>3
  <2> QED BY <2>2, <2>3, <2>4, ReadOfStep
<1>3. ASSUME NEW t \in Producers, Trigger(t) PROVE WasRead'
  <2>1. thread[t] \in Thread /\ Key(t) \in Keys BY <1>3, BusyThread DEF Trigger, At
  <2> DEFINE k == Key(t)
             done == Done(t, "served", thread[t].val)
             new == [pc |-> "fetch", key |-> k, ticket |-> tickets[k] + 1, owns |-> TRUE,
                     val |-> 0, seq |-> started[k] + 1, old |-> FALSE, floor |-> 0, idleFloor |-> 0]
  <2>2. new.pc = "fetch" /\ done.pc = "served"
    BY <2>1 DEF Done, Thread
  <2>3. \/ thread' = [thread EXCEPT ![t] = done]
        \/ thread' = [thread EXCEPT ![t] = done, ![k] = new]
    BY <1>3 DEF Trigger
  <2> HIDE DEF new, done
  <2>4. \A u \in Producers : thread'[u] = thread[u] \/ thread'[u] = done \/ thread'[u] = new
    BY <1>0, <2>3
  <2>5. thread'[t] = done \/ thread'[t] = new
    BY <1>0, <2>3
  <2>6. \A u \in Producers : thread'[u] = done \/ thread'[u] = new => InHand(u)'
    BY <2>2 DEF InHand
  <2>7. entries' = entries /\ origin' = origin
    BY <1>3 DEF Trigger
  <2> QED BY <2>4, <2>5, <2>6, <2>7, ReadOfStep
<1>4. ASSUME NEW t \in Producers, Put(t) PROVE WasRead'
  <2>1. thread[t] \in Thread /\ Key(t) \in Keys BY <1>4, BusyThread DEF Put, At
  <2>2. origin' = origin BY <1>4 DEF Put
  <2>3. Had(Key(t), thread[t].val) /\ thread[t].val \in Nat
    BY <1>4 DEF Put, At, WasRead, InHand, Had
  <2> DEFINE done == Finish(t, "served", thread[t].val)
  <2>4. done \in Thread /\ done.pc \in {"served", "release"}
    BY <2>1, <2>3, FinishType DEF Finish, Done, Thread
  <2>5. CASE Overtaken(t)
    <3>1. thread' = [thread EXCEPT ![t] = done] /\ entries' = entries
      BY <1>4, <2>5 DEF Put
    <3> HIDE DEF done
    <3>2. thread'[t] = done /\ \A u \in Producers \ {t} : thread'[u] = thread[u]
      BY <1>0, <3>1
    <3>3. InHand(t)' BY <2>4, <3>2 DEF InHand
    <3> QED BY <2>2, <3>1, <3>2, <3>3, ReadOfStep
  <2>6. CASE ~ Overtaken(t)
    <3>1. PICK out :
           /\ entries' = [x \in Keys |-> IF x \in out THEN NoEntry
                                         ELSE IF x = Key(t) THEN Snapshot(t) ELSE entries[x]]
           /\ thread' = Outdated([thread EXCEPT ![t] = done], out)
      BY <1>4, <2>6, PutStores
    <3>2. \A k \in Keys : entries'[k] # NoEntry =>
            Had(k, entries'[k].val) \/ (entries[k] # NoEntry /\ entries'[k].val = entries[k].val)
      BY <2>3, <3>1 DEF Snapshot
    <3> HIDE DEF done
    <3> DEFINE th == [thread EXCEPT ![t] = done]
    <3>3. th \in [Producers -> Threads] /\ th[t] = done /\ \A u \in Producers \ {t} : th[u] = thread[u]
      BY <1>0, <2>4 DEF Threads
    <3>4. ASSUME NEW u \in Producers
          PROVE  thread'[u] = th[u] \/ (thread'[u].key = th[u].key /\ thread'[u].pc = th[u].pc
                                        /\ thread'[u].val = th[u].val)
      <4>1. thread'[u] = th[u] \/ (th[u] # Idle /\ thread'[u] = [th[u] EXCEPT !.old = TRUE])
        BY <3>1 DEF Outdated
      <4>2. th[u] # Idle => th[u] \in Thread BY <3>3 DEF Threads
      <4> HIDE DEF th
      <4> QED BY <4>1, <4>2 DEF Thread
    <3> HIDE DEF th
    <3>5. InHand(t)' BY <2>4, <3>3, <3>4 DEF InHand
    <3>6. ASSUME NEW u \in Producers \ {t} PROVE InHand(u)'
      BY <2>2, <3>3, <3>4 DEF InHand, WasRead, Key, Had
    <3> QED BY <2>2, <3>2, <3>5, <3>6, ReadOfStep
  <2> QED BY <2>5, <2>6
<1>5. ASSUME NEW k \in Keys, Write(k) PROVE WasRead'
  <2>1. UNCHANGED <<entries, thread>> /\ \A x \in Keys : origin'[x] >= origin[x]
    BY <1>0, <1>5 DEF Write
  <2>2. \A x \in Keys : \A v : Had(x, v) => Had(x, v)'
    BY <2>1 DEF Had, Types
  <2>3. \A u \in Producers : InHand(u)'
    <3> SUFFICES ASSUME NEW u \in Producers, thread[u].pc \in {"check", "trigger", "got"}
                 PROVE  Had(Key(u), thread[u].val)'
      BY <2>1 DEF InHand
    <3>1. Key(u) \in Keys BY BusyThread
    <3> QED BY <2>1, <2>2, <3>1 DEF InHand, WasRead, Key
  <2>4. \A x \in Keys : origin'[x] # 0
    BY <2>1, Types' DEF WasRead, Types
  <2> QED BY <2>1, <2>2, <2>3, <2>4 DEF WasRead, Stored
<1>6. ASSUME NEW k \in Keys, Age(k) PROVE WasRead'
  <2>1. UNCHANGED <<thread, origin>> BY <1>6 DEF Age
  <2>2. entries[k] \in Entry /\ entries[k] # NoEntry BY <1>6 DEF Age, Types, NoEntry
  <2>3. \A x \in Keys : entries'[x] # NoEntry => entries[x] # NoEntry /\ entries'[x].val = entries[x].val
    BY <1>6, <2>2 DEF Age, Types, Entry
  <2> QED BY <2>1, <2>3 DEF WasRead, Stored, InHand, Had, Key
<1>7. ASSUME Invalidate PROVE WasRead'
  <2>1. PICK out : /\ entries' = [k \in Keys |-> IF k \in out THEN NoEntry ELSE entries[k]]
                   /\ thread' = Outdated(thread, out)
                   /\ origin' = origin
    BY <1>7 DEF Invalidate
  <2>2. ASSUME NEW u \in Producers
        PROVE  thread'[u] = thread[u] \/ (thread'[u].key = thread[u].key /\ thread'[u].pc = thread[u].pc
                                          /\ thread'[u].val = thread[u].val)
    <3>1. thread'[u] = thread[u] \/ (thread[u] # Idle /\ thread'[u] = [thread[u] EXCEPT !.old = TRUE])
      BY <2>1 DEF Outdated
    <3>2. thread[u] # Idle => thread[u] \in Thread BY <1>0 DEF Threads
    <3> QED BY <3>1, <3>2 DEF Thread
  <2>3. \A u \in Producers : InHand(u)'
    BY <2>1, <2>2 DEF InHand, WasRead, Key, Had
  <2>4. \A k \in Keys : k \in Stored' => k \in Stored /\ entries'[k] = entries[k]
    BY <2>1 DEF Stored
  <2> QED BY <2>1, <2>3, <2>4 DEF WasRead, Had
<1>8. CASE UNCHANGED vars
  BY <1>8 DEF vars, WasRead, Stored, InHand, Had, Key
<1> QED BY <1>1, <1>2, <1>3, <1>4, <1>5, <1>6, <1>7, <1>8 DEF Next

----------------------------------------------------------------------------
(* CacheReads, what requests may expect                                    *)

\* A step that leaves the answers and the snapshots alone is none of CacheReads.
LEMMA ReadsStutter ==
  ASSUME origin' = origin, idleFloor' = idleFloor,
         \A k \in Keys : (entries'[k] = NoEntry <=> entries[k] = NoEntry)
                         /\ (entries[k] # NoEntry => entries'[k].val = entries[k].val),
         \A c \in Callers : CallOf(thread'[c]) = CallOf(thread[c])
  PROVE  UNCHANGED Reads!readVars
<1>1. Calls' = Calls BY DEF Calls
<1>2. Stored' = Stored BY DEF Stored
<1>3. Snapshots' = Snapshots BY <1>2 DEF Snapshots, Stored
<1> QED BY <1>1, <1>3 DEF Reads!readVars

\* Only the request of c goes on.
LEMMA CallGoesOn ==
  ASSUME NEW c \in Callers, thread[c] \in Thread, thread'[c] \in Thread,
         thread'[c].key = thread[c].key, thread'[c].idleFloor = thread[c].idleFloor,
         \A u \in Callers \ {c} : CallOf(thread'[u]) = CallOf(thread[u])
  PROVE  /\ Calls[c] = CallOf(thread[c]) /\ Reads!KeyOf(c) = Key(c)
         /\ Reads!Becomes(c, CallOf(thread'[c]).at, thread'[c].val)
<1>1. thread[c] # Idle /\ thread'[c] # Idle
  BY DEF Thread, Idle
<1>2. Calls[c] = CallOf(thread[c]) /\ Calls[c].key = Key(c) /\ Calls[c].least = thread[c].idleFloor
  BY <1>1 DEF Calls, CallOf, Key
<1>3. CallOf(thread'[c]) = [at |-> CallOf(thread'[c]).at, key |-> Key(c), least |-> thread[c].idleFloor,
                            val |-> thread'[c].val]
  BY <1>1 DEF CallOf, Key
<1>4. Calls' = [Calls EXCEPT ![c] = CallOf(thread'[c])]
  BY DEF Calls
<1> QED BY <1>2, <1>3, <1>4 DEF Reads!KeyOf, Reads!Becomes, Reads!Call

\* A snapshot there is stands for what is held of its key.
LEMMA SnapshotHeld ==
  ASSUME NEW k \in Keys
  PROVE  /\ k \in Stored <=> entries[k] # NoEntry
         /\ Snapshots[k] = IF entries[k] = NoEntry THEN 0 ELSE entries[k].val
BY DEF Snapshots, Stored

\* Snapshots are versions of the origin, or 0 where there is none.
LEMMA SnapshotsAreVersions == Types' => Snapshots' \in [Keys -> Nat]
<1> SUFFICES ASSUME Types' PROVE Snapshots' \in [Keys -> Nat]
  OBVIOUS
<1>1. ASSUME NEW k \in Keys, k \in Stored' PROVE entries'[k].val \in Nat
  <2>1. entries'[k] \in Entry BY <1>1 DEF Types, Stored
  <2> QED BY <2>1 DEF Entry
<1> QED BY <1>1 DEF Snapshots

\* A caller is waiting from the moment it misses until it has an answer or a failure.
LEMMA CallWaits ==
  ASSUME NEW c \in Callers, thread[c] \in Thread, thread[c].pc \notin {"served", "raised", "release"}
  PROVE  CallOf(thread[c]).at = "waiting" /\ Reads!Waits(c)
<1>1. thread[c] # Idle BY DEF Thread, Idle
<1>2. CallOf(thread[c]).at = "waiting" BY <1>1 DEF CallOf
<1> QED BY <1>2 DEF Reads!Waits, Calls

\* What is left of a call that is done, or has only its slot to give back.
LEMMA CallDone ==
  ASSUME NEW t \in Producers, thread[t] \in Thread, NEW val \in Nat,
         NEW pc \in {"served", "raised"}, val = 0 <=> pc = "raised",
         NEW new, new = Finish(t, pc, val) \/ new = Done(t, pc, val)
  PROVE  /\ new \in Thread /\ new.key = thread[t].key /\ new.idleFloor = thread[t].idleFloor
         /\ new.val = val
         /\ CallOf(new).at = IF val = 0 THEN "failed" ELSE "answered"
<1>1. new \in Thread BY DoneType, FinishType
<1>2. /\ new.key = thread[t].key /\ new.idleFloor = thread[t].idleFloor /\ new.val = val
      /\ new.pc = "release" \/ new.pc = pc
  BY DEF Finish, Done, Thread
<1>3. new # Idle BY <1>1 DEF Thread, Idle
<1> QED BY <1>1, <1>2, <1>3 DEF CallOf

\* What the rest of the proof has of a state.
ReadsInv == IInv /\ WasRead

\* get_or_refresh asks.
LEMMA LookupAsks ==
  ASSUME ReadsInv, NEW t \in Callers, NEW k \in Keys, Lookup(t, k)
  PROVE  Reads!ReadsNext
<1> DEFINE e == entries[k]
           next == CASE e = NoEntry -> "begin" [] e.life = "fresh" -> "served" [] OTHER -> "check"
           val == IF next = "begin" THEN 0 ELSE e.val
           new == [pc |-> next, key |-> k, ticket |-> 0, owns |-> FALSE, val |-> val, seq |-> 0,
                   old |-> FALSE, floor |-> floor[k], idleFloor |-> idleFloor[k]]
<1>0. thread \in [Producers -> Threads] /\ t \in Producers
  BY DEF ReadsInv, IInv, Types, Threads, Producers
<1>1. thread' = [thread EXCEPT ![t] = new]
  BY DEF Lookup
<1>2. next \in {"begin", "served", "check"} /\ (next = "begin" <=> k \notin Stored)
  BY DEF Stored, NoEntry
<1>3. val = Snapshots[k]
  BY <1>2 DEF Snapshots
<1>4. next = "served" => Snapshots[k] # 0
  BY <1>2, <1>3 DEF ReadsInv, WasRead, Had
<1> HIDE DEF next, val
<1>5. CallOf(new) = [at |-> IF next = "served" THEN "answered" ELSE "waiting", key |-> k,
                     least |-> idleFloor[k], val |-> val]
  BY <1>2 DEF CallOf, Idle
<1>6. CallOf(thread[t]).at # "waiting"
  <2>1. thread[t] = Idle \/ thread[t].pc \in {"served", "raised"}
    BY <1>0 DEF Lookup, Threads, Thread
  <2> QED BY <2>1 DEF CallOf
<1> HIDE DEF new
<1>7. Calls' = [Calls EXCEPT ![t] = CallOf(new)]
  BY <1>0, <1>1 DEF Calls, Producers
<1>8. Snapshots' = Snapshots /\ origin' = origin /\ idleFloor' = idleFloor
  BY DEF Lookup, Snapshots, Stored
<1>9. ~ Reads!Waits(t)
  BY <1>6 DEF Reads!Waits, Calls
<1>10. Reads!Ask(t, k)
  BY <1>3, <1>4, <1>5, <1>7, <1>8, <1>9 DEF Reads!Ask, Reads!Call
<1> QED BY <1>10 DEF Reads!ReadsNext

\* A stale snapshot that can be renewed answers the call.
LEMMA TriggerReplies ==
  ASSUME ConstantsAssumption, ReadsInv, NEW t \in Producers, Trigger(t)
  PROVE  [Reads!ReadsNext]_Reads!readVars
<1>0. thread \in [Producers -> Threads] BY DEF ReadsInv, IInv, Types, Threads
<1>1. thread[t] \in Thread /\ Key(t) \in Keys BY BusyThread DEF Trigger, At, ReadsInv, IInv
<1>2. PICK k \in Keys : k = Key(t) BY <1>1
<1> DEFINE done == Done(t, "served", thread[t].val)
           new == [pc |-> "fetch", key |-> k, ticket |-> tickets[k] + 1, owns |-> TRUE,
                   val |-> 0, seq |-> started[k] + 1, old |-> FALSE, floor |-> 0, idleFloor |-> 0]
<1>3. \/ thread' = [thread EXCEPT ![t] = done]
      \/ thread' = [thread EXCEPT ![t] = done, ![k] = new]
  BY <1>2 DEF Trigger
<1> HIDE DEF new
<1>4. k \notin Callers BY DEF ConstantsAssumption
<1>5. /\ \A c \in Callers \ {t} : thread'[c] = thread[c]
      /\ t \in Callers => thread'[t] = done
  <2> HIDE DEF done
  <2> QED BY <1>0, <1>3, <1>4 DEF Producers
<1>6. entries' = entries /\ origin' = origin /\ idleFloor' = idleFloor
  BY DEF Trigger
<1>7. CASE t \notin Callers
  <2>1. UNCHANGED Reads!readVars BY <1>5, <1>6, <1>7, ReadsStutter
  <2> QED BY <2>1
<1>8. CASE t \in Callers
  <2>1. thread[t].val \in Nat /\ thread[t].val # 0
    BY <1>1 DEF Trigger, At, ReadsInv, WasRead, InHand, Had, Thread
  <2>2. /\ done \in Thread /\ done.key = thread[t].key /\ done.idleFloor = thread[t].idleFloor
        /\ done.val = thread[t].val /\ CallOf(done).at = "answered"
    BY <1>1, <2>1, CallDone
  <2> HIDE DEF done
  <2>a. thread[t] # Idle BY <1>1 DEF Thread, Idle
  <2>b. CallOf(thread[t]).val = thread[t].val BY <2>a DEF CallOf
  <2>3. Reads!Becomes(t, "answered", thread[t].val) /\ Calls[t].val = thread[t].val
    BY <1>1, <1>5, <1>8, <2>2, <2>b, CallGoesOn
  <2>4. Reads!Waits(t) BY <1>1, <1>8, CallWaits DEF Trigger, At
  <2>5. Snapshots' = Snapshots BY <1>6 DEF Snapshots, Stored
  <2>6. Reads!Reply(t) BY <1>6, <2>1, <2>3, <2>4, <2>5 DEF Reads!Reply
  <2> QED BY <1>8, <2>6 DEF Reads!ReadsNext
<1> QED BY <1>7, <1>8

\* A read of the origin, an entry found after waiting, and one found after a failure are
\* found; a failure without an entry fails.
LEMMA WaitFinds ==
  ASSUME ReadsInv, NEW t \in Producers, WaitEnds(t) \/ FetchReads(t) \/ Fallback(t)
  PROVE  [Reads!ReadsNext]_Reads!readVars
<1>0. thread \in [Producers -> Threads] BY DEF ReadsInv, IInv, Types, Threads
<1>1. thread[t] \in Thread /\ Key(t) \in Keys
  BY BusyThread DEF WaitEnds, FetchReads, Fallback, At, ReadsInv, IInv
<1>2. /\ UNCHANGED <<entries, origin, idleFloor>>
      /\ \A u \in Producers \ {t} : thread'[u] = thread[u]
  BY <1>0 DEF WaitEnds, FetchReads, Fallback
<1>3. Snapshots' = Snapshots /\ \A u \in Callers \ {t} : thread'[u] = thread[u]
  BY <1>2 DEF Snapshots, Stored, Producers
<1> DEFINE k == Key(t)
           e == entries[k]
<1>4. e # NoEntry => e.val \in Nat /\ e.val # 0 /\ Snapshots[k] = e.val
  BY <1>1, SnapshotHeld DEF ReadsInv, WasRead, Had
<1>5. CASE t \notin Callers
  <2>1. UNCHANGED Reads!readVars BY <1>2, <1>3, <1>5, ReadsStutter
  <2> QED BY <2>1
<1>6. CASE t \in Callers /\ WaitEnds(t) /\ e = NoEntry
  <2>1. thread'[t] = [thread[t] EXCEPT !.pc = "fetch"] BY <1>0, <1>6 DEF WaitEnds
  <2>2. CallOf(thread'[t]) = CallOf(thread[t])
    BY <1>1, <1>6, <2>1 DEF CallOf, Idle, Thread, WaitEnds, At
  <2>3. UNCHANGED Reads!readVars BY <1>2, <1>3, <2>2, ReadsStutter
  <2> QED BY <2>3
<1>7. ASSUME t \in Callers, NEW v \in {Snapshots[k], origin[k]}, v \in Nat, v # 0,
             thread'[t] \in Thread, thread'[t].key = thread[t].key, thread'[t].val = v,
             thread'[t].idleFloor = thread[t].idleFloor,
             CallOf(thread'[t]).at \in {"waiting", "answered"}
      PROVE  Reads!ReadsNext
  <2>1. Reads!KeyOf(t) = k /\ Reads!Becomes(t, CallOf(thread'[t]).at, v)
    BY <1>1, <1>3, <1>7, CallGoesOn
  <2>2. Reads!Waits(t)
    BY <1>1, <1>7, CallWaits DEF WaitEnds, FetchReads, Fallback, At
  <2>3. Reads!Find(t)
    BY <1>2, <1>3, <1>7, <2>1, <2>2 DEF Reads!Find
  <2> QED BY <1>7, <2>3 DEF Reads!ReadsNext
<1>8. CASE t \in Callers /\ FetchReads(t)
  <2>1. thread'[t] = [thread[t] EXCEPT !.pc = "got", !.val = origin[k]]
    BY <1>0, <1>8 DEF FetchReads
  <2>2. origin[k] \in Nat /\ origin[k] # 0 BY <1>1 DEF ReadsInv, IInv, Types, WasRead
  <2>3. /\ thread'[t] \in Thread /\ thread'[t].key = thread[t].key /\ thread'[t].val = origin[k]
        /\ thread'[t].idleFloor = thread[t].idleFloor /\ thread'[t].pc = "got"
    BY <1>1, <2>1, <2>2 DEF Thread
  <2>4. CallOf(thread'[t]).at = "waiting" BY <2>3 DEF CallOf, Idle, Thread
  <2> QED BY <1>7, <1>8, <2>2, <2>3, <2>4
<1>9. CASE t \in Callers /\ (WaitEnds(t) \/ Fallback(t)) /\ e # NoEntry
  <2>1. thread'[t] = Done(t, "served", e.val) \/ thread'[t] = Finish(t, "served", e.val)
    BY <1>0, <1>9 DEF WaitEnds, Fallback
  <2>2. /\ thread'[t] \in Thread /\ thread'[t].key = thread[t].key /\ thread'[t].val = e.val
        /\ thread'[t].idleFloor = thread[t].idleFloor /\ CallOf(thread'[t]).at = "answered"
    BY <1>1, <1>4, <1>9, <2>1, CallDone
  <2> QED BY <1>4, <1>7, <1>9, <2>2
<1>10. CASE t \in Callers /\ Fallback(t) /\ e = NoEntry
  <2>1. thread'[t] = Finish(t, "raised", 0) BY <1>0, <1>10 DEF Fallback
  <2>2. /\ thread'[t] \in Thread /\ thread'[t].key = thread[t].key /\ thread'[t].val = 0
        /\ thread'[t].idleFloor = thread[t].idleFloor /\ CallOf(thread'[t]).at = "failed"
    BY <1>1, <2>1, CallDone
  <2>3. Reads!KeyOf(t) = k /\ Reads!Becomes(t, "failed", 0)
    BY <1>1, <1>3, <1>10, <2>2, CallGoesOn
  <2>4. Reads!Waits(t) BY <1>1, <1>10, CallWaits DEF Fallback, At
  <2>5. Snapshots[k] = 0 BY <1>1, <1>10, SnapshotHeld
  <2>6. Reads!Fail(t) BY <1>2, <1>3, <2>3, <2>4, <2>5 DEF Reads!Fail
  <2> QED BY <1>10, <2>6 DEF Reads!ReadsNext
<1> QED BY <1>5, <1>6, <1>8, <1>9, <1>10

\* put: the snapshot of a request is held and answers it, one of a background refresh is
\* renewed, and one that was overtaken only answers.
LEMMA PutReplies ==
  ASSUME ReadsInv, Types', NEW t \in Producers, Put(t)
  PROVE  [Reads!ReadsNext]_Reads!readVars
<1>0. thread \in [Producers -> Threads] BY DEF ReadsInv, IInv, Types, Threads
<1>1. thread[t] \in Thread /\ Key(t) \in Keys BY BusyThread DEF Put, At, ReadsInv, IInv
<1> DEFINE k == Key(t)
           v == thread[t].val
           done == Finish(t, "served", v)
<1>2. v \in Nat /\ v # 0 /\ v \in idleFloor[k] .. origin[k]
  <2>1. v \in Nat /\ v # 0 /\ v <= origin[k]
    BY DEF Put, At, ReadsInv, WasRead, InHand, Had
  <2>2. v >= idleFloor[k]
    BY <1>1 DEF Put, At, ReadsInv, IInv, Promise, Covers, Idle, Thread
  <2>3. idleFloor[k] \in Nat /\ origin[k] \in Nat BY <1>1 DEF ReadsInv, IInv, Types
  <2> QED BY <2>1, <2>2, <2>3
<1>3. /\ done \in Thread /\ done.key = thread[t].key /\ done.idleFloor = thread[t].idleFloor
      /\ done.val = v /\ CallOf(done).at = "answered"
  BY <1>1, <1>2, CallDone
<1>4. UNCHANGED <<origin, idleFloor>> BY DEF Put
<1>5. CASE Overtaken(t)
  <2>1. thread' = [thread EXCEPT ![t] = done] /\ entries' = entries
    BY <1>5 DEF Put
  <2> HIDE DEF done
  <2>2. thread'[t] = done /\ \A u \in Producers \ {t} : thread'[u] = thread[u]
    BY <1>0, <2>1
  <2>3. \A u \in Callers \ {t} : CallOf(thread'[u]) = CallOf(thread[u])
    BY <2>2 DEF Producers
  <2>4. CASE t \notin Callers
    <3>1. \A u \in Callers : CallOf(thread'[u]) = CallOf(thread[u]) BY <2>3, <2>4
    <3>2. UNCHANGED Reads!readVars BY <1>4, <2>1, <3>1, ReadsStutter
    <3> QED BY <3>2
  <2>5. CASE t \in Callers
    <3>1. Calls[t] = CallOf(thread[t]) /\ Reads!Becomes(t, "answered", v)
      BY <1>1, <1>3, <2>2, <2>3, <2>5, CallGoesOn
    <3>2. Calls[t].val = v
      <4>1. thread[t] # Idle BY <1>1 DEF Thread, Idle
      <4> QED BY <3>1, <4>1 DEF CallOf
    <3>3. Reads!Waits(t) BY <1>1, <2>5, CallWaits DEF Put, At
    <3>4. Snapshots' = Snapshots BY <2>1 DEF Snapshots, Stored
    <3>5. Reads!Reply(t) BY <1>2, <1>4, <3>1, <3>2, <3>3, <3>4 DEF Reads!Reply
    <3> QED BY <2>5, <3>5 DEF Reads!ReadsNext
  <2> QED BY <2>4, <2>5
<1>6. CASE ~ Overtaken(t)
  <2>1. PICK out :
         /\ entries' = [x \in Keys |-> IF x \in out THEN NoEntry
                                       ELSE IF x = k THEN Snapshot(t) ELSE entries[x]]
         /\ thread' = Outdated([thread EXCEPT ![t] = done], out)
    BY <1>6, PutStores
  <2>2. \A x \in Keys : Snapshots'[x] = IF x \in out THEN 0 ELSE IF x = k THEN v ELSE Snapshots[x]
    <3>1. Snapshot(t) # NoEntry /\ Snapshot(t).val = v
      BY DEF Snapshot, NoEntry
    <3>2. ASSUME NEW x \in Keys
          PROVE  Snapshots'[x] = IF x \in out THEN 0 ELSE IF x = k THEN v ELSE Snapshots[x]
      <4>1. Snapshots'[x] = IF entries'[x] = NoEntry THEN 0 ELSE entries'[x].val
        BY DEF Snapshots, Stored
      <4>2. Snapshots[x] = IF entries[x] = NoEntry THEN 0 ELSE entries[x].val
        BY SnapshotHeld
      <4> QED BY <2>1, <3>1, <4>1, <4>2
    <3> QED BY <3>2
  <2>3. Reads!Holds(k, v)
    BY <1>2, <2>2, SnapshotsAreVersions DEF Reads!Holds
  <2> HIDE DEF done
  <2> DEFINE th == [thread EXCEPT ![t] = done]
  <2>4. th \in [Producers -> Threads] /\ th[t] = done /\ \A u \in Producers \ {t} : th[u] = thread[u]
    BY <1>0, <1>3 DEF Threads
  <2> HIDE DEF th
  <2>5. ASSUME NEW u \in Producers
        PROVE  /\ CallOf(thread'[u]) = CallOf(th[u])
               /\ th[u] \in Thread => /\ thread'[u] \in Thread /\ thread'[u].key = th[u].key
                                      /\ thread'[u].val = th[u].val /\ thread'[u].idleFloor = th[u].idleFloor
    <3>1. thread'[u] = th[u] \/ (th[u] # Idle /\ thread'[u] = [th[u] EXCEPT !.old = TRUE])
      BY <2>1 DEF Outdated, th
    <3>2. th[u] # Idle => th[u] \in Thread BY <2>4 DEF Threads
    <3>3. ASSUME th[u] \in Thread, thread'[u] = [th[u] EXCEPT !.old = TRUE]
          PROVE  /\ thread'[u] \in Thread /\ thread'[u].key = th[u].key /\ thread'[u].pc = th[u].pc
                 /\ thread'[u].val = th[u].val /\ thread'[u].idleFloor = th[u].idleFloor
      BY <3>3 DEF Thread
    <3>4. ASSUME th[u] \in Thread, thread'[u] = [th[u] EXCEPT !.old = TRUE]
          PROVE  CallOf(thread'[u]) = CallOf(th[u])
      <4>1. th[u] # Idle /\ thread'[u] # Idle BY <3>3, <3>4 DEF Thread, Idle
      <4> QED BY <3>3, <3>4, <4>1 DEF CallOf
    <3> QED BY <3>1, <3>2, <3>3, <3>4
  <2>6. \A u \in Callers \ {t} : CallOf(thread'[u]) = CallOf(thread[u])
    BY <2>4, <2>5 DEF Producers
  <2>7. CASE t \notin Callers
    <3>1. Calls' = Calls BY <2>6, <2>7 DEF Calls
    <3>2. Reads!Renew(k) BY <1>2, <1>4, <2>3, <3>1 DEF Reads!Renew
    <3> QED BY <1>1, <3>2 DEF Reads!ReadsNext
  <2>8. CASE t \in Callers
    <3>1. /\ thread'[t] \in Thread /\ thread'[t].key = thread[t].key /\ thread'[t].val = v
          /\ thread'[t].idleFloor = thread[t].idleFloor /\ CallOf(thread'[t]).at = "answered"
      BY <1>3, <2>4, <2>5
    <3>2. Calls[t] = CallOf(thread[t]) /\ Reads!KeyOf(t) = k /\ Reads!Becomes(t, "answered", v)
      BY <1>1, <2>6, <2>8, <3>1, CallGoesOn
    <3>3. Calls[t].val = v
      <4>1. thread[t] # Idle BY <1>1 DEF Thread, Idle
      <4> QED BY <3>2, <4>1 DEF CallOf
    <3>4. Reads!Waits(t) BY <1>1, <2>8, CallWaits DEF Put, At
    <3>5. Reads!Reply(t) BY <1>2, <1>4, <2>3, <3>2, <3>3, <3>4 DEF Reads!Reply
    <3> QED BY <2>8, <3>5 DEF Reads!ReadsNext
  <2> QED BY <2>7, <2>8
<1> QED BY <1>5, <1>6

\* Waiting for the slot, a failure before its fallback and giving the slot back are no
\* steps of CacheReads.
LEMMA InsideStutters ==
  ASSUME ConstantsAssumption, ReadsInv, NEW t \in Producers,
         CheckStale(t) \/ Begin(t) \/ Slot(t) \/ FetchRaises(t) \/ MarkStale(t) \/ Release(t)
  PROVE  UNCHANGED Reads!readVars
<1>0. thread \in [Producers -> Threads] BY DEF ReadsInv, IInv, Types, Threads
<1>1. thread[t] \in Thread /\ Key(t) \in Keys
  BY BusyThread DEF CheckStale, Begin, Slot, FetchRaises, MarkStale, Release, At, ReadsInv, IInv
<1>2. UNCHANGED <<origin, idleFloor>> /\ \A u \in Producers \ {t} : thread'[u] = thread[u]
  BY <1>0 DEF CheckStale, Begin, Slot, FetchRaises, MarkStale, Release, GoTo
<1>3. \A k \in Keys : (entries'[k] = NoEntry <=> entries[k] = NoEntry)
                      /\ (entries[k] # NoEntry => entries'[k].val = entries[k].val)
  <2>1. CASE MarkStale(t)
    <3>1. entries[Key(t)] # NoEntry
            => /\ [entries[Key(t)] EXCEPT !.stale = TRUE].val = entries[Key(t)].val
               /\ [entries[Key(t)] EXCEPT !.stale = TRUE] # NoEntry
      BY <1>1, EntryVal DEF Entry, ReadsInv, IInv, NoEntry
    <3> QED BY <1>1, <2>1, <3>1 DEF MarkStale, Types, ReadsInv, IInv
  <2>2. CASE ~ MarkStale(t)
    <3>1. entries' = entries BY <2>2 DEF CheckStale, Begin, Slot, FetchRaises, Release
    <3> QED BY <3>1
  <2> QED BY <2>1, <2>2
<1>4. ASSUME t \in Callers PROVE CallOf(thread'[t]) = CallOf(thread[t])
  <2>0. thread[t] # Idle BY <1>1 DEF Thread, Idle
  <2>1. CASE Release(t)
    <3>1. t \notin Keys BY <1>4 DEF ConstantsAssumption
    <3>2. thread[t].pc = "release" BY <2>1 DEF Release, At
    <3>3. thread'[t] = Done(t, IF thread[t].val = 0 THEN "raised" ELSE "served", thread[t].val)
      BY <1>0, <2>1, <3>1 DEF Release
    <3>4. /\ thread'[t].key = thread[t].key /\ thread'[t].idleFloor = thread[t].idleFloor
          /\ thread'[t].val = thread[t].val /\ thread'[t].pc = IF thread[t].val = 0 THEN "raised" ELSE "served"
      BY <1>1, <3>3 DEF Done, Thread
    <3>5. thread'[t] # Idle BY <3>4 DEF Idle
    <3> QED BY <2>0, <3>2, <3>4, <3>5 DEF CallOf
  <2>2. CASE CheckStale(t) \/ Begin(t) \/ Slot(t) \/ FetchRaises(t) \/ MarkStale(t)
    <3>1. t \notin Keys BY <1>4 DEF ConstantsAssumption
    <3>2. /\ thread'[t].key = thread[t].key /\ thread'[t].idleFloor = thread[t].idleFloor
          /\ thread'[t].val = thread[t].val
          /\ thread'[t].pc \in {"trigger", "begin", "slot", "fetch", "wait", "failed", "fallback"}
      <4>1. CASE CheckStale(t) BY <1>0, <1>1, <4>1 DEF CheckStale, GoTo, Thread
      <4>2. CASE Begin(t) BY <1>0, <1>1, <4>2 DEF Begin, Thread
      <4>3. CASE Slot(t) BY <1>0, <1>1, <4>3 DEF Slot, GoTo, Thread
      <4>4. CASE FetchRaises(t) BY <1>0, <1>1, <4>4 DEF FetchRaises, GoTo, Thread
      <4>5. CASE MarkStale(t) BY <1>0, <1>1, <3>1, <4>5 DEF MarkStale, GoTo, Thread
      <4> QED BY <2>2, <4>1, <4>2, <4>3, <4>4, <4>5
    <3>3. thread[t].pc \notin {"served", "raised", "release"}
      BY <2>2 DEF CheckStale, Begin, Slot, FetchRaises, MarkStale, At
    <3>4. thread'[t] # Idle BY <3>2 DEF Idle
    <3> QED BY <2>0, <3>2, <3>3, <3>4 DEF CallOf
  <2> QED BY <2>1, <2>2
<1>5. \A c \in Callers : CallOf(thread'[c]) = CallOf(thread[c])
  BY <1>2, <1>4 DEF Producers
<1> QED BY <1>2, <1>3, <1>5, ReadsStutter

\* What is invalidated while nobody fetches it is settled.
LEMMA InvalidateSettles ==
  ASSUME ReadsInv, Types', Invalidate
  PROVE  Reads!ReadsNext
<1> DEFINE out == Cleared(Stored \cup {k \in Keys : Live(k)})
           S == {k \in Keys : ~ Live(k) /\ ~ InFlight(k)}
<1>0. thread \in [Producers -> Threads] BY DEF ReadsInv, IInv, Types, Threads
<1>1. /\ entries' = [k \in Keys |-> IF k \in out THEN NoEntry ELSE entries[k]]
      /\ thread' = Outdated(thread, out)
      /\ idleFloor' = [k \in Keys |-> IF k \in S THEN origin[k] ELSE idleFloor[k]]
      /\ origin' = origin
  BY DEF Invalidate, ReadsInv, IInv, Types
<1>2. \A k \in S : k \notin out => entries[k] = NoEntry
  BY DEF Cleared, Stored
<1> HIDE DEF out, S
<1>3. \A k \in Keys : Snapshots'[k] \in {0, Snapshots[k]} /\ (k \in S => Snapshots'[k] = 0)
  <2>1. ASSUME NEW k \in Keys PROVE Snapshots'[k] = IF k \in out \cup S THEN 0 ELSE Snapshots[k]
    <3>1. Snapshots'[k] = IF entries'[k] = NoEntry THEN 0 ELSE entries'[k].val
      BY DEF Snapshots, Stored
    <3>2. Snapshots[k] = IF entries[k] = NoEntry THEN 0 ELSE entries[k].val
      BY SnapshotHeld
    <3> QED BY <1>1, <1>2, <3>1, <3>2
  <2> QED BY <2>1
<1>4. ASSUME NEW c \in Callers PROVE CallOf(thread'[c]) = CallOf(thread[c])
  <2>1. c \in Producers BY DEF Producers
  <2>2. thread'[c] = thread[c] \/ (thread[c] # Idle /\ thread'[c] = [thread[c] EXCEPT !.old = TRUE])
    BY <1>1, <2>1 DEF Outdated
  <2>3. CASE thread[c] # Idle /\ thread'[c] = [thread[c] EXCEPT !.old = TRUE]
    <3>1. thread[c] \in Thread BY <1>0, <2>1, <2>3 DEF Threads
    <3>2. /\ thread'[c].key = thread[c].key /\ thread'[c].pc = thread[c].pc
          /\ thread'[c].val = thread[c].val /\ thread'[c].idleFloor = thread[c].idleFloor
          /\ thread'[c] # Idle
      BY <2>3, <3>1 DEF Thread, Idle
    <3> QED BY <2>3, <3>2 DEF CallOf
  <2> QED BY <2>2, <2>3
<1>5. Calls' = Calls BY <1>4 DEF Calls
<1>6. idleFloor' \in [Keys -> Nat] /\ Snapshots' \in [Keys -> Nat]
  BY Types', SnapshotsAreVersions DEF Types
<1>7. \A k \in Keys : \/ idleFloor'[k] = idleFloor[k] /\ Snapshots'[k] \in {0, Snapshots[k]}
                      \/ idleFloor'[k] = origin[k] /\ Snapshots'[k] = 0
  BY <1>1, <1>3
<1>8. Reads!Settle BY <1>1, <1>5, <1>6, <1>7 DEF Reads!Settle
<1> QED BY <1>8 DEF Reads!ReadsNext

\* Every step of the cache is one that CacheReads allows, or none of its steps.
LEMMA NextReads ==
  ConstantsAssumption /\ ReadsInv /\ [Next]_vars => [Reads!ReadsNext]_Reads!readVars
<1> SUFFICES ASSUME ConstantsAssumption, ReadsInv, [Next]_vars
             PROVE  [Reads!ReadsNext]_Reads!readVars
  OBVIOUS
<1>0. Types' BY TypesNext DEF ReadsInv, IInv
<1>1. ASSUME NEW t \in Producers, Step(t) PROVE [Reads!ReadsNext]_Reads!readVars
  BY <1>0, <1>1, TriggerReplies, WaitFinds, PutReplies, InsideStutters DEF Step
<1>2. ASSUME NEW k \in Keys, Write(k) PROVE Reads!ReadsNext
  <2>1. /\ origin' = [origin EXCEPT ![k] = @ + 1] /\ idleFloor' = idleFloor
        /\ Snapshots' = Snapshots /\ Calls' = Calls
    BY <1>2 DEF Write, Snapshots, Stored, Calls
  <2>2. Reads!Commit(k) BY <2>1 DEF Reads!Commit
  <2> QED BY <2>2 DEF Reads!ReadsNext
<1>3. ASSUME NEW k \in Keys, Age(k) PROVE UNCHANGED Reads!readVars
  <2>1. UNCHANGED <<thread, origin, idleFloor>> BY <1>3 DEF Age
  <2>2. entries[k] \in Entry /\ entries[k] # NoEntry
    BY <1>3 DEF Age, Types, NoEntry, ReadsInv, IInv
  <2>3. \A x \in Keys : (entries'[x] = NoEntry <=> entries[x] = NoEntry)
                        /\ (entries[x] # NoEntry => entries'[x].val = entries[x].val)
    <3> DEFINE life == IF entries[k].life = "fresh" THEN "stale" ELSE "expired"
    <3>1. entries' = [entries EXCEPT ![k].life = life] BY <1>3 DEF Age
    <3>2. /\ [entries[k] EXCEPT !.life = life].val = entries[k].val
          /\ [entries[k] EXCEPT !.life = life] # NoEntry
      BY <2>2 DEF Entry, NoEntry
    <3> HIDE DEF life
    <3> QED BY <2>2, <3>1, <3>2 DEF Types, ReadsInv, IInv
  <2> QED BY <2>1, <2>3, ReadsStutter
<1>4. CASE UNCHANGED vars
  BY <1>4, ReadsStutter DEF vars
<1> QED BY <1>0, <1>1, <1>2, <1>3, <1>4, LookupAsks, InvalidateSettles DEF Next

\* The first state is CacheReads'.
LEMMA InitReads == Init => WasRead /\ Reads!ReadsInit
<1> SUFFICES ASSUME Init PROVE WasRead /\ Reads!ReadsInit
  OBVIOUS
<1>1. Stored = {} /\ origin = [k \in Keys |-> 1] /\ idleFloor = [k \in Keys |-> 0]
      /\ \A t \in Producers : thread[t] = Idle
  BY DEF Init, Stored
<1>2. WasRead BY <1>1 DEF WasRead, InHand, Idle
<1>3. Snapshots = [k \in Keys |-> 0] BY <1>1 DEF Snapshots
<1>4. Calls = [c \in Callers |-> Reads!NoCall]
  BY <1>1 DEF Calls, CallOf, Reads!NoCall, Producers
<1> QED BY <1>1, <1>2, <1>3, <1>4 DEF Reads!ReadsInit

\* The cache keeps what CacheReads promises, for every number of keys, callers and entries:
\* whatever waits, is overtaken, evicted, refreshed in the background or raises.
THEOREM ReadsImplementation == Spec => ImplementsReads
<1>1. IInv /\ WasRead /\ [Next]_vars => WasRead'
  <2> SUFFICES ASSUME IInv, WasRead, [Next]_vars PROVE WasRead'
    OBVIOUS
  <2>1. Types /\ Types' BY TypesNext DEF IInv
  <2> QED BY <2>1, ReadNext, ConstantsAssumption
<1>2. IInv /\ WasRead /\ [Next]_vars => [Reads!ReadsNext]_Reads!readVars
  BY NextReads, ConstantsAssumption DEF ReadsInv
<1> QED BY <1>1, <1>2, InitReads, Invariance, PTL DEF Spec, ImplementsReads, Reads!ReadsSpec

\* A request's part of ReadsKept.
CallKeeps(c) ==
  Calls[c] # Reads!NoCall =>
    /\ Calls[c].least <= idleFloor[Reads!KeyOf(c)] /\ Calls[c].val <= origin[Reads!KeyOf(c)]
    /\ Calls[c].val # 0 => Calls[c].val >= Calls[c].least
    /\ Calls[c].at = "answered" => Calls[c].val # 0

\* A request that goes on, with v in hand, keeps its part.
LEMMA BecomesKeeps ==
  ASSUME Reads!ReadsKept, NEW c \in Callers, Reads!Waits(c), NEW v \in Nat,
         NEW at \in {"waiting", "answered", "failed"}, Reads!Becomes(c, at, v),
         v <= origin[Reads!KeyOf(c)], v # 0 => v >= idleFloor[Reads!KeyOf(c)] \/ v = Calls[c].val,
         at = "answered" => v # 0, UNCHANGED <<origin, idleFloor>>
  PROVE  /\ Reads!KeyOf(c) \in Keys
         /\ Calls' \in [Callers -> {Reads!NoCall} \cup
                [at : {"waiting", "answered", "failed"}, key : Keys, least : Nat, val : Nat]]
         /\ \A u \in Callers : CallKeeps(u)'
<1> DEFINE R == [at : {"waiting", "answered", "failed"}, key : Keys, least : Nat, val : Nat]
           k == Reads!KeyOf(c)
           new == Reads!Call(at, k, Calls[c].least, v)
<1>1. Calls \in [Callers -> {Reads!NoCall} \cup R] BY DEF Reads!ReadsKept
<1>2. Calls[c] # Reads!NoCall BY DEF Reads!Waits, Reads!NoCall
<1>3. Calls[c] \in R BY <1>1, <1>2
<1>4. k \in Keys /\ Calls[c].least \in Nat BY <1>3 DEF Reads!KeyOf
<1>5. new \in R /\ new.at = at /\ new.key = k /\ new.least = Calls[c].least /\ new.val = v
  BY <1>4 DEF Reads!Call
<1>6. Calls' = [Calls EXCEPT ![c] = new] BY DEF Reads!Becomes
<1> HIDE DEF new, R
<1>7. Calls' \in [Callers -> {Reads!NoCall} \cup R] BY <1>1, <1>5, <1>6
<1>8. Calls'[c] = new /\ \A u \in Callers \ {c} : Calls'[u] = Calls[u] BY <1>1, <1>6
<1>9. CallKeeps(c)'
  <2>1. /\ Calls[c].least <= idleFloor[k]
        /\ Calls[c].val # 0 => Calls[c].val >= Calls[c].least
    BY <1>2 DEF Reads!ReadsKept
  <2>2. v # 0 => v >= Calls[c].least
    BY <1>4, <2>1 DEF Reads!ReadsKept
  <2>3. Reads!KeyOf(c)' = k BY <1>5, <1>8 DEF Reads!KeyOf
  <2> QED BY <1>5, <1>8, <2>1, <2>2, <2>3 DEF CallKeeps
<1>10. \A u \in Callers \ {c} : CallKeeps(u)'
  BY <1>8 DEF CallKeeps, Reads!ReadsKept, Reads!KeyOf
<1> QED BY <1>4, <1>7, <1>9, <1>10 DEF R

\* What a step holds is no older than what is settled.
LEMMA HoldsKeep ==
  ASSUME Reads!ReadsKept, NEW k \in Keys, NEW v, Reads!Holds(k, v),
         UNCHANGED <<origin, idleFloor>>
  PROVE  /\ Snapshots' \in [Keys -> Nat]
         /\ \A x \in Keys : Snapshots'[x] # 0 => Snapshots'[x] \in idleFloor[x] .. origin[x]
<1>1. v \in Nat BY DEF Reads!Holds, Reads!ReadsKept
<1> QED BY <1>1 DEF Reads!Holds, Reads!ReadsKept

\* Every step of CacheReads keeps it.
LEMMA ReadsKeptNext == Reads!ReadsKept /\ [Reads!ReadsNext]_Reads!readVars => Reads!ReadsKept'
<1> SUFFICES ASSUME Reads!ReadsKept, [Reads!ReadsNext]_Reads!readVars PROVE Reads!ReadsKept'
  OBVIOUS
<1> DEFINE Rec == {Reads!NoCall} \cup
             [at : {"waiting", "answered", "failed"}, key : Keys, least : Nat, val : Nat]
<1>0. /\ origin \in [Keys -> Nat] /\ idleFloor \in [Keys -> Nat] /\ Snapshots \in [Keys -> Nat]
      /\ Calls \in [Callers -> Rec] /\ \A c \in Callers : CallKeeps(c)
  BY DEF Reads!ReadsKept, CallKeeps
<1>a. ASSUME Calls' \in [Callers -> Rec], \A c \in Callers : CallKeeps(c)',
             UNCHANGED <<origin, idleFloor>>, Snapshots' \in [Keys -> Nat],
             \A x \in Keys : Snapshots'[x] # 0 => Snapshots'[x] \in idleFloor[x] .. origin[x]
      PROVE  Reads!ReadsKept'
  BY <1>a DEF Reads!ReadsKept, CallKeeps, Reads!KeyOf
<1>b. ASSUME NEW c \in Callers, Calls[c] # Reads!NoCall PROVE Reads!KeyOf(c) \in Keys
  <2>1. Calls[c] \in [at : {"waiting", "answered", "failed"}, key : Keys, least : Nat, val : Nat]
    BY <1>0, <1>b
  <2> QED BY <2>1 DEF Reads!KeyOf
<1>1. ASSUME NEW k \in Keys, Reads!Commit(k) PROVE Reads!ReadsKept'
  <2>1. /\ origin' \in [Keys -> Nat] /\ \A x \in Keys : origin'[x] >= origin[x]
        /\ UNCHANGED <<idleFloor, Snapshots, Calls>>
    BY <1>0, <1>1 DEF Reads!Commit
  <2>2. ASSUME NEW c \in Callers PROVE CallKeeps(c)'
    <3>1. CASE Calls[c] = Reads!NoCall BY <2>1, <3>1 DEF CallKeeps
    <3>2. CASE Calls[c] # Reads!NoCall
      <4>1. Reads!KeyOf(c) \in Keys /\ Calls[c].val \in Nat BY <1>0, <1>b, <3>2
      <4> QED BY <1>0, <2>1, <4>1 DEF CallKeeps, Reads!KeyOf
    <3> QED BY <3>1, <3>2
  <2>3. \A x \in Keys : /\ 1 <= origin'[x] /\ idleFloor[x] <= origin'[x]
                        /\ Snapshots[x] # 0 => Snapshots[x] \in idleFloor[x] .. origin'[x]
    BY <1>0, <2>1 DEF Reads!ReadsKept
  <2> QED BY <1>0, <2>1, <2>2, <2>3 DEF Reads!ReadsKept, CallKeeps, Reads!KeyOf
<1>2. CASE Reads!Settle
  <2>1. /\ idleFloor' \in [Keys -> Nat] /\ Snapshots' \in [Keys -> Nat] /\ UNCHANGED <<origin, Calls>>
        /\ \A x \in Keys : \/ idleFloor'[x] = idleFloor[x] /\ Snapshots'[x] \in {0, Snapshots[x]}
                           \/ idleFloor'[x] = origin[x] /\ Snapshots'[x] = 0
    BY <1>2 DEF Reads!Settle
  <2>2. \A x \in Keys : idleFloor[x] <= idleFloor'[x] /\ idleFloor'[x] <= origin[x]
    BY <1>0, <2>1 DEF Reads!ReadsKept
  <2>3. \A x \in Keys : Snapshots'[x] # 0 => Snapshots'[x] \in idleFloor'[x] .. origin[x]
    BY <1>0, <2>1 DEF Reads!ReadsKept
  <2>4. ASSUME NEW c \in Callers PROVE CallKeeps(c)'
    <3>1. CASE Calls[c] = Reads!NoCall BY <2>1, <3>1 DEF CallKeeps
    <3>2. CASE Calls[c] # Reads!NoCall
      <4>1. Reads!KeyOf(c) \in Keys /\ Calls[c].least \in Nat BY <1>0, <1>b, <3>2
      <4> QED BY <1>0, <2>1, <2>2, <4>1 DEF CallKeeps, Reads!KeyOf
    <3> QED BY <3>1, <3>2
  <2> QED BY <1>0, <2>1, <2>2, <2>3, <2>4 DEF Reads!ReadsKept, CallKeeps, Reads!KeyOf
<1>3. ASSUME NEW c \in Callers, NEW k \in Keys, Reads!Ask(c, k) PROVE Reads!ReadsKept'
  <2>1. PICK at \in {"waiting", "answered"} :
          /\ at = "answered" => Snapshots[k] # 0
          /\ Calls' = [Calls EXCEPT ![c] = Reads!Call(at, k, idleFloor[k], Snapshots[k])]
    BY <1>3 DEF Reads!Ask
  <2>2. UNCHANGED <<origin, idleFloor, Snapshots>> BY <1>3 DEF Reads!Ask
  <2> DEFINE new == Reads!Call(at, k, idleFloor[k], Snapshots[k])
  <2>3. new \in Rec /\ new.at = at /\ new.key = k /\ new.least = idleFloor[k] /\ new.val = Snapshots[k]
    BY <1>0 DEF Reads!Call
  <2> HIDE DEF new, Rec
  <2>4. /\ Calls' \in [Callers -> Rec] /\ Calls'[c] = new
        /\ \A u \in Callers \ {c} : Calls'[u] = Calls[u]
    BY <1>0, <2>1, <2>3 DEF new
  <2>5. CallKeeps(c)'
    <3>1. Reads!KeyOf(c)' = k BY <2>3, <2>4 DEF Reads!KeyOf
    <3>2. Snapshots[k] <= origin[k] /\ (Snapshots[k] # 0 => Snapshots[k] >= idleFloor[k])
      BY <1>0 DEF Reads!ReadsKept
    <3>3. idleFloor[k] <= idleFloor[k] BY <1>0
    <3> QED BY <2>1, <2>2, <2>3, <2>4, <3>1, <3>2, <3>3 DEF CallKeeps
  <2>6. \A u \in Callers \ {c} : CallKeeps(u)'
    BY <1>0, <2>2, <2>4 DEF CallKeeps, Reads!KeyOf
  <2>7. \A x \in Keys : Snapshots'[x] # 0 => Snapshots'[x] \in idleFloor[x] .. origin[x]
    BY <2>2 DEF Reads!ReadsKept
  <2> QED BY <1>0, <1>a, <2>2, <2>4, <2>5, <2>6, <2>7
<1>4. ASSUME NEW c \in Callers, Reads!Find(c) PROVE Reads!ReadsKept'
  <2>1. PICK v \in {Snapshots[Reads!KeyOf(c)], origin[Reads!KeyOf(c)]} \ {0}, at \in {"waiting", "answered"} :
          Reads!Becomes(c, at, v)
    BY <1>4 DEF Reads!Find
  <2>2. Reads!Waits(c) /\ UNCHANGED <<origin, idleFloor, Snapshots>> BY <1>4 DEF Reads!Find
  <2>3. Reads!KeyOf(c) \in Keys BY <1>b, <2>2 DEF Reads!Waits, Reads!NoCall
  <2>4. v \in Nat /\ v # 0 /\ v <= origin[Reads!KeyOf(c)] /\ v >= idleFloor[Reads!KeyOf(c)]
    BY <1>0, <2>1, <2>3 DEF Reads!ReadsKept
  <2>5. Calls' \in [Callers -> Rec] /\ \A u \in Callers : CallKeeps(u)'
    BY <2>1, <2>2, <2>4, BecomesKeeps
  <2>6. \A x \in Keys : Snapshots'[x] # 0 => Snapshots'[x] \in idleFloor[x] .. origin[x]
    BY <2>2 DEF Reads!ReadsKept
  <2> QED BY <1>0, <1>a, <2>2, <2>5, <2>6
<1>5. ASSUME NEW c \in Callers, Reads!Reply(c) PROVE Reads!ReadsKept'
  <2>1. /\ Reads!Waits(c) /\ Calls[c].val # 0 /\ Reads!Becomes(c, "answered", Calls[c].val)
        /\ UNCHANGED <<origin, idleFloor>>
    BY <1>5 DEF Reads!Reply
  <2>2. Calls[c] # Reads!NoCall BY <2>1 DEF Reads!Waits, Reads!NoCall
  <2>3. Reads!KeyOf(c) \in Keys /\ Calls[c].val \in Nat BY <1>0, <1>b, <2>2
  <2>4. Calls[c].val <= origin[Reads!KeyOf(c)] BY <2>2 DEF Reads!ReadsKept
  <2>5. Calls' \in [Callers -> Rec] /\ \A u \in Callers : CallKeeps(u)'
    BY <2>1, <2>3, <2>4, BecomesKeeps
  <2>6. /\ Snapshots' \in [Keys -> Nat]
        /\ \A x \in Keys : Snapshots'[x] # 0 => Snapshots'[x] \in idleFloor[x] .. origin[x]
    <3>1. CASE UNCHANGED Snapshots BY <1>0, <3>1 DEF Reads!ReadsKept
    <3>2. ASSUME Reads!Holds(Reads!KeyOf(c), Calls[c].val)
          PROVE  /\ Snapshots' \in [Keys -> Nat]
                 /\ \A x \in Keys : Snapshots'[x] # 0 => Snapshots'[x] \in idleFloor[x] .. origin[x]
      BY <2>1, <2>3, <3>2, HoldsKeep
    <3> QED BY <1>5, <3>1, <3>2 DEF Reads!Reply
  <2> QED BY <1>a, <2>1, <2>5, <2>6
<1>6. ASSUME NEW c \in Callers, Reads!Fail(c) PROVE Reads!ReadsKept'
  <2>1. Reads!Waits(c) /\ Reads!Becomes(c, "failed", 0) /\ UNCHANGED <<origin, idleFloor, Snapshots>>
    BY <1>6 DEF Reads!Fail
  <2>2. Reads!KeyOf(c) \in Keys BY <1>b, <2>1 DEF Reads!Waits, Reads!NoCall
  <2>3. 0 <= origin[Reads!KeyOf(c)] BY <1>0, <2>2
  <2>4. Calls' \in [Callers -> Rec] /\ \A u \in Callers : CallKeeps(u)'
    BY <2>1, <2>3, BecomesKeeps
  <2>5. \A x \in Keys : Snapshots'[x] # 0 => Snapshots'[x] \in idleFloor[x] .. origin[x]
    BY <2>1 DEF Reads!ReadsKept
  <2> QED BY <1>0, <1>a, <2>1, <2>4, <2>5
<1>7. ASSUME NEW k \in Keys, Reads!Renew(k) PROVE Reads!ReadsKept'
  <2>1. PICK v : Reads!Holds(k, v) BY <1>7 DEF Reads!Renew
  <2>2. UNCHANGED <<origin, idleFloor, Calls>> BY <1>7 DEF Reads!Renew
  <2>3. \A u \in Callers : CallKeeps(u)' BY <1>0, <2>2 DEF CallKeeps, Reads!KeyOf
  <2> QED BY <1>0, <1>a, <2>1, <2>2, <2>3, HoldsKeep
<1>8. CASE UNCHANGED Reads!readVars
  BY <1>8 DEF Reads!readVars, Reads!ReadsKept, Reads!KeyOf
<1> QED BY <1>1, <1>2, <1>3, <1>4, <1>5, <1>6, <1>7, <1>8 DEF Reads!ReadsNext

\* A request is answered with a version its key has had by then, and none from before a
\* change that was settled when it came: it follows from what CacheReads promises.
THEOREM CurrentAnswers == Spec => []Reads!AnswersAreCurrent
<1>1. Reads!ReadsInit => Reads!ReadsKept
  <2> SUFFICES ASSUME Reads!ReadsInit PROVE Reads!ReadsKept
    OBVIOUS
  <2>1. Calls = [c \in Callers |-> Reads!NoCall] BY DEF Reads!ReadsInit
  <2> QED BY <2>1 DEF Reads!ReadsInit, Reads!ReadsKept
<1>2. Reads!ReadsKept => Reads!AnswersAreCurrent
  <2> SUFFICES ASSUME Reads!ReadsKept, NEW c \in Callers, Calls[c].at = "answered"
               PROVE  /\ Calls[c].val \in 1 .. origin[Reads!KeyOf(c)]
                      /\ Calls[c].val >= Calls[c].least
    BY DEF Reads!AnswersAreCurrent
  <2>1. Calls[c] # Reads!NoCall BY DEF Reads!NoCall
  <2>2. Calls[c] \in [at : {"waiting", "answered", "failed"}, key : Keys, least : Nat, val : Nat]
    BY <2>1 DEF Reads!ReadsKept
  <2>3. origin[Reads!KeyOf(c)] \in Nat BY <2>2 DEF Reads!ReadsKept, Reads!KeyOf
  <2> QED BY <2>1, <2>2, <2>3 DEF Reads!ReadsKept
<1> QED BY <1>1, <1>2, ReadsKeptNext, ReadsImplementation, PTL DEF ImplementsReads, Reads!ReadsSpec

----------------------------------------------------------------------------
(* Progress                                                                *)

\* How far a thread is from leaving get_or_refresh, or the background refresh; 0 outside.
Ahead(t) ==
  CASE At(t, "check")                    -> 9
    [] At(t, "trigger")                  -> 8
    [] At(t, "begin")                    -> 7
    [] At(t, "slot")                     -> 6
    [] At(t, "wait")                     -> 5
    [] At(t, "fetch")                    -> 4
    [] At(t, "got") \/ At(t, "failed")   -> 3
    [] At(t, "fallback")                 -> 2
    [] At(t, "release")                  -> 1
    [] OTHER                             -> 0

\* Weak fairness of Step(t), its enabling condition spelled out: a thread inside can always
\* take its step (reads and waits have timeouts), and one that stays inside takes it.
KeepsRunning(t) == []<>(Ahead(t) = 0) \/ []<><<Step(t)>>_vars

\* A thread's own step brings it forward,
LEMMA OwnStep ==
  ASSUME Types, Slots, NEW t \in Producers, Step(t)
  PROVE  Ahead(t) # 0 /\ Ahead(t)' < Ahead(t)
<1>0. thread \in [Producers -> Threads] BY DEF Types, Threads
<1>1. thread[t] \in Thread /\ Key(t) \in Keys
  BY BusyThread DEF Step, CheckStale, Trigger, Begin, Slot, WaitEnds, FetchReads, FetchRaises, Put,
                    MarkStale, Fallback, Release, At
<1>2. \A val, pc : Done(t, pc, val).pc = pc
  BY <1>1 DEF Done, Thread
<1>3. \A val, pc : Finish(t, pc, val).pc \in {"release", pc}
  BY <1>1, <1>2 DEF Finish, Thread
<1>4. CASE CheckStale(t)
  <2>1. thread'[t].pc \in {"trigger", "begin"} BY <1>0, <1>1, <1>4 DEF CheckStale, GoTo, Thread
  <2> QED BY <1>4, <2>1 DEF CheckStale, Ahead, At
<1>5. CASE Trigger(t)
  <2> DEFINE k == Key(t)
             done == Done(t, "served", thread[t].val)
             new == [pc |-> "fetch", key |-> k, ticket |-> tickets[k] + 1, owns |-> TRUE,
                     val |-> 0, seq |-> started[k] + 1, old |-> FALSE, floor |-> 0, idleFloor |-> 0]
  <2>1. \/ thread' = [thread EXCEPT ![t] = done]
        \/ thread' = [thread EXCEPT ![t] = done, ![k] = new]
    BY <1>5 DEF Trigger
  <2>2. done.pc = "served" /\ new.pc = "fetch" BY <1>2
  <2> HIDE DEF done, new
  <2>3. thread'[t].pc \in {"served", "fetch"} BY <1>0, <2>1, <2>2
  <2> QED BY <1>5, <2>3 DEF Trigger, Ahead, At
<1>6. CASE Begin(t)
  <2>1. thread'[t].pc = "slot" BY <1>0, <1>1, <1>6 DEF Begin, Thread
  <2> QED BY <1>6, <2>1 DEF Begin, Ahead, At
<1>7. CASE Slot(t)
  <2>1. thread'[t].pc \in {"fetch", "wait"} BY <1>0, <1>1, <1>7 DEF Slot, GoTo, Thread
  <2> QED BY <1>7, <2>1 DEF Slot, Ahead, At
<1>8. CASE WaitEnds(t)
  <2>1. thread'[t].pc \in {"fetch", "served"} BY <1>0, <1>1, <1>2, <1>8 DEF WaitEnds, Thread
  <2> QED BY <1>8, <2>1 DEF WaitEnds, Ahead, At
<1>9. CASE FetchReads(t) \/ FetchRaises(t)
  <2>1. thread'[t].pc \in {"got", "failed"}
    BY <1>0, <1>1, <1>9 DEF FetchReads, FetchRaises, GoTo, Thread
  <2> QED BY <1>9, <2>1 DEF FetchReads, FetchRaises, Ahead, At
<1>10. CASE Put(t)
  <2> DEFINE done == Finish(t, "served", thread[t].val)
  <2>1. done.pc \in {"served", "release"} BY <1>3
  <2>2. thread'[t].pc = done.pc
    <3>1. CASE Overtaken(t) BY <1>0, <1>10, <3>1 DEF Put
    <3>2. CASE ~ Overtaken(t)
      <4>1. PICK out : thread' = Outdated([thread EXCEPT ![t] = done], out)
        BY <1>10, <3>2, PutStores
      <4>2. thread[t].val \in Nat BY <1>1 DEF Thread
      <4>3. done \in Thread BY <1>1, <4>2, FinishType
      <4> HIDE DEF done
      <4> DEFINE th == [thread EXCEPT ![t] = done]
      <4>4. th \in [Producers -> Threads] /\ th[t] = done BY <1>0, <4>3 DEF Threads
      <4>5. th[t] # Idle BY <4>3, <4>4 DEF Thread, Idle
      <4> HIDE DEF th
      <4> QED BY <4>1, <4>4, <4>5, OutdatedSameSlot DEF th
    <3> QED BY <3>1, <3>2
  <2> QED BY <1>10, <2>1, <2>2 DEF Put, Ahead, At
<1>11. CASE MarkStale(t)
  <2>1. thread'[t].pc \in {"release", "fallback"} BY <1>0, <1>1, <1>11 DEF MarkStale, GoTo, Thread
  <2> QED BY <1>11, <2>1 DEF MarkStale, Ahead, At
<1>12. CASE Fallback(t)
  <2>1. thread'[t].pc \in {"release", "served", "raised"}
    BY <1>0, <1>3, <1>12 DEF Fallback
  <2> QED BY <1>12, <2>1 DEF Fallback, Ahead, At
<1>13. CASE Release(t)
  <2>1. thread'[t].pc \in {"idle", "served", "raised"}
    BY <1>0, <1>2, <1>13 DEF Release, Idle
  <2> QED BY <1>13, <2>1 DEF Release, Ahead, At
<1> QED BY <1>4, <1>5, <1>6, <1>7, <1>8, <1>9, <1>10, <1>11, <1>12, <1>13 DEF Step

\* ... and no step of another takes it back.
LEMMA OthersStep ==
  ASSUME ConstantsAssumption, Types, Slots, NEW t \in Producers, Ahead(t) # 0,
         [Next]_vars, ~ Step(t)
  PROVE  Ahead(t)' = Ahead(t)
<1>0. thread \in [Producers -> Threads] BY DEF Types, Threads
<1>1. thread[t].pc \notin {"idle", "served", "raised"} BY DEF Ahead, At
<1>2. thread[t] \in Thread /\ thread[t] # Idle BY <1>1, BusyThread DEF Idle
<1>a. ASSUME thread'[t].pc = thread[t].pc PROVE Ahead(t)' = Ahead(t)
  BY <1>a DEF Ahead, At
<1>b. ASSUME NEW K, NEW th \in [Producers -> Threads], thread' = Outdated(th, K), th[t] = thread[t]
      PROVE  thread'[t].pc = thread[t].pc
  BY <1>2, <1>b, OutdatedSameSlot
<1>3. ASSUME NEW u \in Callers, NEW k \in Keys, Lookup(u, k) PROVE thread'[t].pc = thread[t].pc
  <2>1. u # t BY <1>1, <1>3 DEF Lookup
  <2> QED BY <1>0, <1>3, <2>1 DEF Lookup
<1>4. ASSUME NEW u \in Producers \ {t}, Step(u) PROVE thread'[t].pc = thread[t].pc
  <2>1. thread[u] \in Thread /\ Key(u) \in Keys
    BY <1>4, BusyThread DEF Step, CheckStale, Trigger, Begin, Slot, WaitEnds, FetchReads, FetchRaises, Put,
                      MarkStale, Fallback, Release, At
  <2>2. CASE Trigger(u)
    <3> DEFINE k == Key(u)
               done == Done(u, "served", thread[u].val)
               new == [pc |-> "fetch", key |-> k, ticket |-> tickets[k] + 1, owns |-> TRUE,
                       val |-> 0, seq |-> started[k] + 1, old |-> FALSE, floor |-> 0, idleFloor |-> 0]
    <3>1. \/ thread' = [thread EXCEPT ![u] = done]
          \/ ~ Live(k) /\ thread' = [thread EXCEPT ![u] = done, ![k] = new]
      BY <2>2 DEF Trigger
    <3>2. ~ Live(k) => k # t
      <4> SUFFICES ASSUME k = t PROVE Live(k)
        OBVIOUS
      <4>1. thread[t].owns /\ Key(t) = t /\ locks[t] = t
        BY <1>2, <2>1 DEF Slots, ThreadSlots
      <4> QED BY <2>1, <4>1 DEF Live, ConstantsAssumption
    <3> HIDE DEF done, new, k
    <3> QED BY <1>0, <3>1, <3>2
  <2>3. CASE Put(u)
    <3>1. CASE Overtaken(u) BY <1>0, <1>4, <2>3, <3>1 DEF Put
    <3>2. CASE ~ Overtaken(u)
      <4> DEFINE done == Finish(u, "served", thread[u].val)
      <4>1. PICK out : thread' = Outdated([thread EXCEPT ![u] = done], out)
        BY <2>3, <3>2, PutStores
      <4>2. thread[u].val \in Nat BY <2>1 DEF Thread
      <4>3. done \in Thread BY <2>1, <4>2, FinishType
      <4> HIDE DEF done
      <4> DEFINE th == [thread EXCEPT ![u] = done]
      <4>4. th \in [Producers -> Threads] /\ th[t] = thread[t] BY <1>0, <1>4, <4>3 DEF Threads
      <4> HIDE DEF th
      <4> QED BY <1>b, <4>1, <4>4 DEF th
    <3> QED BY <3>1, <3>2
  <2>4. CASE ~ Trigger(u) /\ ~ Put(u)
    BY <1>0, <1>4, <2>4 DEF Step, CheckStale, Begin, Slot, WaitEnds, FetchReads, FetchRaises, MarkStale,
                            Fallback, Release, GoTo
  <2> QED BY <2>2, <2>3, <2>4
<1>5. ASSUME NEW k \in Keys, Write(k) \/ Age(k) PROVE thread'[t].pc = thread[t].pc
  BY <1>5 DEF Write, Age
<1>6. ASSUME Invalidate PROVE thread'[t].pc = thread[t].pc
  <2>1. PICK out : thread' = Outdated(thread, out) BY <1>6 DEF Invalidate
  <2> QED BY <1>0, <1>b, <2>1
<1>7. ASSUME UNCHANGED vars PROVE thread'[t].pc = thread[t].pc
  BY <1>7 DEF vars
<1> QED BY <1>a, <1>3, <1>4, <1>5, <1>6, <1>7 DEF Next

\* A thread that keeps running leaves: every call of get_or_refresh is answered or raises,
\* and every background refresh ends, whatever else is stored, evicted or invalidated
\* meanwhile and whoever else holds the slot of its key.  And a slot it owns comes
\* back: the key is free again, not handed on to another producer (SlotIsReleased, owner
\* by owner).
THEOREM CallsReturn ==
  ASSUME NEW t \in Producers, NEW k \in Keys
  PROVE  Spec /\ KeepsRunning(t) => /\ Ahead(t) # 0 ~> Ahead(t) = 0
                                    /\ locks[k] = t ~> ~ Live(k)
<1>1. Ahead(t) \in 0 .. 9 /\ Ahead(t)' \in 0 .. 9 BY DEF Ahead
<1>2. /\ Ahead(t) <= 9
      /\ Ahead(t) <= 0 <=> Ahead(t) = 0
      /\ Ahead(t) # 0 <=> ~ (Ahead(t) = 0)
  BY <1>1
<1>3. ASSUME IInv, Ahead(t) # 0, [Next]_vars
      PROVE  \A n \in 0 .. 9 : Ahead(t) <= n => Ahead(t)' <= n
  <2>1. Ahead(t)' <= Ahead(t)
    BY <1>1, <1>3, OwnStep, OthersStep, ConstantsAssumption DEF IInv
  <2> QED BY <1>1, <2>1
<1>4. ASSUME IInv, <<Step(t)>>_vars
      PROVE  \A n \in 1 .. 9 : Ahead(t) <= n => Ahead(t)' <= n - 1
  <2>1. Ahead(t)' < Ahead(t) BY <1>4, OwnStep DEF IInv
  <2> QED BY <1>1, <2>1
<1>5. IInv /\ Ahead(t) # 0 /\ [Next]_vars =>
        /\ Ahead(t) <= 8 => (Ahead(t) <= 8)'
        /\ Ahead(t) <= 7 => (Ahead(t) <= 7)'
        /\ Ahead(t) <= 6 => (Ahead(t) <= 6)'
        /\ Ahead(t) <= 5 => (Ahead(t) <= 5)'
        /\ Ahead(t) <= 4 => (Ahead(t) <= 4)'
        /\ Ahead(t) <= 3 => (Ahead(t) <= 3)'
        /\ Ahead(t) <= 2 => (Ahead(t) <= 2)'
        /\ Ahead(t) <= 1 => (Ahead(t) <= 1)'
  BY <1>3
<1>6. IInv /\ <<Step(t)>>_vars =>
        /\ Ahead(t) <= 9 => (Ahead(t) <= 8)'
        /\ Ahead(t) <= 8 => (Ahead(t) <= 7)'
        /\ Ahead(t) <= 7 => (Ahead(t) <= 6)'
        /\ Ahead(t) <= 6 => (Ahead(t) <= 5)'
        /\ Ahead(t) <= 5 => (Ahead(t) <= 4)'
        /\ Ahead(t) <= 4 => (Ahead(t) <= 3)'
        /\ Ahead(t) <= 3 => (Ahead(t) <= 2)'
        /\ Ahead(t) <= 2 => (Ahead(t) <= 1)'
        /\ Ahead(t) <= 1 => (Ahead(t) <= 0)'
  BY <1>4
<1>7. Spec /\ KeepsRunning(t) => (Ahead(t) # 0 ~> Ahead(t) = 0)
  BY <1>2, <1>5, <1>6, Invariance, PTL DEF Spec, KeepsRunning
<1>8. IInv /\ locks[k] = t => Ahead(t) # 0
  <2> SUFFICES ASSUME IInv, locks[k] = t PROVE Ahead(t) # 0
    OBVIOUS
  <2>1. thread[t] # Idle /\ Key(t) = k
    BY ConstantsAssumption DEF IInv, Slots, Held, Live, Producers
  <2>2. thread[t] \in Thread /\ thread[t].owns BY <2>1 DEF IInv, Slots, ThreadSlots, Types
  <2>3. thread[t].pc \notin {"check", "trigger", "begin", "slot", "wait", "served", "raised"}
    BY <2>1, <2>2 DEF IInv, Slots, ThreadSlots
  <2>4. thread[t].pc \in {"fetch", "got", "failed", "fallback", "release"}
    BY <2>2, <2>3 DEF Thread
  <2> QED BY <2>4 DEF Ahead, At
<1>9. IInv /\ locks[k] = t /\ [Next]_vars => (locks[k] = t)' \/ (~ Live(k))'
  <2> SUFFICES ASSUME IInv, locks[k] = t, [Next]_vars PROVE locks'[k] = t \/ locks'[k] = NoOne
    BY DEF Live
  <2>0. locks \in [Keys -> Producers \cup {NoOne}] BY DEF IInv, Types
  <2>1. Live(k) BY ConstantsAssumption DEF Live, Producers
  <2>2. ASSUME NEW u \in Callers, NEW x \in Keys, Lookup(u, x) PROVE locks' = locks
    BY <2>2 DEF Lookup
  <2>3. ASSUME NEW u \in Producers, Step(u) PROVE locks'[k] = t \/ locks'[k] = NoOne
    <3>1. CASE Trigger(u) BY <2>0, <2>1, <3>1 DEF Trigger, Live
    <3>2. CASE Slot(u) BY <2>0, <2>1, <3>2 DEF Slot, Live, GoTo
    <3>3. CASE Release(u) BY <2>0, <3>3 DEF Release
    <3>4. CASE ~ Trigger(u) /\ ~ Slot(u) /\ ~ Release(u)
      BY <2>3, <3>4 DEF Step, CheckStale, Begin, WaitEnds, FetchReads, FetchRaises, Put, MarkStale,
                        Fallback
    <3> QED BY <3>1, <3>2, <3>3, <3>4
  <2>4. ASSUME NEW x \in Keys, Write(x) \/ Age(x) PROVE locks' = locks
    BY <2>4 DEF Write, Age
  <2>5. ASSUME Invalidate PROVE locks' = locks BY <2>5 DEF Invalidate
  <2>6. ASSUME UNCHANGED vars PROVE locks' = locks BY <2>6 DEF vars
  <2> QED BY <2>2, <2>3, <2>4, <2>5, <2>6 DEF Next
<1> QED BY <1>2, <1>7, <1>8, <1>9, Invariance, PTL DEF Spec

=============================================================================
