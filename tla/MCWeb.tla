------------------------------- MODULE MCWeb -------------------------------
(***************************************************************************)
(* The parts of the serving process whose progress is checked, for TLC,    *)
(* one at a time: a behaviour is one of Pool, of Universe, of LayerCache   *)
(* or of SyncRuns, chosen at the start.  Three callers, a pool of two that *)
(* keeps one and two outages; two managed codes, one upstream, two threads,*)
(* two changes and a failed read; one key, two callers of the cache, two   *)
(* requests and a write; one stage process of a keyed and an unkeyed       *)
(* stage, and two runs that no administrator cancels.                      *)
(***************************************************************************)
EXTENDS Pool, Universe

CONSTANT Parts   \* the parts a run is about
VARIABLES
  part,
  entries, lru, slot, tickets, applied, thread, origin, unseen, floor, idleFloor, started, requests,
  sync_runs, stageLocks, lost, proc, service, adm

Cache == INSTANCE LayerCache WITH
           Keys <- {3}, Callers <- {1, 2}, NoOne <- 0,
           MaxEntries <- 1, MaxRequests <- 2, MaxWrites <- 1, locks <- slot
Sync  == INSTANCE SyncRuns WITH
           Stages <- {"futu", "prediction"}, Procs <- {1}, Admins <- {}, NoProc <- 0,
           MaxRows <- 2, MaxAge <- 3, RecoverAfter <- 2, Budget <- [s \in {"futu", "prediction"} |-> 1],
           locks <- stageLocks, up <- service

cacheVars == <<entries, lru, slot, tickets, applied, thread, origin, unseen, floor, idleFloor,
               started, requests>>
syncVars  == <<sync_runs, stageLocks, lost, proc, service, adm>>
webVars   == <<part, poolVars, universeVars, cacheVars, syncVars>>

WebInit == part \in Parts /\ PoolInit /\ UniverseInit /\ Cache!Init /\ Sync!Init

InPool(action) ==
  part = "pool" /\ action /\ UNCHANGED <<part, universeVars, cacheVars, syncVars>>
InUniverse(action) ==
  part = "universe" /\ action /\ UNCHANGED <<part, poolVars, cacheVars, syncVars>>
InCache(action) ==
  part = "cache" /\ action /\ UNCHANGED <<part, poolVars, universeVars, syncVars>>
InSync(action) ==
  part = "sync" /\ action /\ UNCHANGED <<part, poolVars, universeVars, cacheVars>>

WebNext ==
  InPool(PoolNext) \/ InUniverse(UniverseNext) \/ InCache(Cache!Next) \/ InSync(Sync!Next)

WebSpec == WebInit /\ [][WebNext]_webVars

\* The fairness of each part's own specification: as a behaviour is of one part, one
\* condition may speak of a step of each.
FairWebSpec ==
  /\ WebSpec
  /\ WF_webVars(InPool(Proceed(1)) \/ InUniverse(\E w \in Loaders : ReloadSteps(w))
                \/ InCache(Cache!Step(1)) \/ InSync(Sync!Reap))
  /\ WF_webVars(InPool(Proceed(2)) \/ InUniverse(UniverseExpires)
                \/ InCache(Cache!Step(2)) \/ InSync(Sync!AppStart))
  /\ WF_webVars(InPool(Proceed(3)) \/ InUniverse(AdminSteps)
                \/ InCache(Cache!Step(3)) \/ InSync(Sync!Tick))
  /\ WF_webVars(InSync(Sync!TimeoutKill(1)))

\* The type invariants of Pool and of Universe.
WebTypeOK == PoolTypeOK /\ UniverseTypeOK

\* Universe's liveness is about the behaviours of Universe.
UniverseOfWebConverges == part = "universe" => UniverseConverges
\* LayerCache: the slot of a key that is being produced is released.
SlotIsReleased == Cache!SlotIsReleased
\* SyncRuns: a run whose process is gone does not stay running.
StrandedRunIsRecovered == Sync!StrandedRunIsRecovered
=============================================================================
