------------------------------ MODULE Universe ------------------------------
(***************************************************************************)
(* The symbols of the default calendar (app/universe.py) and the source    *)
(* behind them (app/watchlist/): an upstream list united with the table    *)
(* the administrators manage.  A reload runs on a thread of its own while  *)
(* an administrator changes the table and drops what is cached.            *)
(***************************************************************************)
EXTENDS Integers, FiniteSets

CONSTANTS
  LocalCodes,      \* codes administrators manage
  UpstreamCodes,   \* codes the external list may hold
  FallbackCodes,   \* FALLBACK_US, FALLBACK_HK
  Loaders,         \* threads that reload
  NoLoader,        \* no reload is in flight
  MaxChanges,      \* bound: changes of either list
  MaxFailedReads   \* bound: reads that fail

ASSUME UniverseAssumption ==
  /\ LocalCodes \cap UpstreamCodes = {} /\ FallbackCodes \cap (LocalCodes \cup UpstreamCodes) = {}
  /\ FallbackCodes # {} /\ NoLoader \notin Loaders
  /\ MaxChanges \in Nat /\ MaxFailedReads \in Nat

VARIABLES
  managed,      \* the table managed_watchlist
  upstream,     \* the external list
  source,       \* what the source object last read of each list, {} when it never did
  reload,       \* for each thread where it is and what it has read so far
  refresh,      \* the reload other callers join
  universe,     \* the snapshot every caller is given
  fresh,        \* it has not expired
  admin,        \* how far a change of the table has come
  quiet,        \* no reload had read the table when its last change was announced
  changes, failedReads

universeVars == <<managed, upstream, source, reload, refresh, universe, fresh, admin, quiet,
                  changes, failedReads>>

NoSource == [upstream |-> {}, local |-> {}]
NoReload == [at |-> "off", of |-> NoSource, current |-> FALSE, got |-> {}, failed |-> FALSE, sure |-> TRUE]

UniverseInit ==
  /\ managed = {} /\ upstream = UpstreamCodes
  /\ source = NoSource
  /\ reload = [w \in Loaders |-> NoReload] /\ refresh = NoLoader
  /\ universe = [codes |-> FallbackCodes, error |-> TRUE, read |-> FALSE, sure |-> FALSE]
  /\ fresh = FALSE /\ admin = "idle" /\ quiet = TRUE
  /\ changes = 0 /\ failedReads = 0

----------------------------------------------------------------------------
(* Reading                                                                 *)

\* A caller that finds the snapshot expired starts a reload, or joins the one in flight.
GetUniverse(w) ==
  /\ ~ fresh /\ refresh = NoLoader /\ reload[w].at = "off"
  /\ refresh' = w /\ reload' = [reload EXCEPT ![w] = [NoReload EXCEPT !.at = "started"]]
  /\ UNCHANGED <<managed, upstream, source, universe, fresh, admin, quiet, changes, failedReads>>

\* The reload works on the source object of this moment.
TakeSource(w) ==
  /\ reload[w].at = "started"
  /\ reload' = [reload EXCEPT ![w].at = "upstream", ![w].of = source, ![w].current = TRUE]
  /\ UNCHANGED <<managed, upstream, source, refresh, universe, fresh, admin, quiet, changes, failedReads>>

\* What an object has read stays with that object, which may no longer be the one in use.
Remember(w, kept) ==
  source' = IF reload[w].current THEN kept ELSE source

\* Stale while error: a failed read of the external list uses what this object last read of it.
ReadUpstream(w) ==
  /\ reload[w].at = "upstream"
  /\ LET r == reload[w] IN
     \/ LET kept == [r.of EXCEPT !.upstream = upstream] IN
        /\ reload' = [reload EXCEPT ![w].at = "local", ![w].of = kept, ![w].got = upstream]
        /\ Remember(w, kept) /\ UNCHANGED failedReads
     \/ /\ failedReads < MaxFailedReads /\ failedReads' = failedReads + 1
        /\ reload' = [reload EXCEPT ![w].at = "local", ![w].got = r.of.upstream, ![w].failed = TRUE]
        /\ UNCHANGED source
  /\ UNCHANGED <<managed, upstream, refresh, universe, fresh, admin, quiet, changes>>

\* The status of the table's own read is not looked at: a failure only shows in what is missing.
ReadLocal(w) ==
  /\ reload[w].at = "local"
  /\ LET r == reload[w] IN
     \/ LET kept == [r.of EXCEPT !.local = managed] IN
        /\ reload' = [reload EXCEPT ![w].at = "publish", ![w].of = kept, ![w].got = @ \cup managed]
        /\ Remember(w, kept) /\ UNCHANGED failedReads
     \/ /\ failedReads < MaxFailedReads /\ failedReads' = failedReads + 1
        /\ reload' = [reload EXCEPT ![w].at = "publish", ![w].got = @ \cup r.of.local, ![w].sure = FALSE]
        /\ UNCHANGED source
  /\ UNCHANGED <<managed, upstream, refresh, universe, fresh, admin, quiet, changes>>

\* A read that yields nothing keeps what is known, or the fallback if nothing ever was.
Snapshot(r) ==
  IF r.got # {}
    THEN [codes |-> r.got, error |-> r.failed, read |-> TRUE, sure |-> r.sure]
    ELSE [codes |-> IF universe.read THEN universe.codes ELSE FallbackCodes,
          error |-> TRUE, read |-> universe.read, sure |-> FALSE]

Publish(w) ==
  /\ reload[w].at = "publish"
  /\ universe' = Snapshot(reload[w]) /\ fresh' = TRUE
  /\ reload' = [reload EXCEPT ![w].at = "ending"]
  /\ UNCHANGED <<managed, upstream, source, refresh, admin, quiet, changes, failedReads>>

EndReload(w) ==
  /\ reload[w].at = "ending"
  /\ reload' = [reload EXCEPT ![w] = NoReload]
  /\ refresh' = IF refresh = w THEN NoLoader ELSE refresh
  /\ UNCHANGED <<managed, upstream, source, universe, fresh, admin, quiet, changes, failedReads>>

\* The TTL of a healthy read, the retry delay of a failed one.
UniverseExpires ==
  /\ fresh /\ fresh' = FALSE
  /\ UNCHANGED <<managed, upstream, source, reload, refresh, universe, admin, quiet, changes, failedReads>>

----------------------------------------------------------------------------
(* Changing                                                                *)

UpstreamChanges ==
  /\ changes < MaxChanges /\ changes' = changes + 1
  /\ \E s \in (SUBSET UpstreamCodes) \ {upstream} : upstream' = s
  /\ UNCHANGED <<managed, source, reload, refresh, universe, fresh, admin, quiet, failedReads>>

\* An administrator adds, renames or removes a code ...
ManagedChanges ==
  /\ admin = "idle" /\ changes < MaxChanges /\ changes' = changes + 1
  /\ \E s \in (SUBSET LocalCodes) \ {managed} : managed' = s
  /\ admin' = "changed" /\ quiet' = FALSE
  /\ UNCHANGED <<upstream, source, reload, refresh, universe, fresh, failedReads>>

HasReadTable(w) == reload[w].at = "publish"

\* Mutant of InvalidateUniverse: the snapshot keeps its time to live.
InvalidateSourceOnly ==
  /\ admin = "changed" /\ admin' = "announced"
  /\ quiet' = \A w \in Loaders : ~ HasReadTable(w)
  /\ UNCHANGED <<managed, upstream, source, reload, refresh, universe, fresh, changes, failedReads>>

\* ... expires the snapshot ...
InvalidateUniverse ==
  /\ admin = "changed" /\ admin' = "announced"
  /\ fresh' = FALSE
  /\ quiet' = \A w \in Loaders : ~ HasReadTable(w)
  /\ UNCHANGED <<managed, upstream, source, reload, refresh, universe, changes, failedReads>>

\* ... and drops the source object, with all it remembers.
InvalidateSource ==
  /\ admin = "announced" /\ admin' = "idle"
  /\ source' = NoSource
  /\ reload' = [w \in Loaders |-> [reload[w] EXCEPT !.current = FALSE]]
  /\ UNCHANGED <<managed, upstream, refresh, universe, fresh, quiet, changes, failedReads>>

----------------------------------------------------------------------------
\* Mutant of ReloadSteps: a reload that fails leaves its flight behind.
ReloadStepsUntilError(w) ==
  GetUniverse(w) \/ TakeSource(w) \/ ReadUpstream(w) \/ ReadLocal(w) \/ Publish(w)
  \/ (~ reload[w].failed /\ EndReload(w))

ReloadSteps(w) ==
  GetUniverse(w) \/ TakeSource(w) \/ ReadUpstream(w) \/ ReadLocal(w) \/ Publish(w) \/ EndReload(w)

AdminSteps == InvalidateUniverse \/ InvalidateSource

UniverseNext ==
  \/ \E w \in Loaders : ReloadSteps(w)
  \/ UniverseExpires \/ UpstreamChanges \/ ManagedChanges \/ AdminSteps

UniverseSpec == UniverseInit /\ [][UniverseNext]_universeVars

\* Requests keep coming, reads are bounded by their timeouts and time passes.
FairUniverseSpec ==
  /\ UniverseSpec
  /\ WF_universeVars(\E w \in Loaders : ReloadSteps(w))
  /\ WF_universeVars(UniverseExpires) /\ WF_universeVars(AdminSteps)

----------------------------------------------------------------------------
(* Properties                                                              *)

Codes == LocalCodes \cup UpstreamCodes \cup FallbackCodes

\* Types; a thread reloads only as the one reload that others join: never two reads at a time.
UniverseTypeOK ==
  /\ managed \subseteq LocalCodes /\ upstream \subseteq UpstreamCodes
  /\ source \in [upstream : SUBSET UpstreamCodes, local : SUBSET LocalCodes]
  /\ universe \in [codes : SUBSET Codes, error : BOOLEAN, read : BOOLEAN, sure : BOOLEAN]
  /\ reload \in [Loaders -> [at : {"off", "started", "upstream", "local", "publish", "ending"},
                             of : [upstream : SUBSET UpstreamCodes, local : SUBSET LocalCodes],
                             current : BOOLEAN, got : SUBSET (LocalCodes \cup UpstreamCodes),
                             failed : BOOLEAN, sure : BOOLEAN]]
  /\ fresh \in BOOLEAN /\ quiet \in BOOLEAN /\ admin \in {"idle", "changed", "announced"}
  /\ changes \in 0 .. MaxChanges /\ failedReads \in 0 .. MaxFailedReads
  /\ \A w \in Loaders : refresh = w <=> reload[w].at # "off"

\* A change of the table that met no reload past its read of it shows in every snapshot that is
\* served without a new read, unless the read of the table failed.
QuietChangeIsVisible ==
  quiet /\ fresh /\ universe.sure => universe.codes \cap LocalCodes = managed

\* Once changes and failures are over, the universe becomes what the two lists hold, also after an
\* invalidation that a reload in flight undid: its snapshot expires too.
UniverseConverges ==
  <>[](managed \cup upstream # {} => universe.codes = managed \cup upstream)

=============================================================================
