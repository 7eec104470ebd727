------------------------------ MODULE SyncRuns ------------------------------
(***************************************************************************)
(* The audit table sync_runs and everyone who writes it: the stage         *)
(* processes of the pipeline, the web process (startup recovery, timeout   *)
(* reaper) and the admin endpoints (cancel, recover, retry).               *)
(*                                                                         *)
(* One action is one database transaction or one step of a process between *)
(* two of them.  READ COMMITTED statements of one transaction that other   *)
(* sessions can fall between are separate actions.                         *)
(***************************************************************************)
EXTENDS Naturals, FiniteSets

CONSTANTS
  Stages,        \* the stages this instance runs, a subset of AllStages
  Procs,         \* stage processes, started by the pipeline or by hand
  Admins,        \* concurrent admin requests served by the web process
  NoProc,        \* the holder of a free lock
  MaxRows,       \* bound: rows of sync_runs
  MaxAge,        \* bound: ages stop growing here
  Budget,        \* Budget[s]: stage_timeout(s), in clock ticks
  RecoverAfter   \* _DEFAULT_TIMEOUT_SECONDS, in clock ticks

AllStages == {"longbridge", "futu", "stock_names", "consensus", "prediction",
              "futu_eps_field_fix"}

\* The key a stage passes to advisory_lock; "none" for a stage that takes none.
LockOf(s) ==
  CASE s = "longbridge"                       -> "LOCK_LONGBRIDGE_EARNINGS"
    [] s \in {"futu", "futu_eps_field_fix"}   -> "LOCK_FUTU_EARNINGS"
    [] OTHER                                  -> "none"
LockKeys    == {"LOCK_LONGBRIDGE_EARNINGS", "LOCK_FUTU_EARNINGS"}
LockedStages == {s \in Stages : LockOf(s) # "none"}

\* Stages whose start_run call passes an idempotency key (one key per stage).
KeyedStages == Stages \ {"prediction"}
\* Stages whose loops call check_cancelled.
PollingStages == Stages \cap {"longbridge", "futu", "futu_eps_field_fix"}
\* Stages that record a second verdict when the first finish_run raises.
FallbackStages == Stages \ {"prediction", "futu_eps_field_fix"}
\* freshness.SYNC_STAGES: what the weekly pipeline runs, and what can be retried.
SYNC_STAGES == Stages \ {"futu_eps_field_fix"}

ASSUME ConstantsAssumption ==
  /\ Stages \subseteq AllStages
  /\ NoProc \notin Procs
  /\ MaxRows \in Nat /\ MaxAge \in Nat /\ RecoverAfter \in Nat
  /\ Budget \in [Stages -> Nat \ {0}]
  \* No default of STAGE_TIMEOUT_SECONDS exceeds the recovery grace of 3600 s.
  /\ \A s \in Stages : Budget[s] <= RecoverAfter
  /\ RecoverAfter < MaxAge

VARIABLES
  sync_runs,  \* the table, by id
  locks,      \* pg advisory locks: who holds each key
  lost,       \* processes whose lock session the server closed
  proc,       \* the stage processes
  up,         \* whether the web process runs (its reaper thread with it)
  adm         \* retry requests being served

vars == <<sync_runs, locks, lost, proc, up, adm>>

Ids      == 1 .. MaxRows
Terminal == {"success", "failed", "skipped", "interrupted", "cancelled"}

\* A row: phase tells a retry request from a run; age is the time since
\* COALESCE(heartbeat_at, started_at), which only running rows are judged by;
\* for and by are details.retry_requested_for and details.satisfied_by_run.
\* The attempt number, which only readers see, is left out.
\* owner is history, not a column: how the process of a running row ended, if it
\* has; "none" for a row that is closed.
Owners == {"alive", "returned", "raised", "sigterm", "sigkill", "none"}
Row   == [phase : {"run", "retry_requested"}, stage : Stages,
          status : Terminal \cup {"running"}, age : Nat,
          for : Nat, by : Nat, owner : Owners]
Free  == [phase |-> "free"]

Used          == {r \in Ids : sync_runs[r] # Free}
Runs          == {r \in Used : sync_runs[r].phase = "run"}
Requests      == {r \in Used : sync_runs[r].phase = "retry_requested"}
Running(r)    == r \in Runs /\ sync_runs[r].status = "running"
RunningOf(s)  == {r \in Runs : Running(r) /\ sync_runs[r].stage = s}
PendingOf(s)  == {q \in Requests : sync_runs[q].stage = s /\ sync_runs[q].by = 0}

\* Ids are drawn in insertion order.
IsNextId(r) == r \in Ids \ Used /\ \A q \in Ids : q < r => q \in Used

----------------------------------------------------------------------------
(* Table updates: each is the WHERE clause and the SET of one statement.   *)

Closed(row, v) == [row EXCEPT !.status = v, !.age = 0, !.owner = "none"]

\* Mutant of Transition: the UPDATE without its status guard (Issue #28).
TransitionUnguarded(t, r, v) == [t EXCEPT ![r] = Closed(@, v)]
\* UPDATE ... WHERE id = r AND status = 'running'
Transition(t, r, v) ==
  IF t[r].status = "running" THEN [t EXCEPT ![r] = Closed(@, v)] ELSE t

\* UPDATE ... SET status = 'interrupted' WHERE id in R, of running rows R
Interrupted(R) ==
  [r \in Ids |-> IF r \in R THEN Closed(sync_runs[r], "interrupted") ELSE sync_runs[r]]

\* Mutants of TimedOut: the reaper is one tick early; it judges keyed runs only.
TimedOutEarly == {r \in Ids : Running(r) /\ sync_runs[r].age >= Budget[sync_runs[r].stage]}
TimedOutKeyed == {r \in Ids : /\ Running(r) /\ sync_runs[r].stage \in KeyedStages
                              /\ sync_runs[r].age > Budget[sync_runs[r].stage]}
\* reap_timeout_runs: a running row older than its own timeout_seconds.
TimedOut == {r \in Ids : Running(r) /\ sync_runs[r].age > Budget[sync_runs[r].stage]}

\* recover_stale_runs: a running row older than the global grace.
Stale == {r \in Ids : Running(r) /\ sync_runs[r].age > RecoverAfter}

----------------------------------------------------------------------------
(* Stage processes                                                         *)

Idle == [pc |-> "idle"]
ProcState ==
  [pc : {"lock", "check", "insert", "consume", "unavailable", "work", "polled",
         "fallback"},
   job : Stages, run : {0} \cup Ids, scheduled : BOOLEAN,
   elapsed : Nat, late : 0 .. 2]

Live(p)     == proc[p] # Idle
At(p, pc)   == Live(p) /\ proc[p].pc = pc
GoTo(p, pc) == proc' = [proc EXCEPT ![p].pc = pc]

\* The process ends: its session closes, which frees its lock, and the row it
\* owned (if start_run returned one) remembers how when it is still running.
Leave(p, t, how) ==
  /\ sync_runs' = IF proc[p].run # 0 /\ t[proc[p].run].status = "running"
                  THEN [t EXCEPT ![proc[p].run].owner = how] ELSE t
  /\ proc'  = [proc EXCEPT ![p] = Idle]
  /\ locks' = [k \in LockKeys |-> IF locks[k] = p THEN NoProc ELSE locks[k]]
  /\ lost'  = lost \ {p}
  /\ UNCHANGED <<up, adm>>

\* The script starts, under `timeout` (sync_all.sh) or by hand.
Launch(p, s, scheduled) ==
  /\ ~ Live(p)
  /\ scheduled => s \in SYNC_STAGES
  /\ proc' = [proc EXCEPT ![p] =
       [pc |-> IF s \in LockedStages THEN "lock" ELSE IF s \in KeyedStages THEN "check" ELSE "insert",
        job |-> s, run |-> 0, scheduled |-> scheduled, elapsed |-> 0, late |-> 0]]
  /\ UNCHANGED <<sync_runs, locks, lost, up, adm>>

\* Mutant of TakeLock: the caller goes on without looking at `acquired`.
TakeLockUnchecked(p) ==
  /\ At(p, "lock")
  /\ locks' = [locks EXCEPT ![LockOf(proc[p].job)] = IF @ = NoProc THEN p ELSE @]
  /\ GoTo(p, "check")
  /\ UNCHANGED <<sync_runs, lost, up, adm>>
\* advisory_lock, non-blocking: a process that does not get it exits.
TakeLock(p) ==
  /\ At(p, "lock")
  /\ LET k == LockOf(proc[p].job) IN
     \/ /\ locks[k] = NoProc
        /\ locks' = [locks EXCEPT ![k] = p]
        /\ GoTo(p, "check")
        /\ UNCHANGED <<sync_runs, lost, up, adm>>
     \/ /\ locks[k] # NoProc
        /\ Leave(p, sync_runs, "returned")

\* start_run, first statement: a running row of the key means "already running".
CheckRunning(p) ==
  /\ At(p, "check")
  /\ \/ /\ RunningOf(proc[p].job) # {}
        /\ Leave(p, sync_runs, "returned")
     \/ /\ RunningOf(proc[p].job) = {}
        /\ GoTo(p, "insert")
        /\ UNCHANGED <<sync_runs, locks, lost, up, adm>>

\* The partial unique index on idempotency_key WHERE status = 'running'.
KeyIsFree(s) == s \in KeyedStages => RunningOf(s) = {}

\* start_run, INSERT and COMMIT; a unique violation means "already running".
InsertRun(p) ==
  /\ At(p, "insert")
  /\ LET s == proc[p].job IN
     \/ /\ KeyIsFree(s)
        /\ \E r \in Ids :
             /\ IsNextId(r)
             /\ sync_runs' = [sync_runs EXCEPT ![r] =
                  [phase |-> "run", stage |-> s, status |-> "running",
                   age |-> 0, for |-> 0, by |-> 0, owner |-> "alive"]]
             /\ proc' = [proc EXCEPT ![p].pc = "consume", ![p].run = r]
        /\ UNCHANGED <<locks, lost, up, adm>>
     \/ /\ ~ KeyIsFree(s)
        /\ Leave(p, sync_runs, "returned")

\* Mutant of PendingOf's use in ConsumeRequests: only failed runs are retried.
ConsumeForFailed(p) ==
  /\ At(p, "consume")
  /\ LET s == proc[p].job IN
     /\ sync_runs' = [q \in Ids |->
          IF q \in PendingOf(s) /\ sync_runs[sync_runs[q].for].status = "failed"
          THEN [sync_runs[q] EXCEPT !.by = proc[p].run] ELSE sync_runs[q]]
     /\ \E pc \in {"work"} \cup (IF s = "futu" THEN {"unavailable"} ELSE {}) : GoTo(p, pc)
  /\ UNCHANGED <<locks, lost, up, adm>>
\* consume_retry_requests, a transaction of its own.  sync_futu has found out
\* whether OpenD answers before start_run; the outcome shows from here on.
ConsumeRequests(p) ==
  /\ At(p, "consume")
  /\ LET s == proc[p].job IN
     /\ sync_runs' = [q \in Ids |-> IF q \in PendingOf(s)
                                    THEN [sync_runs[q] EXCEPT !.by = proc[p].run]
                                    ELSE sync_runs[q]]
     /\ \E pc \in {"work"} \cup (IF s = "futu" THEN {"unavailable"} ELSE {}) : GoTo(p, pc)
  /\ UNCHANGED <<locks, lost, up, adm>>

\* The database refuses that second transaction: start_run raises, and no
\* script has entered the try block that would record a verdict.
ConsumeRaises(p) ==
  /\ At(p, "consume")
  /\ Leave(p, sync_runs, "raised")

\* OpenD is unavailable: finish_run(status='skipped'), which may raise, and exit.
SkipRun(p) ==
  /\ At(p, "unavailable")
  /\ \/ Leave(p, Transition(sync_runs, proc[p].run, "skipped"), "returned")
     \/ Leave(p, sync_runs, "raised")

\* Mutant of Poll: no check_cancelled in the loop.
PollUnchecked(p) ==
  /\ At(p, "work")
  /\ GoTo(p, "polled")
  /\ UNCHANGED <<sync_runs, locks, lost, up, adm>>
\* Top of the work loop: a polling stage reads its status first and stops with
\* SyncCancelledError (finish_run(status='cancelled')) when it is not running.
Poll(p) ==
  /\ At(p, "work")
  /\ \/ /\ proc[p].job \in PollingStages => Running(proc[p].run)
        /\ GoTo(p, "polled")
        /\ UNCHANGED <<sync_runs, locks, lost, up, adm>>
     \/ /\ proc[p].job \in PollingStages
        /\ ~ Running(proc[p].run)
        /\ Leave(p, Transition(sync_runs, proc[p].run, "cancelled"), "returned")

\* HeartbeatThrottle.maybe writes heartbeat_at whatever the status of the row.
Beat(p) ==
  /\ At(p, "polled")
  /\ sync_runs' = [sync_runs EXCEPT ![proc[p].run].age = 0]
  /\ UNCHANGED <<locks, lost, proc, up, adm>>

\* A batch of calendar data commits.  late counts the batches of a polling
\* stage that commit after its run was closed (history, capped at 2).
CommitBatch(p) ==
  /\ At(p, "polled")
  /\ LET after == proc[p].job \in PollingStages /\ ~ Running(proc[p].run) /\ proc[p].late < 2 IN
     proc' = [proc EXCEPT ![p].pc = "work",
                          ![p].late = IF after THEN @ + 1 ELSE @]
  /\ UNCHANGED <<sync_runs, locks, lost, up, adm>>

\* finish_run with the stage's own verdict, then exit.
FinishRun(p) ==
  /\ At(p, "work")
  /\ \E v \in {"success", "failed"} :
       Leave(p, Transition(sync_runs, proc[p].run, v), "returned")

\* finish_run raises (with its UPDATE committed or not): most stages try once
\* more from an except or finally block, the others exit with the exception.
FinishRaises(p) ==
  /\ At(p, "work")
  /\ \E v \in {"success", "failed", "running"} :
       LET t == IF v = "running" THEN sync_runs ELSE Transition(sync_runs, proc[p].run, v) IN
       \/ /\ proc[p].job \in FallbackStages
          /\ sync_runs' = t
          /\ GoTo(p, "fallback")
          /\ UNCHANGED <<locks, lost, up, adm>>
       \/ /\ proc[p].job \notin FallbackStages
          /\ Leave(p, t, "raised")

\* Mutant of Fallback: a status outside the CHECK constraint.
FallbackAborted(p) ==
  /\ At(p, "fallback")
  /\ \/ Leave(p, Transition(sync_runs, proc[p].run, "aborted"), "raised")
     \/ Leave(p, sync_runs, "raised")
\* The second finish_run: 'interrupted' from run_sync's finally block, 'failed'
\* from the except block of the other stages; it may raise too.
Fallback(p) ==
  /\ At(p, "fallback")
  /\ LET v == IF proc[p].job = "futu" THEN "interrupted" ELSE "failed" IN
     \/ Leave(p, Transition(sync_runs, proc[p].run, v), "raised")
     \/ Leave(p, sync_runs, "raised")

\* Ctrl-C in the work loop: only run_sync catches a BaseException.
Interrupt(p) ==
  /\ At(p, "work") \/ At(p, "polled")
  /\ LET t == IF proc[p].job = "futu"
              THEN Transition(sync_runs, proc[p].run, "interrupted") ELSE sync_runs IN
     Leave(p, t, "raised")

\* `timeout` sends SIGTERM when the budget has elapsed.  No script installs a
\* handler, so the interpreter dies without running any except or finally block.
TimeoutKill(p) ==
  /\ Live(p)
  /\ proc[p].scheduled
  /\ proc[p].elapsed >= Budget[proc[p].job]
  /\ Leave(p, sync_runs, "sigterm")

\* The host kills the process (out of memory, reboot).
Kill(p) ==
  /\ Live(p)
  /\ Leave(p, sync_runs, "sigkill")

\* The server closes the session that holds the advisory lock; the process,
\* whose other connections come from the pool, does not notice.
LoseSession(p) ==
  /\ \E k \in LockKeys : locks[k] = p
  /\ locks' = [k \in LockKeys |-> IF locks[k] = p THEN NoProc ELSE locks[k]]
  /\ lost'  = lost \cup {p}
  /\ UNCHANGED <<sync_runs, proc, up, adm>>

----------------------------------------------------------------------------
(* The web process                                                         *)

AdmIdle == [pc |-> "idle"]
AdmState == [pc : {"check", "insert"}, run : Ids, stage : Stages]
RequestsFor(r) == {q \in Requests : sync_runs[q].for = r}

\* lifespan: recover_stale_runs, then the reaper starts.
AppStart ==
  /\ ~ up
  /\ up' = TRUE
  /\ sync_runs' = Interrupted(Stale)
  /\ UNCHANGED <<locks, lost, proc, adm>>

\* The web process stops; the requests it serves are gone with it.
AppStop ==
  /\ up
  /\ up' = FALSE
  /\ adm' = [a \in Admins |-> AdmIdle]
  /\ UNCHANGED <<sync_runs, locks, lost, proc>>

\* One pass of run_reaper_loop.
Reap ==
  /\ up
  /\ TimedOut # {}
  /\ sync_runs' = Interrupted(TimedOut)
  /\ UNCHANGED <<locks, lost, proc, up, adm>>

\* POST /sync-runs/recover
AdminRecover ==
  /\ up
  /\ Stale # {}
  /\ sync_runs' = Interrupted(Stale)
  /\ UNCHANGED <<locks, lost, proc, up, adm>>

\* POST /sync-runs/{r}/cancel
RequestCancel(r) ==
  /\ up
  /\ Running(r)
  /\ sync_runs' = Transition(sync_runs, r, "cancelled")
  /\ UNCHANGED <<locks, lost, proc, up, adm>>

\* POST /sync-runs/{r}/retry, first transaction: the run must have ended badly
\* and its stage must be scheduled.
RetryLoad(a, r) ==
  /\ up
  /\ adm[a] = AdmIdle
  /\ r \in Used
  /\ sync_runs[r].status \in {"failed", "interrupted", "cancelled"}
  /\ sync_runs[r].stage \in SYNC_STAGES
  /\ adm' = [adm EXCEPT ![a] = [pc |-> "check", run |-> r, stage |-> sync_runs[r].stage]]
  /\ UNCHANGED <<sync_runs, locks, lost, proc, up>>

\* request_retry: the newest request for the run is still pending, so refuse.
RetryCheck(a) ==
  /\ adm[a] # AdmIdle
  /\ adm[a].pc = "check"
  /\ LET pending == \E q \in RequestsFor(adm[a].run) :
                       /\ \A x \in RequestsFor(adm[a].run) : x <= q
                       /\ sync_runs[q].by = 0
     IN adm' = [adm EXCEPT ![a] = IF pending THEN AdmIdle ELSE [@ EXCEPT !.pc = "insert"]]
  /\ UNCHANGED <<sync_runs, locks, lost, proc, up>>

\* request_retry: INSERT of a row that is terminal from the start.
RetryInsert(a) ==
  /\ adm[a] # AdmIdle
  /\ adm[a].pc = "insert"
  /\ \E q \in Ids :
       /\ IsNextId(q)
       /\ sync_runs' = [sync_runs EXCEPT ![q] =
            [phase |-> "retry_requested", stage |-> adm[a].stage, status |-> "skipped",
             age |-> 0, for |-> adm[a].run, by |-> 0, owner |-> "none"]]
  /\ adm' = [adm EXCEPT ![a] = AdmIdle]
  /\ UNCHANGED <<locks, lost, proc, up>>

----------------------------------------------------------------------------
\* Time passes for the running rows and the processes under `timeout`, but no
\* further for a process that `timeout` is about to kill.
Older(n) == IF n < MaxAge THEN n + 1 ELSE n
Tick ==
  /\ \A p \in Procs : Live(p) /\ proc[p].scheduled => proc[p].elapsed < Budget[proc[p].job]
  /\ sync_runs' = [r \in Ids |-> IF Running(r) THEN [sync_runs[r] EXCEPT !.age = Older(@)]
                                               ELSE sync_runs[r]]
  /\ proc' = [p \in Procs |-> IF Live(p) /\ proc[p].scheduled
                                         THEN [proc[p] EXCEPT !.elapsed = @ + 1] ELSE proc[p]]
  /\ UNCHANGED <<locks, lost, up, adm>>

Init ==
  /\ sync_runs = [r \in Ids |-> Free]
  /\ locks = [k \in LockKeys |-> NoProc]
  /\ lost = {}
  /\ proc = [p \in Procs |-> Idle]
  /\ up = FALSE
  /\ adm = [a \in Admins |-> AdmIdle]

StageStep(p) ==
  \/ \E s \in Stages, scheduled \in BOOLEAN : Launch(p, s, scheduled)
  \/ TakeLock(p) \/ CheckRunning(p) \/ InsertRun(p)
  \/ ConsumeRequests(p) \/ ConsumeRaises(p) \/ SkipRun(p)
  \/ Poll(p) \/ Beat(p) \/ CommitBatch(p)
  \/ FinishRun(p) \/ FinishRaises(p) \/ Fallback(p)
  \/ Interrupt(p) \/ TimeoutKill(p) \/ Kill(p) \/ LoseSession(p)

WebStep ==
  \/ AppStart \/ AppStop \/ Reap \/ AdminRecover
  \/ \E r \in Ids : RequestCancel(r)
  \/ \E a \in Admins : (\E r \in Ids : RetryLoad(a, r)) \/ RetryCheck(a) \/ RetryInsert(a)

Next == (\E p \in Procs : StageStep(p)) \/ WebStep \/ Tick

Spec == Init /\ [][Next]_vars

\* Docker restarts the web process, its reaper loop never stops, the clock
\* runs and `timeout` acts: nothing is assumed of the stage processes.
Fairness ==
  /\ WF_vars(AppStart) /\ WF_vars(Reap) /\ WF_vars(Tick)
  /\ \A p \in Procs : WF_vars(TimeoutKill(p))

FairSpec == Spec /\ Fairness
----------------------------------------------------------------------------
(* Properties                                                              *)

\* Every variable keeps its type; in particular a status is one that the CHECK
\* constraint sync_runs_status_check admits, and a process that holds a run id
\* holds the id of a run of its own stage.
TypeOK ==
  /\ sync_runs \in [Ids -> Row \cup {Free}]
  /\ locks \in [LockKeys -> Procs \cup {NoProc}]
  /\ lost \subseteq Procs
  /\ proc \in [Procs -> ProcState \cup {Idle}]
  /\ up \in BOOLEAN
  /\ adm \in [Admins -> AdmState \cup {AdmIdle}]

\* Two processes never run stages of one advisory lock at the same time, unless
\* the server closed the session of one of them: what keeps two Futu writers
\* (the stage and the EPS refill) or two calendar writers apart even after the
\* run row of the first was cancelled or reaped and its key is free again.
InSection(p) == Live(p) /\ proc[p].pc # "lock" /\ proc[p].job \in LockedStages
OneWorkerPerLock ==
  \A p, q \in Procs :
    /\ p # q /\ InSection(p) /\ InSection(q)
    /\ LockOf(proc[p].job) = LockOf(proc[q].job)
    => p \in lost \/ q \in lost

\* While a stage started by the pipeline is alive its row is running or was
\* cancelled by an admin: neither the reaper nor a recovery discards the
\* verdict it is about to write (Issues #33, #78).
ScheduledRunKeepsVerdict ==
  \A p \in Procs :
    Live(p) /\ proc[p].scheduled /\ proc[p].run # 0 /\ proc[p].pc # "fallback"
      => sync_runs[proc[p].run].status \in {"running", "cancelled"}

\* A polling stage commits at most one more batch after its run was closed by
\* someone else (Issue #28): check_cancelled stands before every batch.
CancelledRunStops == \A p \in Procs : Live(p) => proc[p].late < 2

\* A run that reached its work has fulfilled every retry request of its stage
\* recorded before it: none waits for yet another round.
EarlierRequestsFulfilled ==
  \A p \in Procs :
    (Live(p) /\ proc[p].run # 0 /\ proc[p].pc # "consume") =>
      \A q \in Requests : q < proc[p].run /\ sync_runs[q].stage = proc[p].job
                            => sync_runs[q].by # 0

\* What the readers of sync_runs rely on, and nothing of the protocol: verdicts
\* are final, a key has one open run, a request is fulfilled once.
LedgerRow(row) ==
  CASE row.phase = "free" -> [kind |-> "absent"]
    [] row.phase = "run"  -> [kind |-> "run", stage |-> row.stage, verdict |-> row.status]
    [] OTHER              -> [kind |-> "request", stage |-> row.stage, by |-> row.by]
LedgerOf(t) == [r \in Ids |-> LedgerRow(t[r])]
Ledger == INSTANCE RunLedger WITH Verdicts <- Terminal, ledger <- LedgerOf(sync_runs)
ImplementsLedger == Ledger!LedgerSpec

\* A run whose process is gone does not stay running: the reaper, or the
\* recovery of the next start of the web process, closes it, so the stage's key
\* becomes free without an operator.
Stranded(r) == Running(r) /\ sync_runs[r].owner # "alive"
StrandedRunIsRecovered == \A r \in Ids : Stranded(r) ~> ~ Running(r)

============================================================================
