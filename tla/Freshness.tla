------------------------------ MODULE Freshness ------------------------------
(***************************************************************************)
(* The weekly round and what is said of it: cron_sync.sh runs the stages   *)
(* of sync_all.sh one after the other and then the freshness gate          *)
(* (check_sync_freshness.py), which judges every stage by its rows of      *)
(* sync_runs and every derived table by its newest row                     *)
(* (app/freshness.py).  Of the stages, the Longbridge calendar with its    *)
(* paging (sync_earnings.py) and the consensus (sync_consensus.py) are     *)
(* modelled.  The audit table is kept in the order of                      *)
(* COALESCE(finished_at, started_at), with ages in place of times.         *)
(***************************************************************************)
EXTENDS Integers, Sequences

CONSTANTS
  Pipeline,      \* the stages, in the order of sync_all.sh
  StaleAfter,    \* SYNC_STAGE_STALE_AFTER_HOURS, in ticks
  Days,          \* days of the calendar's range
  Markets,       \* markets fetched
  DERIVED_TABLES, \* tables that the consensus stage rewrites
  MaxAudited     \* bound: rows of the audit table

ASSUME FreshnessAssumption ==
  /\ Pipeline \in Seq({"longbridge", "consensus"}) /\ Pipeline # << >>
  /\ DERIVED_TABLES \subseteq {"earnings_consensus", "earnings_forecast_eps", "earnings_institution_ratings"}
  /\ StaleAfter \in Nat /\ Days \in Nat \ {0} /\ Markets \in Nat \ {0} /\ MaxAudited \in Nat

VARIABLES
  audit,       \* sync_runs, by the time that orders them
  fetchedAge,  \* age of the newest row of each derived table
  round,       \* the scheduled round: the stage it is at and how it went
  calendarRun, \* what the Longbridge stage has counted (SyncStats) and where it reads
  since,       \* ticks since each stage delivered what it is for
  delivered    \* stages of the round that delivered, or were found running already

freshVars == <<audit, fetchedAge, round, calendarRun, since, delivered>>

SYNC_STAGES == {Pipeline[i] : i \in DOMAIN Pipeline}
Outdated == StaleAfter + 1   \* every greater age is as good as this one
Ages == 0 .. Outdated

Entry(s, status, asks) == [stage |-> s, status |-> status, age |-> 0, asks |-> asks]
NoRun == [market |-> 1, cursor |-> 1, covered |-> 0, some |-> FALSE, pages |-> FALSE,
          resolved |-> FALSE, written |-> FALSE, failed |-> FALSE, complete |-> TRUE]
NoRound == [at |-> 0, doing |-> "idle", broken |-> FALSE, code |-> "none"]

FreshInit ==
  /\ audit = << >> /\ fetchedAge = [t \in DERIVED_TABLES |-> Outdated]
  /\ round = NoRound /\ calendarRun = NoRun
  /\ since = [s \in SYNC_STAGES |-> Outdated] /\ delivered = {}

----------------------------------------------------------------------------
(* The audit table                                                         *)

IsRunning(row, s) == row.stage = s /\ row.status = "running"
RunningNow(s) == \E i \in DOMAIN audit : IsRunning(audit[i], s)

\* The row at i is written again, and its time makes it the newest.
Rewritten(i, row) ==
  [j \in DOMAIN audit |-> IF j < i THEN audit[j] ELSE IF j < Len(audit) THEN audit[j + 1] ELSE row]

\* finish_run, request_cancel and the reaper close a row only while it is running.
ClosedAs(s, status) ==
  IF RunningNow(s) THEN Rewritten(CHOOSE i \in DOMAIN audit : IsRunning(audit[i], s), Entry(s, status, FALSE))
  ELSE audit

\* start_run inserts the run and then marks the request of its stage, whose finished_at moves.
RunStarted(s) ==
  LET asking == {i \in DOMAIN audit : audit[i].stage = s /\ audit[i].asks}
      run    == Entry(s, "running", FALSE)
  IN  IF asking = {} THEN Append(audit, run)
      ELSE Append(Rewritten(CHOOSE i \in asking : TRUE, run), Entry(s, "skipped", FALSE))

Cancel(s) ==
  /\ RunningNow(s) /\ audit' = ClosedAs(s, "cancelled")
  /\ UNCHANGED <<fetchedAge, round, calendarRun, since, delivered>>

\* A run whose process is gone is closed by the reaper or by the recovery at startup.
CloseStranded(s) ==
  /\ RunningNow(s) /\ ~(round.doing = "working" /\ Pipeline[round.at] = s)
  /\ audit' = ClosedAs(s, "interrupted")
  /\ UNCHANGED <<fetchedAge, round, calendarRun, since, delivered>>

\* An administrator asks for another run of one that did not succeed.  Bound: a stage has one
\* open request at a time, where the code has one for each run.
AskAgain(s) ==
  /\ Len(audit) < MaxAudited
  /\ \E i \in DOMAIN audit : audit[i].stage = s /\ audit[i].status \in {"failed", "interrupted", "cancelled"}
  /\ ~\E i \in DOMAIN audit : audit[i].stage = s /\ audit[i].asks
  /\ audit' = Append(audit, Entry(s, "skipped", TRUE))
  /\ UNCHANGED <<fetchedAge, round, calendarRun, since, delivered>>

----------------------------------------------------------------------------
(* The freshness check                                                     *)

RowsOf(s) == {i \in DOMAIN audit : audit[i].stage = s}
Succeeded(s) == {i \in RowsOf(s) : audit[i].status = "success"}
LastStatus(s) == audit[CHOOSE i \in RowsOf(s) : \A j \in RowsOf(s) : j <= i].status

StageVerdict(s) ==
  CASE RowsOf(s) # {} /\ LastStatus(s) = "failed" -> "failed"
    [] OTHER -> IF Succeeded(s) = {} THEN "never"
                ELSE IF \E i \in Succeeded(s) : audit[i].age <= StaleAfter THEN "fresh" ELSE "stale"

TableVerdict(t) == IF fetchedAge[t] <= StaleAfter THEN "fresh" ELSE "stale"

Healthy ==
  /\ \A s \in SYNC_STAGES : StageVerdict(s) = "fresh"
  /\ \A t \in DERIVED_TABLES : TableVerdict(t) = "fresh"

----------------------------------------------------------------------------
(* The round                                                               *)

StartRound ==
  /\ round.doing = "idle" /\ Len(audit) + Len(Pipeline) <= MaxAudited
  /\ round' = [at |-> 1, doing |-> "launch", broken |-> FALSE, code |-> "none"]
  /\ delivered' = {}
  /\ UNCHANGED <<audit, fetchedAge, calendarRun, since>>

\* Mutant of StageEnds: the status of the last stage is the status of the round.
LastStageDecides(code) ==
  round' = [round EXCEPT !.at = IF @ = Len(Pipeline) THEN 0 ELSE @ + 1,
              !.doing = IF round.at = Len(Pipeline) THEN "gate" ELSE "launch",
              !.broken = code # 0]

\* run_stage returns: a failure is remembered, the next stage runs all the same.
StageEnds(code) ==
  round' = [round EXCEPT !.at = IF @ = Len(Pipeline) THEN 0 ELSE @ + 1,
              !.doing = IF round.at = Len(Pipeline) THEN "gate" ELSE "launch",
              !.broken = @ \/ code # 0]

\* start_run finds the stage running already and the process exits 0.
SkipStage(s) ==
  /\ round.doing = "launch" /\ Pipeline[round.at] = s /\ RunningNow(s)
  /\ StageEnds(0) /\ delivered' = delivered \cup {s}
  /\ UNCHANGED <<audit, fetchedAge, calendarRun, since>>

StartStage(s) ==
  /\ round.doing = "launch" /\ Pipeline[round.at] = s /\ ~RunningNow(s)
  /\ audit' = RunStarted(s) /\ round' = [round EXCEPT !.doing = "working"]
  /\ UNCHANGED <<fetchedAge, calendarRun, since, delivered>>

Working(s) == round.doing = "working" /\ Pipeline[round.at] = s

\* The process ends before it has a row: no database, or the watchlist cannot be read.
StageNeverStarts(s) ==
  /\ round.doing = "launch" /\ Pipeline[round.at] = s
  /\ StageEnds(1)
  /\ UNCHANGED <<audit, fetchedAge, calendarRun, since, delivered>>

\* The budget elapses, or the process is killed: its row stays as it is.
StageKilled(s) ==
  /\ Working(s) /\ StageEnds(124) /\ calendarRun' = NoRun
  /\ UNCHANGED <<audit, fetchedAge, since, delivered>>

\* A stage that raises is recorded and exits 1.
StageFails(s) ==
  /\ Working(s) /\ audit' = ClosedAs(s, "failed") /\ StageEnds(1) /\ calendarRun' = NoRun
  /\ UNCHANGED <<fetchedAge, since, delivered>>

Ends(s, failed, served) ==
  /\ audit' = ClosedAs(s, IF failed THEN "failed" ELSE "success")
  /\ StageEnds(IF failed THEN 1 ELSE 0)
  /\ since' = IF served THEN [since EXCEPT ![s] = 0] ELSE since
  /\ delivered' = IF served THEN delivered \cup {s} ELSE delivered

----------------------------------------------------------------------------
(* The Longbridge stage                                                    *)

Reading == Working("longbridge") /\ calendarRun.market <= Markets
CalendarSeesCancel ==
  \E i \in RowsOf("longbridge") :
    audit[i].status = "cancelled" /\ \A j \in RowsOf("longbridge") : j > i => audit[j].status = "skipped"

\* Mutant of NextCursor: only the provider's next date counts.
NextDateOnly(next, last) == next

\* next_calendar_cursor: the later of the provider's next date and the day after the last page.
NextCursor(next, last) == IF next > last + 1 THEN next ELSE last + 1

\* One response: the releases of the days from the cursor to some last one, and a next date,
\* or none, before which nothing else is released.  Zero stands for no date.
ReadPage ==
  /\ Reading /\ calendarRun.cursor <= Days
  /\ \E last \in calendarRun.cursor .. Days : \E next \in {0} \cup last + 1 .. Days + 1 :
       LET cursor == NextCursor(next, last)
           covered == IF next = 0 THEN last ELSE next - 1
           ends == cursor = 0 \/ cursor > Days
       IN  calendarRun' = [calendarRun EXCEPT !.some = TRUE, !.covered = covered,
                             !.cursor = IF ends THEN Days + 1 ELSE cursor,
                             !.complete = @ /\ (ends => covered >= Days)]
  /\ UNCHANGED <<audit, fetchedAge, round, since, delivered>>

\* A day without releases: the endpoint does not seek, the cursor advances by a day.
ReadEmptyDay ==
  /\ Reading /\ calendarRun.cursor <= Days
  /\ calendarRun' = [calendarRun EXCEPT !.covered = calendarRun.cursor, !.cursor = @ + 1]
  /\ UNCHANGED <<audit, fetchedAge, round, since, delivered>>

\* The events of a market: some are resolved or none, and of the batches some are written and
\* some fail.  A cancelled run stops at its next check.
StoreMarket ==
  /\ Reading /\ calendarRun.cursor > Days /\ ~CalendarSeesCancel
  /\ \E resolved, written, failed \in BOOLEAN :
       /\ resolved => calendarRun.some
       /\ written \/ failed => resolved
       /\ calendarRun' = [calendarRun EXCEPT
            !.market = @ + 1, !.cursor = 1, !.covered = 0, !.some = FALSE,
            !.pages = @ \/ calendarRun.some, !.resolved = @ \/ resolved,
            !.written = @ \/ written, !.failed = @ \/ failed]
  /\ UNCHANGED <<audit, fetchedAge, round, since, delivered>>

CalendarCancelled ==
  /\ Reading /\ CalendarSeesCancel
  /\ StageEnds(1) /\ calendarRun' = NoRun
  /\ UNCHANGED <<audit, fetchedAge, since, delivered>>

\* Mutant of RunFailed: a run that resolves nothing is an empty one.
RunFailedOnBatches(run) == run.failed /\ ~run.written

\* run_terminal_state.
RunFailed(run) == (run.failed /\ ~run.written) \/ (run.pages /\ ~run.resolved)

\* The stage is for reading the whole range and for resolving what it is given.
CalendarServed(run) == run.complete /\ (run.pages => run.resolved)

CalendarEnds ==
  /\ Working("longbridge") /\ calendarRun.market > Markets
  /\ Ends("longbridge", RunFailed(calendarRun), ~RunFailed(calendarRun) /\ CalendarServed(calendarRun))
  /\ calendarRun' = NoRun /\ UNCHANGED fetchedAge

----------------------------------------------------------------------------
(* The consensus stage                                                     *)

\* Every symbol is asked for three things, one after the other, and what was fetched is written
\* in one transaction, whether or not a symbol failed.  Without a failure every symbol has its
\* rating, so that only an empty watchlist writes none.
Persisted(written) == fetchedAge' = [t \in DERIVED_TABLES |-> IF t \in written THEN 0 ELSE fetchedAge[t]]

ConsensusEnds ==
  /\ Working("consensus")
  /\ \E written \in SUBSET DERIVED_TABLES : \E failed \in BOOLEAN :
       /\ failed \/ written = {} \/ DERIVED_TABLES \cap {"earnings_institution_ratings"} \subseteq written
       /\ Persisted(written)
       /\ Ends("consensus", failed, ~failed)
  /\ UNCHANGED calendarRun

\* The process dies between the two transactions.
ConsensusDies ==
  /\ Working("consensus")
  /\ \E written \in SUBSET DERIVED_TABLES : Persisted(written)
  /\ StageEnds(137)
  /\ UNCHANGED <<audit, calendarRun, since, delivered>>

----------------------------------------------------------------------------
(* The gate and the clock                                                  *)

\* The gate runs after the stages, whatever they returned; it too may fail or time out.
Gate ==
  /\ round.doing = "gate"
  /\ \E readable \in BOOLEAN :
       round' = [round EXCEPT !.doing = "idle",
                   !.code = IF ~round.broken /\ readable /\ Healthy THEN "zero" ELSE "one"]
  /\ UNCHANGED <<audit, fetchedAge, calendarRun, since, delivered>>

Aged(age) == IF age = Outdated THEN Outdated ELSE age + 1

\* A tick is days, a round hours at most: no tick falls into a round.  Of the rows, only the
\* successes are asked for their age.
GrowOlder ==
  /\ round.doing = "idle"
  /\ audit' = [i \in DOMAIN audit |-> IF audit[i].status = "success" THEN [audit[i] EXCEPT !.age = Aged(@)]
                                      ELSE audit[i]]
  /\ fetchedAge' = [t \in DERIVED_TABLES |-> Aged(fetchedAge[t])]
  /\ since' = [s \in SYNC_STAGES |-> Aged(since[s])]
  /\ UNCHANGED <<round, calendarRun, delivered>>

FreshNext ==
  \/ StartRound \/ Gate \/ GrowOlder
  \/ ReadPage \/ ReadEmptyDay \/ StoreMarket \/ CalendarCancelled \/ CalendarEnds \/ ConsensusEnds \/ ConsensusDies
  \/ \E s \in SYNC_STAGES :
       \/ SkipStage(s) \/ StageNeverStarts(s) \/ StartStage(s) \/ StageKilled(s) \/ StageFails(s)
       \/ Cancel(s) \/ CloseStranded(s) \/ AskAgain(s)

FreshSpec == FreshInit /\ [][FreshNext]_freshVars

----------------------------------------------------------------------------
(* Properties                                                              *)

\* Every variable keeps its type.
FreshTypeOK ==
  /\ audit \in Seq([stage : SYNC_STAGES, age : Ages, asks : BOOLEAN,
                    status : {"running", "success", "failed", "interrupted", "cancelled", "skipped"}])
  /\ \A s \in SYNC_STAGES, i, j \in DOMAIN audit : IsRunning(audit[i], s) /\ IsRunning(audit[j], s) => i = j
  /\ fetchedAge \in [DERIVED_TABLES -> Ages]
  /\ round \in [at : 0 .. Len(Pipeline), doing : {"idle", "launch", "working", "gate"},
                broken : BOOLEAN, code : {"none", "zero", "one"}]
  /\ calendarRun \in [market : 1 .. Markets + 1, cursor : 1 .. Days + 1, covered : 0 .. Days,
                      some : BOOLEAN, pages : BOOLEAN, resolved : BOOLEAN, written : BOOLEAN,
                      failed : BOOLEAN, complete : BOOLEAN]
  /\ since \in [SYNC_STAGES -> Ages] /\ delivered \in SUBSET SYNC_STAGES

\* Where health and the gate are green, every stage has delivered within the threshold: the
\* calendar was read to the end of its range and something in it was resolved, if it held
\* anything, and the consensus of every symbol was fetched.  No skipped, killed, cancelled or
\* empty run, and no request for one, stands in for that.
GreenMeansDelivered == Healthy => \A s \in SYNC_STAGES : since[s] <= StaleAfter

\* A round that exits 0 has, for each of its stages, a run of its own that delivered, or found
\* the stage at work.
RoundIsHonest == round.code = "zero" => delivered = SYNC_STAGES

\* app/freshness.py: a stage whose most recent run failed is not reported fresh, however recent
\* its last success is.  Requests to run a stage again are not runs of it.
FailureStaysReported ==
  \A s \in SYNC_STAGES :
    LET runs == {i \in RowsOf(s) : audit[i].status # "skipped"}
    IN  runs # {} /\ audit[CHOOSE i \in runs : \A j \in runs : j <= i].status = "failed"
          => StageVerdict(s) # "fresh"
=============================================================================
