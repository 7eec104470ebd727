----------------------------- MODULE FutuPacing -----------------------------
(***************************************************************************)
(* One run of scripts/sync_futu.py against OpenD's quota: the sliding      *)
(* window every call is paced by, the refused call that waits out a window *)
(* and is retried, the circuit breaker of a stage and the verdict the run  *)
(* is audited with.  The process has one thread; what the answers carry is *)
(* left out but for whether the symbol counts as failed.                   *)
(*                                                                         *)
(* Time is kept as the age of every call made, capped at Window: nothing   *)
(* tells two calls apart that are both at least a window old.              *)
(***************************************************************************)
EXTENDS Integers, Sequences, FiniteSets

CONSTANTS
  NSymbols,      \* symbols of the watchlist OpenD can route
  Window,        \* FUTU_RATE_LIMIT_WINDOW_SECONDS
  MaxCalls,      \* FUTU_MAX_CALLS_PER_30S
  Retries,       \* FUTU_RATE_LIMIT_MAX_RETRIES
  Breaker,       \* FUTU_RATE_LIMIT_CIRCUIT_BREAKER
  CallTimes      \* how long a call and the work on its answer may take

ASSUME PacingAssumption ==
  /\ NSymbols \in Nat /\ Retries \in Nat
  /\ Window \in Nat \ {0} /\ MaxCalls \in Nat \ {0} /\ Breaker \in Nat \ {0}
  /\ CallTimes \subseteq Nat

VARIABLES
  age,       \* age of every call made in this process, oldest first
  held,      \* FutuRateLimiter._calls: how many of the latest calls it still holds
  stage,     \* the stage of run_sync
  pc,        \* where the process is
  attempt,   \* futu_call: retries spent on this call
  stats,     \* FutuStageStats of either stage
  fates,     \* what became of the symbols of a stage, in order
  verdict    \* status or error_code the run is finished with

vars == <<age, held, stage, pc, attempt, stats, fates, verdict>>

Stages == {"dates", "actuals"}
Outcomes == {"ok", "unsupported", "failed", "rate_limited"}
Running == "running"

NoStats == [attempted |-> 0, failed |-> 0, unsupported |-> 0, limited |-> 0,
            limitedCalls |-> 0, retries |-> 0, consecutive |-> 0, breaker |-> FALSE]

Init ==
  /\ age = << >> /\ held = 0
  /\ stage = "dates" /\ pc = "connect" /\ attempt = 0
  /\ stats = [s \in Stages |-> NoStats]
  /\ fates = [s \in Stages |-> << >>]
  /\ verdict = Running

----------------------------------------------------------------------------
(* FutuRateLimiter                                                         *)

\* The ages a while later.
Older(ages, d) == [i \in DOMAIN ages |-> IF ages[i] + d < Window THEN ages[i] + d ELSE Window]

\* Age of the k-th latest call.
Latest(ages, k) == ages[Len(ages) - k + 1]

\* _evict leaves k of the h calls held: those before are a window old, the oldest left is not.
\* Mutant of Evicts: the entry that is exactly one window short of the boundary goes too.
EvictsEarly(ages, h, k) ==
  /\ \A j \in k + 1 .. h : Latest(ages, j) >= Window - 1
  /\ k > 0 => Latest(ages, k) < Window - 1

Evicts(ages, h, k) ==
  /\ \A j \in k + 1 .. h : Latest(ages, j) = Window
  /\ k > 0 => Latest(ages, k) < Window

\* acquire: a free slot is taken at once.
AcquireFree ==
  /\ pc = "acquire"
  /\ \E k \in 0 .. held :
       /\ Evicts(age, held, k) /\ k < MaxCalls
       /\ held' = k + 1
  /\ age' = Append(age, 0)
  /\ pc' = "call"
  /\ UNCHANGED <<stage, attempt, stats, fates, verdict>>

\* acquire: a full window is slept out until its oldest call leaves it.
AcquireWaits ==
  /\ pc = "acquire"
  /\ \E k \in 0 .. held :
       /\ Evicts(age, held, k) /\ k >= MaxCalls
       /\ LET later == Older(age, Window - Latest(age, k)) IN
          \E j \in 0 .. k : /\ Evicts(later, k, j)
                            /\ held' = j + 1
                            /\ age' = Append(later, 0)
  /\ pc' = "call"
  /\ UNCHANGED <<stage, attempt, stats, fates, verdict>>

----------------------------------------------------------------------------
(* The audit of a run                                                      *)

\* futu_audit_outcome
AuditOutcome(st) ==
  IF \E s \in Stages : st[s].breaker \/ st[s].limitedCalls > 0 THEN "futu_rate_limited"
  ELSE IF \E s \in Stages : st[s].failed > 0 THEN "futu_symbol_fetch_failed"
  ELSE "success"

\* FutuStageStats.count_symbol
Counted(st, outcome) ==
  [st EXCEPT !.failed = @ + (IF outcome = "failed" THEN 1 ELSE 0),
             !.unsupported = @ + (IF outcome = "unsupported" THEN 1 ELSE 0),
             !.limited = @ + (IF outcome = "rate_limited" THEN 1 ELSE 0)]

\* The end of one symbol: counted, and the stage goes on unless its breaker tripped.
\* The dates are written after the last symbol; after the actuals the run is audited.
EndSymbol(st, outcome) ==
  /\ stats' = [stats EXCEPT ![stage] = Counted(st, outcome)]
  /\ fates' = [fates EXCEPT ![stage] = Append(@, outcome)]
  /\ attempt' = 0
  /\ pc' = IF st.breaker THEN "leave" ELSE "next"

----------------------------------------------------------------------------
(* futu_call, and what the stages make of its result                       *)

\* The call takes d, and so does the work on its answer.
Takes(d) == age' = Older(age, d)

\* One item of an income statement, by what its label and its data are worth.
Items == {"absent", "empty", "value", "drifted"}

\* read_statement_field: the first item of a preference order that is labelled as something else,
\* or has data.
ReadField(items) ==
  LET read == { i \in DOMAIN items : items[i] \in {"value", "drifted"} } IN
  IF read = {} THEN "none" ELSE items[CHOOSE i \in read : \A j \in read : i <= j]

\* sync_actuals: a field that has drifted fails the symbol (merge_outcome), whatever else is read.
StatementOutcome(eps, revenue) ==
  IF "drifted" \in {ReadField(eps), ReadField(<<revenue>>)} THEN "failed" ELSE "ok"

StatementOutcomes ==
  UNION { { StatementOutcome(eps, revenue) : revenue \in Items } : eps \in Items \X Items }

\* RET_OK: the run of refusals ends.  Reading the dates or writing a figure may still raise,
\* which fails the symbol.
Served(outcomes) ==
  /\ pc = "call"
  /\ \E d \in CallTimes : Takes(d)
  /\ \E outcome \in outcomes \cup {"failed"} :
       EndSymbol([stats[stage] EXCEPT !.consecutive = 0], outcome)
  /\ UNCHANGED <<held, stage, verdict>>

DatesServed == stage = "dates" /\ Served({"ok"})
ActualsServed == stage = "actuals" /\ Served(StatementOutcomes)

\* A refusal with retries left: cool_down sleeps a whole window and empties the tracker.
\* Mutant of RefusedRetry: the tracker is emptied without the wait.
RefusedRetryAtOnce ==
  /\ pc = "call" /\ attempt < Retries
  /\ \E d \in CallTimes : Takes(d)
  /\ held' = 0 /\ attempt' = attempt + 1
  /\ stats' = [stats EXCEPT ![stage].retries = @ + 1]
  /\ pc' = "acquire"
  /\ UNCHANGED <<stage, fates, verdict>>

\* Mutant of RefusedRetry: one retry more than configured.
RefusedRetryOnceMore ==
  /\ pc = "call" /\ attempt <= Retries
  /\ \E d \in CallTimes : Takes(d + Window)
  /\ held' = 0 /\ attempt' = attempt + 1
  /\ stats' = [stats EXCEPT ![stage].retries = @ + 1]
  /\ pc' = "acquire"
  /\ UNCHANGED <<stage, fates, verdict>>

RefusedRetry ==
  /\ pc = "call" /\ attempt < Retries
  /\ \E d \in CallTimes : Takes(d + Window)
  /\ held' = 0 /\ attempt' = attempt + 1
  /\ stats' = [stats EXCEPT ![stage].retries = @ + 1]
  /\ pc' = "acquire"
  /\ UNCHANGED <<stage, fates, verdict>>

\* The last refusal counts towards the breaker.
RefusedFinally ==
  /\ pc = "call" /\ attempt >= Retries
  /\ \E d \in CallTimes : Takes(d)
  /\ LET st == [stats[stage] EXCEPT !.limitedCalls = @ + 1, !.consecutive = @ + 1] IN
     EndSymbol([st EXCEPT !.breaker = @ \/ st.consecutive >= Breaker], "rate_limited")
  /\ UNCHANGED <<held, stage, verdict>>

\* Any other refusal, an exception of the call or its watchdog: the counter of refusals stays.
NotServed ==
  /\ pc = "call"
  /\ \E d \in CallTimes : Takes(d)
  /\ \E outcome \in {"unsupported", "failed"} : EndSymbol(stats[stage], outcome)
  /\ UNCHANGED <<held, stage, verdict>>

----------------------------------------------------------------------------
(* The stages and the run                                                  *)

\* create_futu_context: the run starts, or is skipped when OpenD cannot be reached.
Connect ==
  /\ pc = "connect"
  /\ \/ pc' = "next" /\ UNCHANGED verdict
     \/ pc' = "done" /\ verdict' = "opend_unavailable"
  /\ UNCHANGED <<age, held, stage, attempt, stats, fates>>

\* The head of the loop over the symbols.
NextSymbol ==
  /\ pc = "next" /\ stats[stage].attempted < NSymbols
  /\ stats' = [stats EXCEPT ![stage].attempted = @ + 1]
  /\ pc' = "acquire"
  /\ UNCHANGED <<age, held, stage, attempt, fates, verdict>>

\* Mutant of LastSymbol: the stage leaves one symbol early.
LastSymbolEarly ==
  /\ pc = "next" /\ stats[stage].attempted >= NSymbols - 1
  /\ pc' = "leave"
  /\ UNCHANGED <<age, held, stage, attempt, stats, fates, verdict>>

LastSymbol ==
  /\ pc = "next" /\ stats[stage].attempted = NSymbols
  /\ pc' = "leave"
  /\ UNCHANGED <<age, held, stage, attempt, stats, fates, verdict>>

\* The dates stage writes its batch and the actuals begin, with counters of their own.
LeaveDates ==
  /\ pc = "leave" /\ stage = "dates"
  /\ stage' = "actuals" /\ pc' = "next"
  /\ UNCHANGED <<age, held, attempt, stats, fates, verdict>>

LeaveActuals ==
  /\ pc = "leave" /\ stage = "actuals"
  /\ verdict' = AuditOutcome(stats)
  /\ pc' = "done"
  /\ UNCHANGED <<age, held, stage, attempt, stats, fates>>

\* An admin's cancel is met at the head of the loop; so is a failing heartbeat.  Writing the
\* dates may raise as well.
StageRaises ==
  /\ \/ pc = "next" /\ stats[stage].attempted < NSymbols
          /\ verdict' \in {"cancelled_by_admin", "futu_sync_failed"}
     \/ pc = "leave" /\ stage = "dates" /\ verdict' = "futu_sync_failed"
  /\ pc' = "done"
  /\ UNCHANGED <<age, held, stage, attempt, stats, fates>>

\* A BaseException (a signal, a kill that unwinds) outside every handler.
Interrupted ==
  /\ pc \notin {"connect", "done"}
  /\ verdict' = "futu_sync_interrupted" /\ pc' = "done"
  /\ UNCHANGED <<age, held, stage, attempt, stats, fates>>

Next ==
  \/ Connect \/ NextSymbol \/ LastSymbol \/ LeaveDates \/ LeaveActuals
  \/ AcquireFree \/ AcquireWaits
  \/ DatesServed \/ ActualsServed \/ RefusedRetry \/ RefusedFinally \/ NotServed
  \/ StageRaises \/ Interrupted

Spec == Init /\ [][Next]_vars

----------------------------------------------------------------------------
(* Properties                                                              *)

StageStats == [attempted : Nat, failed : Nat, unsupported : Nat, limited : Nat,
               limitedCalls : Nat, retries : Nat, consecutive : Nat, breaker : BOOLEAN]

Verdicts == {Running, "success", "futu_rate_limited", "futu_symbol_fetch_failed",
             "futu_sync_failed", "cancelled_by_admin", "futu_sync_interrupted",
             "opend_unavailable"}

\* Types, and the tracker holds calls that were made.
TypeOK ==
  /\ age \in Seq(0 .. Window) /\ held \in 0 .. Len(age)
  /\ stage \in Stages
  /\ pc \in {"connect", "next", "acquire", "call", "leave", "done"}
  /\ attempt \in 0 .. Retries
  /\ stats \in [Stages -> StageStats]
  /\ fates \in [Stages -> Seq(Outcomes)]
  /\ verdict \in Verdicts

\* No window, wherever it starts, holds more calls than the budget: when one more than
\* MaxCalls were made, the first of them is a window old (FutuRateLimiter, whose tracker is
\* emptied on every refusal and asked whether it is full only before it sleeps).
WindowQuota == \A i \in 1 .. Len(age) - MaxCalls : age[i] = Window

\* A retry is made with a whole window behind every earlier call, so that it cannot be refused
\* for what this process did (futu_call, cool_down).
RetryWaitsAWindow ==
  pc = "call" /\ attempt > 0 => \A i \in 1 .. Len(age) - 1 : age[i] = Window

Fates(s) == { fates[s][i] : i \in 1 .. Len(fates[s]) }

\* The audited verdict is what happened: a success fetched every symbol of both stages or found
\* it unsupported, a quota verdict saw a refusal no retry overcame, and symbols are blamed only
\* when there was none (futu_audit_outcome, count_symbol, the early exits of the stages).
VerdictIsHonest ==
  /\ verdict = "success" =>
       \A s \in Stages : Len(fates[s]) = NSymbols /\ Fates(s) \subseteq {"ok", "unsupported"}
  /\ verdict = "futu_rate_limited" =>
       \E s \in Stages : "rate_limited" \in Fates(s)
  /\ verdict = "futu_symbol_fetch_failed" =>
       /\ \E s \in Stages : "failed" \in Fates(s)
       /\ \A s \in Stages : "rate_limited" \notin Fates(s) /\ Len(fates[s]) = NSymbols

=============================================================================
