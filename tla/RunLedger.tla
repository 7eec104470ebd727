----------------------------- MODULE RunLedger -----------------------------
(***************************************************************************)
(* What the audit table sync_runs promises its readers (the freshness      *)
(* report, the admin pages, the next scheduled round), with nothing of how *)
(* stage processes, the reaper and the admin endpoints keep the promise:   *)
(*                                                                         *)
(*   - a run is opened once and closed once, and its verdict is final;     *)
(*   - a stage that owns an idempotency key has at most one open run;      *)
(*   - a retry request is fulfilled once, by a run of the stage it names.  *)
(***************************************************************************)
EXTENDS Naturals

CONSTANTS
  Stages,       \* the sync stages
  KeyedStages,  \* the stages whose runs carry an idempotency key
  Ids,          \* row identifiers
  Verdicts      \* the terminal values of sync_runs.status

VARIABLE ledger

Absent == [kind |-> "absent"]

OpenRun(s)       == [kind |-> "run", stage |-> s, verdict |-> "running"]
ClosedRun(s, v)  == [kind |-> "run", stage |-> s, verdict |-> v]
Pending(s)       == [kind |-> "request", stage |-> s, by |-> 0]
Fulfilled(s, r)  == [kind |-> "request", stage |-> s, by |-> r]

IsOpen(r, s)     == ledger[r] = OpenRun(s)
IsRunOf(r, s)    == \E v \in Verdicts \cup {"running"} : ledger[r] = ClosedRun(s, v)

LedgerInit == ledger = [r \in Ids |-> Absent]

\* A stage opens a run: a keyed stage only when none of its runs is open.
Open(r, s) ==
  /\ ledger[r] = Absent
  /\ s \in KeyedStages => \A q \in Ids : ~ IsOpen(q, s)
  /\ ledger' = [ledger EXCEPT ![r] = OpenRun(s)]

OpenRuns == {r \in Ids : \E s \in Stages : IsOpen(r, s)}

\* Any set of open runs is closed, all with one verdict.
Close(R, v) ==
  /\ R \subseteq OpenRuns
  /\ ledger' = [r \in Ids |-> IF r \in R THEN ClosedRun(ledger[r].stage, v)
                                         ELSE ledger[r]]

\* An admin asks for one more run of a stage.
Ask(q, s) ==
  /\ ledger[q] = Absent
  /\ ledger' = [ledger EXCEPT ![q] = Pending(s)]

\* A run of the stage fulfils every pending request of that stage.
Fulfil(r, s) ==
  /\ IsRunOf(r, s)
  /\ ledger' = [q \in Ids |-> IF ledger[q] = Pending(s) THEN Fulfilled(s, r)
                                                        ELSE ledger[q]]

LedgerNext ==
  \/ \E r \in Ids, s \in Stages : Open(r, s) \/ Ask(r, s) \/ Fulfil(r, s)
  \/ \E R \in SUBSET OpenRuns, v \in Verdicts : Close(R, v)

LedgerSpec == LedgerInit /\ [][LedgerNext]_ledger
============================================================================
