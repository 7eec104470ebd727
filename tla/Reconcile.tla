------------------------------ MODULE Reconcile ------------------------------
(***************************************************************************)
(* The repairs an operator runs over one symbol's earnings of older        *)
(* releases (scripts/): reconcile_fiscal_rows, reconcile_same_date_rows,   *)
(* reconcile_fiscal_labels and backfill_report_types.  None of them takes  *)
(* the lock of the pipeline, so a sync may write between their statements. *)
(*                                                                         *)
(* Rows are those of ReadPath with an id and the source of their date.     *)
(* Half-year and annual disclosures are one type; a period is a quarter of *)
(* one fiscal year.  The figures of a row are one figure.                  *)
(***************************************************************************)
EXTENDS ReadPath, SequencesExt

CONSTANTS
  Tables,      \* tables of older releases: sets of rows
  Answers,     \* what Longbridge's calendar may hold: sets of events [date, type, period]
  MatchDays,   \* RELEASE_MATCH_DAYS (14)
  Now,         \* the day
  MaxJobs,     \* bound: scripts run
  MaxSyncs     \* bound: rows written by the pipeline

Instant == 10    \* microseconds, far fewer than in truth, between two syncs

\* The disclosures are "A".  Figures are told apart by what they are the total of; "new" is one
\* that a sync brought.
ReportTypes == {"Q", "A"}
OldFigures == {"none", "quarter", "annual", "new"}
StoredRow ==
  [id : Nat \ {0}, date : Int, type : ReportTypes, period : Nat, act : OldFigures,
   is_predicted : BOOLEAN, source : STRING]

ASSUME ReconcileAssumption ==
  /\ \A rs \in Tables : /\ rs \subseteq StoredRow /\ IsFiniteSet(rs)
                        /\ \A r, s \in rs : r.id = s.id \/ (r.date = s.date /\ r.type = s.type) => r = s
  /\ \A es \in Answers : es \subseteq [date : Int, type : ReportTypes, period : Nat]
  /\ Now \in Int /\ MatchDays \in Nat /\ MaxJobs \in Nat /\ MaxSyncs \in Nat

VARIABLES
  stored, snaps,   \* earnings, and earnings_estimate_snapshots: [id, of, at]
  backup,        \* the table each script keeps of the rows it changes or removes
  calendar,      \* what Longbridge answers
  job,           \* the script that runs
  jobs, syncs    \* scripts started, rows synced

reconcileVars == <<stored, snaps, backup, calendar, job, jobs, syncs>>

Idle == [kind |-> "none"]
Ids(rs) == {r.id : r \in rs}
Confirmed(rs) == {r \in rs : ~ r.is_predicted}
Twins(rs) == {p \in Confirmed(rs) \X Confirmed(rs) :
                p[1].id # p[2].id /\ p[1].period # 0 /\ p[1].period = p[2].period}
Only(s) == CHOOSE x \in s : TRUE

\* The unique keys of the two tables, before the identity index exists.
KeysHold(rs) == \A r, s \in rs : r.date = s.date /\ r.type = s.type => r = s
SnapshotsHold(ss) == \A s, t \in ss : s.of = t.of /\ s.at = t.at => s = t
Legal(rs, ss) == KeysHold(rs) /\ SnapshotsHold(ss)

\* A script is started, or another one when it has nothing to do.
Started(kind, pc, plans) ==
  [kind |-> kind, pc |-> pc, plans |-> plans, planned |-> syncs, carried |-> syncs,
   before |-> [stored |-> stored, snaps |-> snaps, backup |-> backup]]
MayStart == job = Idle /\ jobs < MaxJobs /\ jobs' = jobs + 1

----------------------------------------------------------------------------
(* Merges                                                                  *)

\* Mutant of FiscalPlans: the newest row of a period stays.
FiscalPlansNewest ==
  LET group(p) == {r \in Confirmed(stored) : r.period = p}
      newest(p) == {r \in group(p) : \A s \in group(p) : s.id <= r.id} IN
  {[survivor |-> Only(newest(p)), dropped |-> group(p) \ newest(p)] :
     p \in {q \in PeriodsOf(Confirmed(stored)) : Cardinality(group(q)) > 1}}

\* load_plans: the row the calendar shows of a confirmed period stays.
FiscalPlans ==
  LET group(p) == {r \in Confirmed(stored) : r.period = p}
      shown(p) == Only(Leading(group(p))) IN
  {[survivor |-> shown(p), dropped |-> group(p) \ {shown(p)}] :
     p \in {q \in PeriodsOf(Confirmed(stored)) : Cardinality(group(q)) > 1}}

\* load_groups: the release of a date with two confirmed rows stays.
SameDatePlans ==
  LET group(d) == {r \in stored : r.date = d} IN
  {[survivor |-> Only({r \in group(d) : ~ Disclosing(r)}),
    dropped  |-> {r \in group(d) : Disclosing(r)}] :
     d \in {r.date : r \in {q \in Confirmed(stored) : /\ Cardinality(Confirmed(group(q.date))) > 1
                                                    /\ ~ Disclosing(q)}}}

StartFiscalMerge ==
  /\ MayStart /\ FiscalPlans # {}
  /\ job' = Started("fiscal", "carry", FiscalPlans)
  /\ UNCHANGED <<stored, snaps, backup, calendar, syncs>>

\* The plan is made in a transaction of its own.
StartSameDateMerge ==
  /\ MayStart
  /\ job' = Started("same_date", "planned", SameDatePlans)
  /\ UNCHANGED <<stored, snaps, backup, calendar, syncs>>

\* apply_plan of the same-date merge makes a new backup table.
BeginSameDateMerge ==
  /\ job.kind = "same_date" /\ job.pc = "planned"
  /\ job' = IF job.plans = {} THEN Idle
            ELSE [job EXCEPT !.pc = "carry", !.before = [stored |-> stored, snaps |-> snaps, backup |-> backup]]
  /\ backup' = [backup EXCEPT !.same_date = {}]
  /\ UNCHANGED <<stored, snaps, calendar, jobs, syncs>>

Plan == Only(job.plans)

\* _free_microsecond
FreeInstant(at, taken) ==
  CHOOSE t \in at + 1 .. at + Instant : t \notin taken /\ \A u \in at + 1 .. t - 1 : u \in taken

\* Mutant of Repointed: a snapshot whose instant is taken stays behind.
RepointedPlain(ss, survivor, dropped) ==
  LET taken == {s.at : s \in {t \in ss : t.of = survivor}} IN
  {IF s.of \in dropped /\ s.at \notin taken THEN [s EXCEPT !.of = survivor] ELSE s : s \in ss}

\* _repoint_snapshots: those whose instant the survivor has are moved, one after the
\* other, to the next free one.  taken knows of the survivor's only.
Repointed(ss, survivor, dropped) ==
  LET own   == {s \in ss : s.of = survivor}
      moved == {s \in ss : s.of \in dropped}
      taken == {s.at : s \in own}
      colliding == {s \in moved : s.at \in taken}
      order == SetToSortSeq(colliding, LAMBDA s, t : s.of < t.of \/ (s.of = t.of /\ s.id < t.id))
      step(acc, s) == LET t == FreeInstant(s.at, acc.taken) IN
                      [taken |-> acc.taken \cup {t}, free |-> acc.free @@ (s :> t)]
      free == FoldLeft(step, [taken |-> taken, free |-> <<>>], order).free
  IN (ss \ moved) \cup {[s EXCEPT !.of = survivor] : s \in moved \ colliding}
     \cup {[s EXCEPT !.of = survivor, !.at = free[s]] : s \in colliding}

\* merged_values: what the survivor lacked when the plan was made.
Filled(r, plan) ==
  LET given == {d \in plan.dropped : Reported(d)} IN
  IF r.id = plan.survivor.id /\ ~ Reported(plan.survivor) /\ given # {}
    THEN [r EXCEPT !.act = Only(given).act] ELSE r

BackedUp(plan) == {r \in stored : r.id \in Ids(plan.dropped)}

\* Both apply_plan, up to the DELETE.  A unique violation ends the script and takes
\* every group of the transaction with it.
Carry ==
  /\ job # Idle /\ job.pc = "carry"
  /\ LET moved == Repointed(snaps, Plan.survivor.id, Ids(Plan.dropped)) IN
     IF Legal(stored, moved)
       THEN /\ backup' = [backup EXCEPT ![job.kind] = @ \cup BackedUp(Plan)]
            /\ stored' = IF job.kind = "same_date" THEN {Filled(r, Plan) : r \in stored} ELSE stored
            /\ snaps' = moved
            /\ job' = [job EXCEPT !.pc = "remove", !.carried = syncs]
       ELSE /\ stored' = job.before.stored /\ snaps' = job.before.snaps /\ backup' = job.before.backup
            /\ job' = Idle
  /\ UNCHANGED <<calendar, jobs, syncs>>

\* The DELETE cascades to the snapshots.  The last one is followed by the COMMIT.
RemoveDropped ==
  /\ job # Idle /\ job.pc = "remove"
  /\ LET gone == {r \in stored : r.id \in Ids(Plan.dropped) /\ (job.kind = "fiscal" => ~ r.is_predicted)} IN
     /\ stored' = stored \ gone
     /\ snaps' = {s \in snaps : s.of \notin Ids(gone)}
  /\ job' = IF job.plans = {Plan} THEN Idle
            ELSE [job EXCEPT !.pc = "carry", !.plans = @ \ {Plan}]
  /\ UNCHANGED <<backup, calendar, jobs, syncs>>

----------------------------------------------------------------------------
(* Labels and types                                                        *)

Releases == {e \in calendar : e.type = "Q" /\ e.period # 0}
Distance(a, b) == IF a > b THEN a - b ELSE b - a

\* _nearest_release, by distance and then by date.
NearestRelease(r) ==
  LET near == {e \in Releases : Distance(e.date, r.date) <= MatchDays} IN
  {e \in near : \A f \in near : \/ Distance(e.date, r.date) < Distance(f.date, r.date)
                                \/ Distance(e.date, r.date) = Distance(f.date, r.date) /\ e.date <= f.date}

\* _bracketed_q2
Bracketed(r) ==
  /\ r.period = 4
  /\ \E e, f \in Releases : e.period = 1 /\ e.date < r.date /\ f.period = 3 /\ f.date > r.date

\* inconsistent_group_keys: a later quarter stands before an earlier one.
Inconsistent(rs) ==
  \E l, r \in Confirmed(rs) : r.period # 0 /\ l.period > r.period /\ l.date < r.date

\* build_proposals: the period a row should have, if another than it has.
Proposed(r) ==
  LET other == {e.period : e \in NearestRelease(r)} \ {r.period} IN
  IF other # {} THEN Only(other) ELSE IF Bracketed(r) THEN 2 ELSE r.period
Proposals ==
  IF ~ Inconsistent(stored) THEN {}
  ELSE {r \in Confirmed(stored) : r.source = "longbridge" /\ r.period # 0 /\ Proposed(r) # r.period}

\* A target that another confirmed row holds is left to the merge.
Eligible == {r \in Proposals : ~ \E h \in Confirmed(stored) : h.id # r.id /\ h.period = Proposed(r)}

\* Mutant of Winners: each proposal by itself.
EveryProposal == Eligible

\* Of several rows with one target the authoritative one gets it.
Winners ==
  {r \in Eligible : \A s \in Eligible : Proposed(s) = Proposed(r) /\ s # r =>
                      Ahead(r, s) \/ (~ Ahead(s, r) /\ r.id > s.id)}

\* reconcile_fiscal_labels, whose rows are locked from the first look on.
Relabel ==
  /\ MayStart /\ Proposals # {}
  /\ backup' = [backup EXCEPT !.labels = @ \cup Winners]
  /\ stored' = (stored \ Winners) \cup {[r EXCEPT !.period = Proposed(r)] : r \in Winners}
  /\ UNCHANGED <<snaps, calendar, job, syncs>>

\* provider_report_types: a release claims its date.
TypeAt(d) ==
  LET types == {e.type : e \in {f \in calendar : f.date = d}} IN
  IF "Q" \in types THEN {"Q"} ELSE types

\* plan_changes
Retypes == {r \in Confirmed(stored) : r.period # 0 /\ TypeAt(r.date) # {} /\ r.type \notin TypeAt(r.date)}
StartTypes ==
  /\ MayStart /\ Retypes # {}
  /\ job' = Started("types", "planned", Retypes)
  /\ UNCHANGED <<stored, snaps, backup, calendar, syncs>>

\* Mutant of ApplyTypes: row by row, and nothing looks at the key.
ApplyTypesUnchecked ==
  /\ job.kind = "types"
  /\ stored' = {IF r.id \in Ids(job.plans) THEN [r EXCEPT !.type = Only(TypeAt(r.date))] ELSE r : r \in stored}
  /\ job' = Idle
  /\ UNCHANGED <<snaps, backup, calendar, jobs, syncs>>

\* apply_changes: one UPDATE, which a key that is held undoes as a whole.
ApplyTypes ==
  /\ job.kind = "types"
  /\ LET retyped == {IF r.id \in Ids(job.plans) THEN [r EXCEPT !.type = Only(TypeAt(r.date))] ELSE r :
                       r \in stored} IN
     IF Legal(retyped, snaps)
       THEN stored' = retyped /\ backup' = [backup EXCEPT !.types = @ \cup {r \in stored : r.id \in Ids(job.plans)}]
       ELSE UNCHANGED <<stored, backup>>
  /\ job' = Idle
  /\ UNCHANGED <<snaps, calendar, jobs, syncs>>

----------------------------------------------------------------------------
\* The clock is past the microseconds that a merge, done or undone, has given away.
Past(at) == \A s \in snaps \cup (IF job = Idle THEN {} ELSE job.before.snaps) : s.at < at

\* The pipeline writes a figure and a snapshot of a row that no script has locked.
SyncWrites(r) ==
  LET figure(rs) == {IF s.id = r.id THEN [s EXCEPT !.act = "new"] ELSE s : s \in rs}
      snap == [id |-> 100 + syncs, of |-> r.id, at |-> (syncs + 2) * Instant]
  IN /\ syncs < MaxSyncs /\ syncs' = syncs + 1 /\ Past(snap.at)
     /\ job # Idle => r \in job.before.stored \/ job.pc = "planned"
     /\ stored' = figure(stored) /\ snaps' = snaps \cup {snap}
     /\ job' = IF job = Idle THEN job
               ELSE [job EXCEPT !.before.stored = figure(@), !.before.snaps = @ \cup {snap}]
     /\ UNCHANGED <<backup, calendar, jobs>>

\* One earlier sync has left a snapshot of some of the rows.
ReconcileInit ==
  /\ stored \in Tables /\ calendar \in Answers
  /\ \E of \in SUBSET Ids(stored) : snaps = {[id |-> i, of |-> i, at |-> Instant] : i \in of}
  /\ backup = [fiscal |-> {}, same_date |-> {}, labels |-> {}, types |-> {}] /\ job = Idle /\ jobs = 0 /\ syncs = 0

ReconcileNext ==
  \/ StartFiscalMerge \/ StartSameDateMerge \/ BeginSameDateMerge \/ Carry \/ RemoveDropped
  \/ Relabel \/ StartTypes \/ ApplyTypes
  \/ \E r \in stored : SyncWrites(r)

ReconcileSpec == ReconcileInit /\ [][ReconcileNext]_reconcileVars

----------------------------------------------------------------------------
(* Properties                                                              *)

\* The unique keys hold, and every snapshot has its row.
ReconcileTypeOK ==
  /\ Legal(stored, snaps) /\ \A s \in snaps : s.of \in Ids(stored)
  /\ jobs \in 0 .. MaxJobs /\ syncs \in 0 .. MaxSyncs

\* "no history is lost": no merge loses a snapshot, but one that a sync wrote to a dropped row
\* after its snapshots were moved away, which the DELETE takes with it.
SnapshotsStay ==
  \A s \in snaps : s.id \in Ids(snaps') \/ (job.pc = "remove" /\ s.id >= 100 + job.carried)

\* A row with a figure of its own keeps it, unless a sync replaces it: no merge puts the
\* total of a disclosure over it.  (A plan older than the figure does, and a merge that is
\* rolled back takes its own back.)
OwnFiguresStay ==
  \A r \in stored, s \in stored' :
    r.id = s.id /\ Reported(r) /\ s.act # r.act =>
      syncs' > syncs \/ syncs > job.planned \/ (job.pc = "carry" /\ s \in job.before.stored)

\* Every row that goes is in a backup with the figure it had when the merge came to it.
RemovedAreBackedUp ==
  \A r \in stored : r.id \notin Ids(stored') =>
    \E b \in backup'[job.kind] : b.id = r.id /\ (b.act = r.act \/ syncs > job.carried)

\* What the repairs promise of the data they do not mean to change, under syncs that take no
\* notice of them.
RepairsLoseNothing ==
  [][SnapshotsStay /\ OwnFiguresStay /\ RemovedAreBackedUp]_reconcileVars

\* New labels give no period a second confirmed row.
LabelsAddNoTwins ==
  [][job = Idle /\ jobs' > jobs => Cardinality(Twins(stored')) <= Cardinality(Twins(stored))]_reconcileVars

\* "running --apply does not change what users see": the merge of fiscal periods leaves the
\* calendar as it was in a window that holds every row, if no sync wrote meanwhile and no
\* figure is ahead of its day.
WholeCalendars(t) == Views({Masked(r, Now) : r \in t})
MergesKeepTheView ==
  [][job # Idle /\ job'= Idle /\ job.kind = "fiscal" /\ syncs = job.planned
     /\ (\A r \in job.before.stored : Reported(r) => r.date <= Now)
     => WholeCalendars(stored') = WholeCalendars(job.before.stored)]_reconcileVars

=============================================================================
