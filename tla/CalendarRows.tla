---------------------------- MODULE CalendarRows ----------------------------
(***************************************************************************)
(* The table earnings of one symbol and everyone who writes its identities *)
(* (date, report type, fiscal period, confirmed or predicted) and figures: *)
(* the Longbridge stage, the Futu stage and the prediction stage.          *)
(*                                                                         *)
(* A batch of a provider is one transaction that runs several passes over  *)
(* its events; one action is the turn of one event in one pass, and nobody *)
(* else writes while the transaction is open.  The other writers commit    *)
(* every statement they issue, so that batches fall between them.          *)
(*                                                                         *)
(* One symbol stands for all: no rule relates the rows of two.  Names,     *)
(* sessions (before_after), statuses and timestamps are left out.          *)
(***************************************************************************)
EXTENDS Naturals, FiniteSets, Sequences

CONSTANTS
  Dates,        \* days, in order
  Periods,      \* fiscal periods of the symbol, in order
  Responses,    \* what Longbridge may answer: sequences of events
  FutuAnswers,  \* what Futu may answer: sequences of events
  Retention,    \* days a prediction outlives its date (60)
  MaxRows       \* bound: rows ever inserted

NoPeriod    == 0                  \* fiscal_year and fiscal_quarter are NULL
ReportTypes == {"Q", "H", "A"}
Providers   == {"longbridge", "futu"}

\* est and act say whether the event carries an estimate and an actual.
Event == [date : Dates, type : ReportTypes, period : Periods \cup {NoPeriod},
          est : BOOLEAN, act : BOOLEAN]

ASSUME CalendarAssumption ==
  /\ Dates \subseteq Nat /\ Periods \subseteq Nat \ {NoPeriod}
  /\ Responses \subseteq Seq(Event) /\ FutuAnswers \subseteq Seq(Event)
  /\ Retention \in Nat /\ MaxRows \in Nat

VARIABLES
  earnings,   \* the rows
  ids,        \* ids drawn so far
  today,      \* CURRENT_DATE
  txn,        \* the provider batch being written
  run         \* the prediction run

vars == <<earnings, ids, today, txn, run>>

\* A row.  act is the provider of the stored actual and actual_source the label
\* beside it; EPS and revenue are one figure.  An estimate is Longbridge's and
\* labelled so by the transaction that writes it, so est alone stands for both.
Row == [id : 1 .. MaxRows, date : Dates, type : ReportTypes,
        period : Periods \cup {NoPeriod}, is_predicted : BOOLEAN,
        est : BOOLEAN, act : Providers \cup {"none"},
        actual_source : Providers \cup {"none"},
        date_source : Providers \cup {"unknown", "algorithm"}]

\* A half-year or annual disclosure, as opposed to a quarterly release.
is_disclosure(x) == x.type \in {"H", "A"}
SameKey(x, y)    == x.date = y.date /\ x.type = y.type
SamePeriod(x, y) == x.period # NoPeriod /\ x.period = y.period

\* The two unique keys: (report_date, report_type), and the fiscal period of
\* the confirmed rows (idx_earnings_fiscal_identity).
Keyed(t) ==
  \A r, s \in t : r # s => /\ r.id # s.id
                           /\ ~ SameKey(r, s)
                           /\ SamePeriod(r, s) => r.is_predicted \/ s.is_predicted

\* Mutant of Guarded: the constraint is not there.
Unguarded(t, u) == u

\* A statement under a savepoint: a unique violation undoes it.
Guarded(t, u) == IF Keyed(u) THEN u ELSE t

Fill(old, new) == IF old = NoPeriod THEN new ELSE old

----------------------------------------------------------------------------
(* What a batch keeps of a response                                        *)

\* How much an event carries.
Score(e) == Cardinality({x \in {"est", "act"} : e[x]}) + (IF e.period = NoPeriod THEN 0 ELSE 2)

\* dedupe_batch: of the events of one natural key, the first that carries most.
Deduped(b) ==
  {i \in DOMAIN b : ~ \E j \in DOMAIN b :
     /\ SameKey(b[i], b[j])
     /\ Score(b[j]) > Score(b[i]) \/ (Score(b[j]) = Score(b[i]) /\ j < i)}

\* collapse_rows_by_period: a release beats a disclosure, then the later date,
\* then the first.
Beats(b, j, i) ==
  /\ SamePeriod(b[i], b[j])
  /\ \/ ~ is_disclosure(b[j]) /\ is_disclosure(b[i])
     \/ /\ is_disclosure(b[j]) <=> is_disclosure(b[i])
        /\ b[j].date > b[i].date \/ (b[j].date = b[i].date /\ j < i)
Collapsed(b, S) == {i \in S : ~ \E j \in S : Beats(b, j, i)}

----------------------------------------------------------------------------
(* The provider transaction                                                *)

NoTxn == [pc |-> "none"]
Open  == txn # NoTxn
In(pc) == Open /\ txn.pc = pc

\* The event whose turn it is.
IsNext(i) == i \in txn.todo /\ \A j \in txn.todo : i <= j

\* Its turn is over in the transaction x; keep says whether the pass leaves it to
\* the next one.  A pass that leaves nothing to write ends the batch.
Turn(x, i, keep, next) ==
  LET kept == IF keep THEN x.kept \cup {i} ELSE x.kept
      rest == x.todo \ {i}
  IN txn' = CASE rest # {}                       -> [x EXCEPT !.todo = rest, !.kept = kept]
              [] rest = {} /\ kept = {}          -> NoTxn
              [] rest = {} /\ kept # {} /\ next = "commit" -> NoTxn
              [] OTHER -> [x EXCEPT !.pc = next, !.todo = kept, !.kept = {}]

\* flush_batch and flush_date_batch begin with what is left of the response.
Begin(source, b) ==
  /\ ~ Open
  /\ txn' = [pc |-> "reschedule", source |-> source, batch |-> b,
             todo |-> Collapsed(b, IF source = "longbridge" THEN Deduped(b) ELSE DOMAIN b),
             kept |-> {}, takeover |-> source = "longbridge", single |-> FALSE,
             before |-> earnings]
  /\ UNCHANGED <<earnings, ids, today, run>>

\* Any other database error: the whole batch is rolled back and counted.
Fail ==
  /\ Open
  /\ earnings' = txn.before
  /\ txn' = NoTxn
  /\ UNCHANGED <<ids, today, run>>

\* _TAKEOVER_ASSIGNMENT, or the plain change of date.
Redated(w, e, takes) ==
  IF takes THEN [w EXCEPT !.date = e.date, !.type = e.type, !.est = @ \/ e.est,
                          !.act = IF e.act THEN "longbridge" ELSE @]
           ELSE [w EXCEPT !.date = e.date]

\* Mutant of Rescheduled: any prediction on the target key is removed.
RescheduledOverAny(t, w, e, takes) ==
  LET holder == {h \in t : SameKey(h, e) /\ w.date # e.date}
      stale  == {h \in holder : h.is_predicted}
  IN IF holder \ stale # {} THEN t
     ELSE Guarded(t, (t \ (stale \cup {w})) \cup {Redated(w, e, takes)})

\* The period's confirmed row w goes to the date of the event e.  Another row on
\* the target key blocks it, unless it is the period's own prediction, which
\* is removed; a takeover that stays on its date looks for neither.
Rescheduled(t, w, e, takes) ==
  LET holder == {h \in t : SameKey(h, e) /\ w.date # e.date}
      stale  == {h \in holder : h.is_predicted /\ SamePeriod(h, e)}
  IN IF holder \ stale # {} THEN t
     ELSE Guarded(t, (t \ (stale \cup {w})) \cup {Redated(w, e, takes)})

\* Nothing is stored for the period of the event, if it has one.
RescheduleNothing(i) ==
  /\ In("reschedule")
  /\ IsNext(i)
  /\ ~ \E w \in earnings : ~ w.is_predicted /\ SamePeriod(w, txn.batch[i])
  /\ Turn(txn, i, TRUE, IF txn.source = "longbridge" THEN "settle" ELSE "upsert")
  /\ UNCHANGED <<earnings, ids, today, run>>

\* reschedule_confirmed_rows, one event whose period has a confirmed row.
\* Futu's event takes the type of that row.  A disclosure does not touch a
\* release.  takeover, once lost, is lost for the rest of the batch.
Reschedule(i) ==
  /\ In("reschedule")
  /\ IsNext(i)
  /\ \E w \in earnings :
       /\ ~ w.is_predicted /\ SamePeriod(w, txn.batch[i])
       /\ LET e     == IF txn.source = "futu" THEN [txn.batch[i] EXCEPT !.type = w.type]
                                              ELSE txn.batch[i]
              takes == txn.takeover /\ ~ is_disclosure(e) /\ is_disclosure(w)
              next  == IF txn.source = "longbridge" THEN "settle" ELSE "upsert"
          IN \/ /\ is_disclosure(e) /\ ~ is_disclosure(w)
                /\ Turn(txn, i, FALSE, next)
                /\ UNCHANGED earnings
             \/ /\ is_disclosure(e) => is_disclosure(w)
                /\ Turn([txn EXCEPT !.batch[i] = e, !.takeover = takes], i, TRUE, next)
                /\ earnings' = Rescheduled(earnings, w, e, takes)
  /\ UNCHANGED <<ids, today, run>>

\* settle_same_date_rows, one event: a disclosure yields to a release of its date,
\* in the batch or stored; a release promotes the only row of its date when
\* that is a confirmed disclosure.
Settle(i) ==
  /\ In("settle")
  /\ IsNext(i)
  /\ LET e == txn.batch[i]
         releases    == {r \in earnings : r.date = e.date /\ ~ is_disclosure(r)}
         disclosures == {r \in earnings : r.date = e.date /\ is_disclosure(r)}
         batchmates  == {j \in txn.todo \cup txn.kept :
                           txn.batch[j].date = e.date /\ ~ is_disclosure(txn.batch[j])}
         promoted    == {[r EXCEPT !.type = e.type, !.period = Fill(@, e.period)] : r \in disclosures}
         promotes    == /\ ~ is_disclosure(e) /\ releases = {}
                        /\ Cardinality(disclosures) = 1 /\ \A r \in disclosures : ~ r.is_predicted
     IN /\ Turn(txn, i, is_disclosure(e) => releases = {} /\ batchmates = {}, "upsert")
        /\ earnings' = IF promotes THEN Guarded(earnings, (earnings \ disclosures) \cup promoted)
                                   ELSE earnings
  /\ UNCHANGED <<ids, today, run>>

\* Mutant of Merged: the period of the event replaces the stored one.
MergedPeriod(r, e, source) ==
  [r EXCEPT !.period       = Fill(e.period, @),
            !.est          = @ \/ e.est,
            !.act          = IF e.act THEN "longbridge" ELSE @,
            !.is_predicted = @ /\ r.period # e.period,
            !.date_source  = IF source = "futu" THEN "futu" ELSE @]

\* INSERT ... ON CONFLICT (report_date, report_type) DO UPDATE of both stages.  The
\* stored period wins; a prediction is confirmed by an event of its own period.
Merged(r, e, source) ==
  [r EXCEPT !.period       = Fill(@, e.period),
            !.est          = @ \/ e.est,
            !.act          = IF e.act THEN "longbridge" ELSE @,
            !.is_predicted = @ /\ r.period # e.period,
            !.date_source  = IF source = "futu" THEN "futu" ELSE @]
Inserted(e, source) ==
  [id |-> ids + 1, date |-> e.date, type |-> e.type, period |-> e.period,
   is_predicted |-> FALSE, est |-> e.est, act |-> IF e.act THEN "longbridge" ELSE "none",
   actual_source |-> "none", date_source |-> IF source = "futu" THEN "futu" ELSE "unknown"]
Upserted(t, e, source) ==
  LET held == {r \in t : SameKey(r, e)} IN
  IF held = {} THEN t \cup {Inserted(e, source)}
               ELSE (t \ held) \cup {Merged(r, e, source) : r \in held}

\* _insert_earnings_rows and _upsert_date_rows, one event.  A statement that meets
\* a unique violation is undone and its rows are retried one by one, which leaves
\* the rows of a statement without one and the others' as they were: only the
\* row in conflict is skipped.  A statement that meets a key twice raises
\* (Futu's may: its batch is not deduplicated), so it has no such turn.
Upsert(i) ==
  /\ In("upsert")
  /\ IsNext(i)
  /\ LET e == txn.batch[i]
         u == Upserted(earnings, e, txn.source)
         next == IF txn.source = "longbridge" THEN "label" ELSE "commit"
         new  == \A r \in earnings : ~ SameKey(r, e)
     IN \/ /\ Keyed(u)
           /\ txn.single \/ \A j \in txn.kept : ~ SameKey(txn.batch[j], e)
           /\ new => ids < MaxRows
           /\ earnings' = u
           /\ ids' = IF new THEN ids + 1 ELSE ids
           /\ Turn(txn, i, TRUE, next)
        \/ /\ ~ Keyed(u)
           /\ Turn([txn EXCEPT !.single = TRUE], i, FALSE, next)
           /\ UNCHANGED <<earnings, ids>>
  /\ UNCHANGED <<today, run>>

\* The provenance UPDATE at the end of flush_batch: every row of the dates that
\* were written, whatever its type.
Label ==
  /\ In("label")
  /\ LET dates == {txn.batch[i].date : i \in txn.todo} IN
     earnings' = {IF r.date \in dates
                  THEN [r EXCEPT !.date_source = "longbridge",
                                 !.actual_source = IF r.act # "none" THEN "longbridge" ELSE @]
                  ELSE r : r \in earnings}
  /\ txn' = NoTxn
  /\ UNCHANGED <<ids, today, run>>

\* sync_actuals: the reported figure of one period, on every row of it except a
\* pair that is Longbridge's on both sides.
FutuActual(p) ==
  /\ ~ Open
  /\ earnings' = {IF r.period = p /\ ~ (r.est /\ r.actual_source = "longbridge")
                  THEN [r EXCEPT !.act = "futu", !.actual_source = "futu"] ELSE r : r \in earnings}
  /\ UNCHANGED <<ids, today, txn, run>>

----------------------------------------------------------------------------
(* The prediction stage                                                    *)

Asleep == [pc |-> "none"]
Step(pc) == ~ Open /\ run # Asleep /\ run.pc = pc

\* mark_confirmed: label every prediction, drop those of confirmed periods, promote
\* those that have an actual and whose day has come.
Labelled(t)   == {IF r.is_predicted THEN [r EXCEPT !.date_source = "algorithm"] ELSE r : r \in t}
Overtaken(t)  == {r \in t : r.is_predicted /\ \E c \in t : ~ c.is_predicted /\ SamePeriod(r, c)}
Promoted(t)   == {IF r.is_predicted /\ r.act # "none" /\ r.date <= today
                  THEN [r EXCEPT !.is_predicted = FALSE] ELSE r : r \in t}
MarkedConfirmed == LET t == Labelled(earnings) IN Promoted(t \ Overtaken(t))

\* One transaction: when the promotion meets a unique violation, the stage fails.
MarkConfirmed ==
  /\ ~ Open /\ run = Asleep
  /\ earnings' = Guarded(earnings, MarkedConfirmed)
  /\ run' = [pc |-> IF Keyed(MarkedConfirmed) THEN "cleanup" ELSE "failed"]
  /\ UNCHANGED <<ids, today, txn>>

\* cleanup_stale_predictions
Cleanup ==
  /\ Step("cleanup")
  /\ earnings' = {r \in earnings : r.is_predicted => r.date + Retention >= today}
  /\ run' = [pc |-> "read"]
  /\ UNCHANGED <<ids, today, txn>>

\* predict_for_symbol reads the rows: the last confirmed period, and the rows
\* it may re-date, the newest prediction of each period when that is its own.
Newest(p) == {r \in earnings : /\ r.is_predicted /\ r.period = p
                               /\ \A s \in earnings : s.is_predicted /\ s.period = p => s.date <= r.date}
Movable   == {r \in earnings : /\ r.period # NoPeriod /\ r \in Newest(r.period)
                               /\ r.date_source = "algorithm" /\ r.act = "none" /\ r.type = "Q"}
ReadRows ==
  /\ Step("read")
  /\ \E r \in earnings :
       /\ r.period # NoPeriod /\ ~ r.is_predicted
       /\ \A s \in earnings : ~ s.is_predicted => s.period <= r.period
       /\ run' = [pc |-> "walk", at |-> r.period,
                  seen |-> {[id |-> m.id, date |-> m.date, period |-> m.period] : m \in Movable}]
  /\ UNCHANGED <<earnings, ids, today, txn>>

\* Mutant of MovedPrediction: the row is trusted as it was read.
MovedAsRead(m, d) ==
  IF \E h \in earnings : h.date = d /\ h.type = "Q" THEN earnings
  ELSE {IF r.id = m.id THEN [r EXCEPT !.date = d] ELSE r : r \in earnings}

\* move_superseded_prediction, with the row and date as they were read.
MovedPrediction(m, d) ==
  IF \E h \in earnings : h.date = d /\ h.type = "Q" THEN earnings
  ELSE {IF /\ r.id = m.id /\ r.date = m.date /\ r.is_predicted
           /\ r.date_source = "algorithm" /\ r.act = "none"
        THEN [r EXCEPT !.date = d] ELSE r : r \in earnings}
SeenOf(p) == {m \in run.seen : m.period = p}

\* The walk reaches the next period and computes the date d: an earlier prediction
\* is moved there first.
PredictPeriod(p, d) ==
  /\ Step("walk")
  /\ p > run.at /\ \A q \in Periods : q > run.at => p <= q
  /\ earnings' = IF SeenOf(p) = {} THEN earnings
                 ELSE MovedPrediction(CHOOSE m \in SeenOf(p) : TRUE, d)
  /\ run' = [pc |-> "upsert", at |-> p, date |-> d, seen |-> run.seen \ SeenOf(p)]
  /\ UNCHANGED <<ids, today, txn>>

\* A period without history to predict from.
SkipPeriod(p) ==
  /\ Step("walk")
  /\ p > run.at /\ \A q \in Periods : q > run.at => p <= q
  /\ run' = [run EXCEPT !.at = p, !.seen = @ \ SeenOf(p)]
  /\ UNCHANGED <<earnings, ids, today, txn>>

\* Mutant of Repredicted: whoever holds the date.
RepredictedAny(r) == [r EXCEPT !.is_predicted = TRUE]

\* The conflict branch of upsert_prediction: only a row of the algorithm's own.
Repredicted(r) == [r EXCEPT !.is_predicted = @ \/ r.date_source = "algorithm"]

\* upsert_prediction
UpsertPrediction ==
  /\ Step("upsert")
  /\ LET held == {r \in earnings : r.date = run.date /\ r.type = "Q"} IN
     \/ /\ held # {}
        /\ earnings' = (earnings \ held) \cup {Repredicted(r) : r \in held}
        /\ UNCHANGED ids
     \/ /\ held = {}
        /\ ids < MaxRows
        /\ ids' = ids + 1
        /\ earnings' = earnings \cup
             {[id |-> ids + 1, date |-> run.date, type |-> "Q", period |-> run.at,
               is_predicted |-> TRUE, est |-> FALSE, act |-> "none",
               actual_source |-> "none", date_source |-> "algorithm"]}
  /\ run' = [pc |-> "walk", at |-> run.at, seen |-> run.seen]
  /\ UNCHANGED <<today, txn>>

\* The walk ends (window, horizon); predictions it did not reach are re-dated.
StopWalk ==
  /\ Step("walk")
  /\ run' = [pc |-> "restate", seen |-> run.seen]
  /\ UNCHANGED <<earnings, ids, today, txn>>
Restate(d) ==
  /\ Step("restate")
  /\ \E m \in run.seen :
       /\ \A n \in run.seen : m.period <= n.period
       /\ earnings' = MovedPrediction(m, d)
       /\ run' = [run EXCEPT !.seen = @ \ {m}]
  /\ UNCHANGED <<ids, today, txn>>

\* The run is over: done, failed, killed, or there is nothing to predict from.
EndRun ==
  /\ ~ Open /\ run # Asleep
  /\ run' = Asleep
  /\ UNCHANGED <<earnings, ids, today, txn>>

----------------------------------------------------------------------------
NextDay ==
  /\ ~ Open
  /\ today + 1 \in Dates
  /\ today' = today + 1
  /\ UNCHANGED <<earnings, ids, txn, run>>

Init ==
  /\ earnings = {}
  /\ ids = 0
  /\ today \in Dates /\ \A d \in Dates : today <= d
  /\ txn = NoTxn
  /\ run = Asleep

ProviderStep ==
  \/ \E b \in Responses : Begin("longbridge", b)
  \/ \E b \in FutuAnswers : Begin("futu", b)
  \/ \E i \in (IF Open THEN DOMAIN txn.batch ELSE {}) :
       RescheduleNothing(i) \/ Reschedule(i) \/ Settle(i) \/ Upsert(i)
  \/ Label \/ Fail
  \/ \E p \in Periods : FutuActual(p)
PredictionStep ==
  \/ MarkConfirmed \/ Cleanup \/ ReadRows
  \/ \E p \in Periods : SkipPeriod(p) \/ \E d \in Dates : PredictPeriod(p, d)
  \/ UpsertPrediction \/ StopWalk \/ \E d \in Dates : Restate(d)
  \/ EndRun

Next == ProviderStep \/ PredictionStep \/ NextDay
Spec == Init /\ [][Next]_vars

----------------------------------------------------------------------------
(* Properties                                                              *)

\* The rows that other sessions see.
Committed == IF Open THEN txn.before ELSE earnings

TxnState == [pc : {"reschedule", "settle", "upsert", "label"}, source : Providers,
             batch : Seq(Event), todo : SUBSET Nat, kept : SUBSET Nat,
             takeover : BOOLEAN, single : BOOLEAN, before : SUBSET Row]
Seen     == [id : 1 .. MaxRows, date : Dates, period : Periods]
RunState ==
  [pc : {"cleanup", "read", "failed"}]
  \cup [pc : {"walk"}, at : Periods, seen : SUBSET Seen]
  \cup [pc : {"upsert"}, at : Periods, date : Dates, seen : SUBSET Seen]
  \cup [pc : {"restate"}, seen : SUBSET Seen]

\* Every variable keeps its type, and both unique keys hold in every state of a
\* transaction.
TypeOK ==
  /\ earnings \subseteq Row /\ Keyed(earnings)
  /\ ids \in 0 .. MaxRows /\ \A r \in earnings : r.id <= ids
  /\ today \in Dates
  /\ txn \in TxnState \cup {NoTxn}
  /\ run \in RunState \cup {Asleep}

\* A row never changes its fiscal period once it has one, whatever batch, pass or
\* prediction meets it: the period is its persistent identity (flush_batch).
PeriodIsPersistent ==
  [][\A r \in Committed, s \in Committed' :
        r.id = s.id /\ r.period # NoPeriod => s.period = r.period]_vars

\* What a provider confirmed is neither removed nor made a prediction again.
ProviderRowStaysConfirmed ==
  [][\A r \in Committed : ~ r.is_predicted /\ r.date_source # "algorithm"
        => \E s \in Committed' : s.id = r.id /\ ~ s.is_predicted]_vars

\* A period that has a row keeps one, unless all it has are predictions that
\* have outlived their dates (_prediction_of_period: a prediction of another
\* period is never this one's to delete).
NoPeriodVanishes ==
  [][\A r \in Committed :
        /\ r.period # NoPeriod
        /\ r.is_predicted => r.date + Retention >= today
        => \E s \in Committed' : s.period = r.period]_vars

\* A confirmed row changes its date only in a provider batch that dates its period
\* there, and a quarterly release only if that event is no disclosure: neither
\* the predictor, which writes from an older reading, nor a half-year or
\* annual report drags it.
ConfirmedDatesFollowProviders ==
  [][\A r \in Committed, s \in Committed' :
        r.id = s.id /\ ~ r.is_predicted /\ r.date # s.date
        => \E i \in (IF Open THEN DOMAIN txn.batch ELSE {}) :
             /\ SamePeriod(txn.batch[i], r) /\ txn.batch[i].date = s.date
             /\ is_disclosure(txn.batch[i]) => is_disclosure(r)]_vars

\* The stage never fails in mark_confirmed: "promoting a prediction for a period a
\* provider row already recorded would raise UniqueViolation and abort the
\* run" is what its first step is there to prevent.
PredictionRunCompletes == run.pc # "failed"

=============================================================================
