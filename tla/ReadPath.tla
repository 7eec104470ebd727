------------------------------ MODULE ReadPath ------------------------------
(***************************************************************************)
(* What readers make of the rows of one symbol (app/fiscal.py,             *)
(* app/earnings.py, app/phase3.py): one row stands for a fiscal period and *)
(* one for an announcement, and no figure is shown before its day.         *)
(*                                                                         *)
(* A row has the fields date, type, period (0 is none), is_predicted and   *)
(* act ("none" is no reported figure).  The timestamps and ids that break  *)
(* ties are left out: where they decide, every outcome is a possible view. *)
(***************************************************************************)
EXTENDS Integers, FiniteSets

Disclosing(r) == r.type \in {"H", "A"}
Reported(r)   == r.act # "none"
Dated(r, from, to) == r.date >= from /\ r.date <= to

\* Mutant of Ahead: a reported figure counts for more than a confirmation.
AheadReported(r, s) ==
  \/ Reported(r) /\ ~ Reported(s)
  \/ /\ Reported(r) <=> Reported(s)
     /\ \/ ~ r.is_predicted /\ s.is_predicted
        \/ /\ r.is_predicted <=> s.is_predicted
           /\ \/ ~ Disclosing(r) /\ Disclosing(s)
              \/ (Disclosing(r) <=> Disclosing(s)) /\ r.date > s.date

\* Mutant of Ahead: rows that are equal but for their dates are not told apart.
AheadUndated(r, s) ==
  \/ ~ r.is_predicted /\ s.is_predicted
  \/ /\ r.is_predicted <=> s.is_predicted
     /\ \/ ~ Disclosing(r) /\ Disclosing(s)
        \/ (Disclosing(r) <=> Disclosing(s)) /\ Reported(r) /\ ~ Reported(s)

\* authority_key, as the order it induces.  Two predictions without a figure are
\* told apart by the time they were computed, not by their dates.
Ahead(r, s) ==
  \/ ~ r.is_predicted /\ s.is_predicted
  \/ /\ r.is_predicted <=> s.is_predicted
     /\ \/ ~ Disclosing(r) /\ Disclosing(s)
        \/ /\ Disclosing(r) <=> Disclosing(s)
           /\ \/ Reported(r) /\ ~ Reported(s)
              \/ /\ Reported(r) <=> Reported(s)
                 /\ ~ (r.is_predicted /\ ~ Reported(r))
                 /\ r.date > s.date

\* The rows of rs that may come out first.
Leading(rs) == {r \in rs : ~ \E s \in rs : Ahead(s, r)}

PeriodsOf(rs) == {r.period : r \in rs} \ {0}

\* The first pass of collapse_fiscal_duplicates: a row for every period.
PeriodViews(rs) ==
  {{r \in rs : r.period = 0} \cup {pick[p] : p \in PeriodsOf(rs)} :
     pick \in {f \in [PeriodsOf(rs) -> rs] :
                 \A p \in PeriodsOf(rs) : f[p] \in Leading({r \in rs : r.period = p})}}

\* _collapse_same_date: a release stands for the disclosures of its date.  Those that
\* come before it are replaced by it one at a time, the first only; the order
\* of the rows of one date is the database's.
SameDate(v, r) == {s \in v : s.date = r.date}
DateViews(v) ==
  LET hidden == {d \in v : Disclosing(d) /\ \E r \in SameDate(v, d) : ~ Disclosing(r)} IN
  {v \ gone : gone \in {g \in SUBSET hidden : \A d \in hidden : SameDate(hidden, d) \cap g # {}}}

Views(rs) == UNION {DateViews(v) : v \in PeriodViews(rs)}

\* hide_unreleased_actuals, before the rows are collapsed.
Masked(r, today) == IF r.date > today THEN [r EXCEPT !.act = "none"] ELSE r

\* fetch_earnings_from_db: what the calendar, the exports and the feeds may show of
\* the table t from one date to another.
Calendars(t, today, from, to) == Views({Masked(r, today) : r \in {s \in t : Dated(s, from, to)}})

\* Mutant of PanelRows: the panel goes by the date alone.
PanelRowsByDate(t, opened, p) ==
  IF opened.period = p THEN {opened}
  ELSE LET rs == {r \in t : r.period = p} IN {r \in rs : \A s \in rs : r.date >= s.date}

\* _period_lookup over the history of the decision endpoint, which selects neither
\* is_predicted nor report_type and masks nothing.
PanelRows(t, opened, p) ==
  IF opened.period = p THEN {opened}
  ELSE LET rs == {r \in t : r.period = p} IN
       {r \in rs : \A s \in rs : \/ Reported(r) /\ ~ Reported(s)
                                 \/ (Reported(r) <=> Reported(s)) /\ r.date >= s.date}
=============================================================================
