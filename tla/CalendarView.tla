---------------------------- MODULE CalendarView ----------------------------
(***************************************************************************)
(* CalendarRows under the eyes of its readers: what the calendar and the   *)
(* decision panel show of the committed rows at any moment.                *)
(***************************************************************************)
EXTENDS CalendarRows, ReadPath

\* What the query for one window may show.  In a transaction the committed rows are
\* those that it found.
Shown(from, to) == IF Open THEN {} ELSE Calendars(Committed, today, from, to)

\* A confirmed release is shown in every window it lies in, whatever else the table
\* holds (fiscal.authority_key: "a prediction must never mask real data").
ReleasesAreShown ==
  \A from, to \in Dates : \A v \in Shown(from, to) : \A r \in Committed :
    ~ r.is_predicted /\ ~ Disclosing(r) /\ Dated(r, from, to) => \E s \in v : s.id = r.id

\* The same of a disclosure, which yields to a release of its own date only if that
\* is a fact as well.
PredictionNeverMasks ==
  \A from, to \in Dates : \A v \in Shown(from, to) : \A r \in Committed :
    ~ r.is_predicted /\ Dated(r, from, to)
      => \E s \in v : s.id = r.id \/ (s.date = r.date /\ ~ s.is_predicted)

Bare(r) == r.is_predicted /\ ~ Reported(Masked(r, today))

\* No order in which the database returns the rows changes what is shown, except
\* which of two disclosures stays beside a release, and of two bare predictions
\* of a period the one computed last.
ViewIsDetermined ==
  \/ \A from, to \in Dates : Cardinality(Shown(from, to)) <= 1
  \/ \E r, s \in Committed : r # s /\ Disclosing(r) /\ Disclosing(s) /\ r.date = s.date
  \/ \E r, s \in Committed : r # s /\ SamePeriod(r, s) /\ Bare(r) /\ Bare(s)

\* The figure that the decision panel, opened on any other row, uses for a period is
\* the one a calendar of all rows shows of it: "the calendar, both exports, the
\* iCal feed and the decision panel cannot disagree" (fiscal.hide_unreleased_actuals).
Agrees(o, p) ==
  o.period # p => \A from, to \in Dates : (\A r \in Committed : Dated(r, from, to)) =>
                    \A v \in Shown(from, to) : \A q \in PanelRows(Committed, o, p), s \in v :
                      s.period = p => s.act = q.act

\* They do agree of a period while no row of it is ahead of its day and no
\* prediction of it has a figure.
PanelAgreesOnFacts ==
  \A o \in Committed, p \in Periods :
    (\A r \in Committed : r.period = p /\ Reported(r) => r.date <= today /\ ~ r.is_predicted)
    => Agrees(o, p)
=============================================================================
