---------------------------- MODULE MCCalendarRows ----------------------------
(***************************************************************************)
(* CalendarRows for TLC: what the providers may answer.  A behaviour of    *)
(* the composed instance is either one of two rows and all the answers, or *)
(* one of three rows and the few answers that a third row needs.           *)
(***************************************************************************)
EXTENDS CalendarView, TLC

Ev(d, t, p, x, a) == [date |-> d, type |-> t, period |-> p, est |-> x, act |-> a]

\* A release with an estimate, no actual: what the calendar answers ahead of time.
FewResponses == {<<Ev(d, "Q", 1, TRUE, FALSE)>> : d \in Dates}
\* Any release, and a disclosure.
ViewResponses ==
  {<<Ev(d, "Q", p, TRUE, FALSE)>> : d \in Dates, p \in Periods}
  \cup {<<Ev(1, "A", 1, TRUE, FALSE)>>}
\* With them a release without a period, and a disclosure with a reported release of
\* its period.
MixedResponses ==
  ViewResponses \cup {<<Ev(2, "Q", NoPeriod, TRUE, FALSE)>>,
                     <<Ev(1, "A", 1, TRUE, FALSE), Ev(2, "Q", 1, TRUE, TRUE)>>}

\* One date, and two periods at one date.
FewFutu   == {<<Ev(1, "Q", 1, FALSE, FALSE)>>}
MixedFutu == FewFutu \cup {<<Ev(1, "Q", 1, FALSE, FALSE), Ev(1, "Q", 2, FALSE, FALSE)>>}

VARIABLE wide   \* all the answers, and two rows

ThirdRowAnswers ==
  FewFutu \cup {<<Ev(2, "Q", 1, TRUE, FALSE)>>, <<Ev(1, "Q", 2, TRUE, FALSE)>>, <<Ev(1, "A", 1, TRUE, FALSE)>>}

WideOrDeepInit == Init /\ wide \in BOOLEAN
WideOrDeep ==
  /\ WideOrDeepInit
  /\ [][/\ Next /\ UNCHANGED wide
        /\ IF wide THEN ids' <= 2 ELSE txn' # NoTxn => txn'.batch \in ThirdRowAnswers]_<<vars, wide>>
===============================================================================
