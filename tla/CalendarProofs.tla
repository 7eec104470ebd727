---------------------------- MODULE CalendarProofs ----------------------------
(***************************************************************************)
(* Proofs about CalendarRows and CalendarView, for every history of        *)
(* answers, any dates and periods and any number of rows: both unique keys *)
(* hold inside every transaction, and what a transaction makes of the rows *)
(* it found is what other sessions may see of it when it commits.          *)
(***************************************************************************)
EXTENDS CalendarView, FiniteSetTheorems, TLAPS

\* What the passes of a batch may make of a row r.
Kept(r, s) == /\ r.period # NoPeriod => s.period = r.period
              /\ ~ r.is_predicted => ~ s.is_predicted
              /\ is_disclosure(s) => is_disclosure(r)

\* What they may make of a table t: confirmed rows stay, and every period has a
\* row still.
Succeeds(t, u) ==
  /\ \A r \in t, s \in u : r.id = s.id => Kept(r, s)
  /\ \A r \in t : ~ r.is_predicted => \E s \in u : s.id = r.id
  /\ \A r \in t : r.period # NoPeriod => \E s \in u : s.period = r.period

\* A row of u that is not new was in t.
Descends(t, u, n) == \A s \in u : s.id <= n => \E r \in t : r.id = s.id

\* Confirmed rows are at their dates of t, or where the batch b dates their periods.
DatesFollow(t, u, b) ==
  \A r \in t, s \in u :
    r.id = s.id /\ ~ r.is_predicted /\ r.date # s.date
      => \E i \in DOMAIN b : /\ SamePeriod(b[i], r) /\ b[i].date = s.date
                             /\ is_disclosure(b[i]) => is_disclosure(r)

\* As long as a batch moves rows, no row has got a period.
SamePeriods(t, u) == \A r \in t, s \in u : r.id = s.id => s.period = r.period

\* A table whose ids were all drawn.
Table(t, n) == t \subseteq Row /\ Keyed(t) /\ \A r \in t : r.id <= n

\* A row that a prediction run may move was a quarterly release when it was read,
\* and is one.
SeenReleases ==
  run.pc \in {"walk", "upsert", "restate"} =>
    \A m \in run.seen : /\ m.id <= ids
                        /\ \A r \in earnings \cup Committed : r.id = m.id => r.type = "Q"

\* The inductive invariant: an open transaction has made of the table it found
\* what it may commit.
CalendarInvariant ==
  /\ TypeOK
  /\ Open => /\ Table(txn.before, ids)
             /\ Succeeds(txn.before, earnings)
             /\ DatesFollow(txn.before, earnings, txn.batch)
             /\ txn.pc = "reschedule" => SamePeriods(txn.before, earnings)
  /\ SeenReleases

----------------------------------------------------------------------------
(* Tables                                                                  *)

\* An id is one row's.
LEMMA OneRowOfId ==
  ASSUME NEW t, Keyed(t), NEW r \in t, NEW s \in t, r.id = s.id
  PROVE  r = s
BY DEF Keyed

LEMMA SubTable ==
  ASSUME NEW t, NEW n, Table(t, n), NEW u \in SUBSET t
  PROVE  Table(u, n)
BY DEF Table, Keyed

LEMMA Unchanged ==
  ASSUME NEW t, NEW n, Table(t, n)
  PROVE  Succeeds(t, t) /\ Descends(t, t, n)
<1>1. \A r \in t, s \in t : r.id = s.id => Kept(r, s)
  BY OneRowOfId DEF Table, Kept
<1>. QED  BY <1>1 DEF Succeeds, Descends

\* What two steps make of a table, one after the other.
LEMMA SucceedsTwice ==
  ASSUME NEW t, NEW u, NEW v, NEW n,
         Succeeds(t, u), Succeeds(u, v), Descends(u, v, n), \A r \in t : r.id <= n
  PROVE  Succeeds(t, v)
<1>1. ASSUME NEW r \in t, NEW s \in v, r.id = s.id  PROVE Kept(r, s)
  <2>1. PICK q \in u : q.id = s.id
    BY <1>1 DEF Descends
  <2>2. Kept(r, q) /\ Kept(q, s)
    BY <2>1, <1>1 DEF Succeeds
  <2>. QED  BY <2>2 DEF Kept
<1>2. ASSUME NEW r \in t, ~ r.is_predicted  PROVE \E s \in v : s.id = r.id
  <2>1. PICK q \in u : q.id = r.id
    BY <1>2 DEF Succeeds
  <2>2. ~ q.is_predicted
    BY <2>1, <1>2 DEF Succeeds, Kept
  <2>. QED  BY <2>1, <2>2 DEF Succeeds
<1>3. ASSUME NEW r \in t, r.period # NoPeriod  PROVE \E s \in v : s.period = r.period
  <2>1. PICK q \in u : q.period = r.period
    BY <1>3 DEF Succeeds
  <2>. QED  BY <2>1, <1>3 DEF Succeeds
<1>. QED  BY <1>1, <1>2, <1>3 DEF Succeeds

\* A statement that changes rows and no identity: f gives each its new self, and may
\* make a row a prediction, never a fact.
LEMMA Mapped ==
  ASSUME NEW t, NEW n, Table(t, n), NEW f \in [t -> Row],
         \A r \in t : /\ f[r].id = r.id /\ f[r].date = r.date /\ f[r].type = r.type
                      /\ f[r].period = r.period,
         \A r \in t : r.is_predicted => f[r].is_predicted
  PROVE  /\ Table({f[r] : r \in t}, n)
         /\ Descends(t, {f[r] : r \in t}, n)
<1>. DEFINE u == {f[r] : r \in t}
<1>1. u \subseteq Row /\ \A s \in u : s.id <= n
  BY DEF Table
<1>2. ASSUME NEW x \in u, NEW y \in u, x # y
      PROVE  /\ x.id # y.id /\ ~ SameKey(x, y)
             /\ SamePeriod(x, y) => x.is_predicted \/ y.is_predicted
  <2>1. PICK r \in t, s \in t : x = f[r] /\ y = f[s]
    OBVIOUS
  <2>2. /\ r.id # s.id /\ ~ SameKey(r, s)
        /\ SamePeriod(r, s) => r.is_predicted \/ s.is_predicted
    BY <2>1, <1>2 DEF Table, Keyed
  <2>3. x.id # y.id /\ ~ SameKey(x, y)
    BY <2>1, <2>2 DEF SameKey
  <2>4. SamePeriod(x, y) => SamePeriod(r, s)
    BY <2>1 DEF SamePeriod
  <2>. QED  BY <2>1, <2>2, <2>3, <2>4
<1>3. Keyed(u)
  BY <1>2 DEF Keyed
<1>4. Descends(t, u, n)
  BY DEF Descends
<1>. QED  BY <1>1, <1>3, <1>4 DEF Table

----------------------------------------------------------------------------
(* Steps of a batch                                                        *)

\* What a pass of a batch does, one event at a time.
BatchStep ==
  /\ Open
  /\ today' = today /\ run' = run
  /\ ids' \in ids .. MaxRows
  /\ Table(earnings', ids')
  /\ Succeeds(earnings, earnings') /\ Descends(earnings, earnings', ids)
  /\ \/ txn' = NoTxn /\ DatesFollow(txn.before, earnings', txn.batch)
     \/ /\ txn' \in TxnState /\ txn'.before = txn.before
        /\ DatesFollow(txn.before, earnings', txn'.batch)
        /\ txn'.pc = "reschedule" => SamePeriods(txn.before, earnings')

LEMMA NoTxnIsClosed == NoTxn \notin TxnState
<1>1. NoTxn.pc = "none"
  BY DEF NoTxn
<1>. QED  BY <1>1 DEF TxnState

\* A row a prediction run has seen is a release for as long as releases stay releases.
LEMMA SeenStay ==
  ASSUME TypeOK, SeenReleases, run' = run, ids' \in ids .. MaxRows, NEW t \in SUBSET Row,
         \A s \in t : s.id <= ids => \E r \in earnings \cup Committed :
                          r.id = s.id /\ (is_disclosure(s) => is_disclosure(r))
  PROVE  run.pc \in {"walk", "upsert", "restate"} =>
           \A m \in run.seen : m.id <= ids' /\ \A s \in t : s.id = m.id => s.type = "Q"
<1>. SUFFICES ASSUME run.pc \in {"walk", "upsert", "restate"}, NEW m \in run.seen
              PROVE  m.id <= ids' /\ \A s \in t : s.id = m.id => s.type = "Q"
  OBVIOUS
<1>1. m \in Seen
  BY DEF TypeOK, RunState, Asleep
<1>2. m.id <= ids /\ m.id \in Nat /\ ids \in Nat
  BY <1>1 DEF SeenReleases, Seen, TypeOK
<1>3. ASSUME NEW s \in t, s.id = m.id  PROVE s.type = "Q"
  <2>1. PICK r \in earnings \cup Committed : r.id = s.id /\ (is_disclosure(s) => is_disclosure(r))
    BY <1>2, <1>3
  <2>2. r.type = "Q"
    BY <2>1, <1>3 DEF SeenReleases
  <2>3. s.type \in ReportTypes
    BY DEF Row
  <2>. QED  BY <2>1, <2>2, <2>3 DEF is_disclosure, ReportTypes
<1>. QED  BY <1>2, <1>3

LEMMA BatchStepKeeps ==
  ASSUME CalendarInvariant, BatchStep
  PROVE  CalendarInvariant' /\ Succeeds(txn.before, earnings')
<1>1. /\ TypeOK /\ txn \in TxnState /\ Open /\ Table(txn.before, ids)
      /\ Succeeds(txn.before, earnings) /\ SeenReleases
  BY DEF CalendarInvariant, TypeOK, BatchStep, Open
<1>2. Succeeds(txn.before, earnings')
  <2>1. \A r \in txn.before : r.id <= ids
    BY <1>1 DEF Table
  <2>. QED  BY <1>1, <2>1, SucceedsTwice DEF BatchStep
<1>3. TypeOK'
  <2>1. earnings' \subseteq Row /\ Keyed(earnings') /\ \A r \in earnings' : r.id <= ids'
    BY DEF BatchStep, Table
  <2>2. ids' \in 0 .. MaxRows
    BY <1>1 DEF BatchStep, TypeOK
  <2>3. today' \in Dates /\ txn' \in TxnState \cup {NoTxn} /\ run' \in RunState \cup {Asleep}
    BY <1>1 DEF BatchStep, TypeOK
  <2>. QED  BY <2>1, <2>2, <2>3 DEF TypeOK
<1>4. (Open => /\ Table(txn.before, ids)
               /\ Succeeds(txn.before, earnings)
               /\ DatesFollow(txn.before, earnings, txn.batch)
               /\ txn.pc = "reschedule" => SamePeriods(txn.before, earnings))'
  <2>. SUFFICES ASSUME txn' # NoTxn
                PROVE  /\ Table(txn'.before, ids')
                       /\ Succeeds(txn'.before, earnings')
                       /\ DatesFollow(txn'.before, earnings', txn'.batch)
                       /\ txn'.pc = "reschedule" => SamePeriods(txn'.before, earnings')
    BY DEF Open
  <2>1. /\ txn'.before = txn.before
        /\ DatesFollow(txn.before, earnings', txn'.batch)
        /\ txn'.pc = "reschedule" => SamePeriods(txn.before, earnings')
    BY DEF BatchStep
  <2>2. Table(txn.before, ids')
    <3>1. \A r \in txn.before : r.id <= ids'
      <4>. SUFFICES ASSUME NEW r \in txn.before  PROVE r.id <= ids'
        OBVIOUS
      <4>1. r.id \in Nat /\ r.id <= ids /\ ids \in Nat
        BY <1>1 DEF Table, Row, TypeOK
      <4>. QED  BY <4>1 DEF BatchStep
    <3>. QED  BY <1>1, <3>1 DEF Table
  <2>. QED  BY <2>1, <2>2, <1>2
<1>5. SeenReleases'
  <2>1. ASSUME NEW s \in earnings', s.id <= ids
        PROVE  \E r \in earnings \cup Committed : r.id = s.id /\ (is_disclosure(s) => is_disclosure(r))
    <3>1. PICK r \in earnings : r.id = s.id
      BY <2>1 DEF BatchStep, Descends
    <3>. QED  BY <3>1 DEF BatchStep, Succeeds, Kept
  <2>2. \A s \in Committed' : s \in earnings' \/ s \in Committed
    BY <1>1 DEF Committed, Open, BatchStep
  <2>3. earnings' \cup Committed' \subseteq Row
    BY <1>1, <1>3, <2>2 DEF Committed, TypeOK, Table
  <2>4. \A s \in earnings' \cup Committed' : s.id <= ids =>
           \E r \in earnings \cup Committed : r.id = s.id /\ (is_disclosure(s) => is_disclosure(r))
    BY <2>1, <2>2
  <2>5. run' = run /\ ids' \in ids .. MaxRows
    BY DEF BatchStep
  <2>6. run.pc \in {"walk", "upsert", "restate"} =>
           \A m \in run.seen : /\ m.id <= ids'
                               /\ \A s \in earnings' \cup Committed' : s.id = m.id => s.type = "Q"
    BY <1>1, <2>3, <2>4, <2>5, SeenStay
  <2>. QED  BY <2>5, <2>6 DEF SeenReleases
<1>. QED  BY <1>2, <1>3, <1>4, <1>5 DEF CalendarInvariant

\* After its turn an event is left behind; the batch goes on with the same events
\* or ends, which a pass that has kept an event does only when it was the last.
LEMMA Turned ==
  ASSUME NEW x \in TxnState, NEW i \in Nat, NEW keep \in BOOLEAN,
         NEW next \in {"settle", "upsert", "label", "commit"}, Turn(x, i, keep, next)
  PROVE  \/ txn' = NoTxn /\ (keep => next = "commit")
         \/ /\ txn' \in TxnState /\ txn'.before = x.before /\ txn'.batch = x.batch
            /\ txn'.pc \in {x.pc, next}
<1>. DEFINE kept == IF keep THEN x.kept \cup {i} ELSE x.kept
            rest == x.todo \ {i}
<1>1. kept \in SUBSET Nat /\ rest \in SUBSET Nat /\ {} \in SUBSET Nat
  BY DEF TxnState
<1>2. CASE rest # {}
  <2>1. txn' = [x EXCEPT !.todo = rest, !.kept = kept]
    BY <1>2 DEF Turn
  <2>. HIDE DEF rest, kept
  <2>2. txn' \in TxnState
    BY <2>1, <1>1 DEF TxnState
  <2>3. txn'.before = x.before /\ txn'.batch = x.batch /\ txn'.pc = x.pc
    BY <2>1 DEF TxnState
  <2>. QED  BY <2>2, <2>3
<1>3. CASE rest = {} /\ (kept = {} \/ next = "commit")
  <2>1. txn' = NoTxn
    BY <1>3 DEF Turn
  <2>2. keep => kept # {}
    OBVIOUS
  <2>. QED  BY <2>1, <2>2, <1>3
<1>4. CASE rest = {} /\ kept # {} /\ next # "commit"
  <2>1. txn' = [x EXCEPT !.pc = next, !.todo = kept, !.kept = {}]
    BY <1>4 DEF Turn
  <2>. HIDE DEF rest, kept
  <2>2. next \in {"reschedule", "settle", "upsert", "label"}
    BY <1>4
  <2>3. txn' \in TxnState
    BY <2>1, <2>2, <1>1 DEF TxnState
  <2>4. txn'.before = x.before /\ txn'.batch = x.batch /\ txn'.pc = next
    BY <2>1 DEF TxnState
  <2>. QED  BY <2>3, <2>4
<1>. QED  BY <1>2, <1>3, <1>4

\* An event that a pass has nothing to write for.
LEMMA PassOver ==
  ASSUME CalendarInvariant, Open, UNCHANGED <<earnings, ids, today, run>>,
         \/ txn' = NoTxn
         \/ /\ txn' \in TxnState /\ txn'.before = txn.before /\ txn'.batch = txn.batch
            /\ txn'.pc = "reschedule" => txn.pc = "reschedule"
  PROVE  BatchStep
<1>1. TypeOK
  BY DEF CalendarInvariant
<1>2. Table(earnings', ids') /\ ids' \in ids .. MaxRows
  BY <1>1 DEF TypeOK, Table
<1>3. Succeeds(earnings, earnings') /\ Descends(earnings, earnings', ids)
  BY <1>2, Unchanged
<1>4. \/ txn' = NoTxn /\ DatesFollow(txn.before, earnings', txn.batch)
      \/ /\ txn' \in TxnState /\ txn'.before = txn.before
         /\ DatesFollow(txn.before, earnings', txn'.batch)
         /\ txn'.pc = "reschedule" => SamePeriods(txn.before, earnings')
  BY DEF CalendarInvariant
<1>. QED  BY <1>2, <1>3, <1>4 DEF BatchStep

LEMMA RescheduleNothingStep ==
  ASSUME CalendarInvariant, NEW i \in DOMAIN txn.batch, RescheduleNothing(i)
  PROVE  BatchStep
<1>1. /\ Open /\ txn \in TxnState /\ txn.pc = "reschedule" /\ i \in Nat
      /\ UNCHANGED <<earnings, ids, today, run>>
  BY DEF RescheduleNothing, In, CalendarInvariant, TypeOK, Open, TxnState, IsNext
<1>2. PICK next \in {"settle", "upsert"} : Turn(txn, i, TRUE, next)
  BY DEF RescheduleNothing
<1>3. \/ txn' = NoTxn
      \/ txn' \in TxnState /\ txn'.before = txn.before /\ txn'.batch = txn.batch
  BY <1>1, <1>2, Turned
<1>. QED  BY <1>1, <1>3, PassOver

\* The row of the period at its new date, and the kind of row it was or a release.
LEMMA RedatedRow ==
  ASSUME NEW w \in Row, NEW e \in Event, NEW takes \in BOOLEAN
  PROVE  /\ Redated(w, e, takes) \in Row
         /\ Redated(w, e, takes).id = w.id /\ Redated(w, e, takes).date = e.date
         /\ Redated(w, e, takes).type = (IF takes THEN e.type ELSE w.type)
         /\ Redated(w, e, takes).period = w.period
         /\ Redated(w, e, takes).is_predicted = w.is_predicted
<1>1. e.date \in Dates /\ e.type \in ReportTypes /\ e.est \in BOOLEAN
  BY DEF Event
<1>2. (w.est \/ e.est) \in BOOLEAN
  OBVIOUS
<1>3. (IF e.act THEN "longbridge" ELSE w.act) \in Providers \cup {"none"}
  BY DEF Row, Providers
<1>4. CASE takes
  <2>. DEFINE est == w.est \/ e.est
              act == IF e.act THEN "longbridge" ELSE w.act
  <2>1. Redated(w, e, takes) = [w EXCEPT !.date = e.date, !.type = e.type, !.est = est, !.act = act]
    BY <1>4 DEF Redated
  <2>. HIDE DEF est, act
  <2>2. est \in BOOLEAN /\ act \in Providers \cup {"none"}
    BY <1>2, <1>3 DEF est, act
  <2>. QED  BY <2>1, <2>2, <1>1, <1>4 DEF Row
<1>5. CASE ~ takes
  BY <1>1, <1>5 DEF Redated, Row
<1>. QED  BY <1>4, <1>5

\* Rescheduled drops at most the prediction of the period it moves.
LEMMA RescheduledTable ==
  ASSUME NEW t, NEW n, Table(t, n), NEW w \in t, ~ w.is_predicted, NEW e \in Event,
         SamePeriod(w, e), NEW takes \in BOOLEAN,
         takes => ~ is_disclosure(e) /\ is_disclosure(w)
  PROVE  /\ Table(Rescheduled(t, w, e, takes), n)
         /\ Succeeds(t, Rescheduled(t, w, e, takes))
         /\ Descends(t, Rescheduled(t, w, e, takes), n)
         /\ SamePeriods(t, Rescheduled(t, w, e, takes))
         /\ \A r \in t, s \in Rescheduled(t, w, e, takes) :
              r.id = s.id => s.date = r.date \/ (r = w /\ s.date = e.date)
<1>. DEFINE holder == {h \in t : SameKey(h, e) /\ w.date # e.date}
            stale  == {h \in holder : h.is_predicted /\ SamePeriod(h, e)}
            new    == Redated(w, e, takes)
            u      == (t \ (stale \cup {w})) \cup {new}
            v      == Rescheduled(t, w, e, takes)
<1>1. CASE v = t
  <2>1. Succeeds(t, t) /\ Descends(t, t, n)
    BY Unchanged
  <2>2. \A r \in t, s \in t : r.id = s.id => r = s
    BY OneRowOfId DEF Table
  <2>. QED  BY <1>1, <2>1, <2>2 DEF SamePeriods
<1>2. CASE v # t
  <2>1. v = u /\ Keyed(u)
    BY <1>2 DEF Rescheduled, Guarded
  <2>2. w \in Row
    BY DEF Table
  <2>3. /\ new \in Row /\ new.id = w.id /\ new.date = e.date
        /\ new.type = (IF takes THEN e.type ELSE w.type)
        /\ new.period = w.period /\ new.is_predicted = w.is_predicted
    BY <2>2, RedatedRow
  <2>4. stale \subseteq t
    OBVIOUS
  <2>5. \A h \in stale : h.is_predicted /\ SamePeriod(h, e)
    OBVIOUS
  <2>. HIDE DEF new, stale
  <2>6. Table(u, n)
    <3>1. \A s \in u : s \in Row /\ s.id <= n
      BY <2>3 DEF Table
    <3>. QED  BY <2>1, <3>1 DEF Table
  <2>7. Kept(w, new)
    <3>1. is_disclosure(new) => is_disclosure(w)
      BY <2>3 DEF is_disclosure
    <3>. QED  BY <3>1, <2>3 DEF Kept
  <2>8. ASSUME NEW r \in t, NEW s \in u, r.id = s.id
        PROVE  s = r \/ (r = w /\ s = new)
    BY <2>8, <2>3, OneRowOfId DEF Table
  <2>9. Succeeds(t, u)
    <3>1. \A r \in t, s \in u : r.id = s.id => Kept(r, s)
      BY <2>7, <2>8 DEF Kept
    <3>2. ASSUME NEW r \in t, ~ r.is_predicted  PROVE \E s \in u : s.id = r.id
      <4>1. r \notin stale
        BY <2>5, <3>2
      <4>. QED  BY <4>1, <2>3
    <3>3. ASSUME NEW r \in t, r.period # NoPeriod  PROVE \E s \in u : s.period = r.period
      <4>1. CASE r \in stale
        BY <4>1, <2>3, <2>5 DEF SamePeriod
      <4>2. CASE r \notin stale
        BY <4>2, <2>3
      <4>. QED  BY <4>1, <4>2
    <3>. QED  BY <3>1, <3>2, <3>3 DEF Succeeds
  <2>10. Descends(t, u, n)
    BY <2>3 DEF Descends
  <2>11. SamePeriods(t, u)
    BY <2>8, <2>3 DEF SamePeriods
  <2>12. \A r \in t, s \in u : r.id = s.id => s.date = r.date \/ (r = w /\ s.date = e.date)
    BY <2>8, <2>3
  <2>. HIDE DEF u
  <2>. QED  BY <2>1, <2>6, <2>9, <2>10, <2>11, <2>12
<1>. QED  BY <1>1, <1>2

LEMMA RescheduleStep ==
  ASSUME CalendarInvariant, NEW i \in DOMAIN txn.batch, Reschedule(i)
  PROVE  BatchStep
<1>1. /\ Open /\ txn \in TxnState /\ txn.pc = "reschedule" /\ i \in Nat
      /\ UNCHANGED <<ids, today, run>>
  BY DEF Reschedule, In, CalendarInvariant, TypeOK, Open, TxnState, IsNext
<1>2. /\ Table(earnings, ids) /\ ids \in Nat /\ ids' \in ids .. MaxRows
      /\ Table(txn.before, ids) /\ Succeeds(txn.before, earnings)
      /\ DatesFollow(txn.before, earnings, txn.batch) /\ SamePeriods(txn.before, earnings)
  BY <1>1 DEF CalendarInvariant, TypeOK, Table
<1>3. PICK w \in earnings :
        /\ ~ w.is_predicted /\ SamePeriod(w, txn.batch[i])
        /\ LET e     == IF txn.source = "futu" THEN [txn.batch[i] EXCEPT !.type = w.type]
                                               ELSE txn.batch[i]
               takes == txn.takeover /\ ~ is_disclosure(e) /\ is_disclosure(w)
               next  == IF txn.source = "longbridge" THEN "settle" ELSE "upsert"
           IN \/ /\ is_disclosure(e) /\ ~ is_disclosure(w)
                 /\ Turn(txn, i, FALSE, next)
                 /\ UNCHANGED earnings
              \/ /\ is_disclosure(e) => is_disclosure(w)
                 /\ Turn([txn EXCEPT !.batch[i] = e, !.takeover = takes], i, TRUE, next)
                 /\ earnings' = Rescheduled(earnings, w, e, takes)
  BY DEF Reschedule
<1>. DEFINE e     == IF txn.source = "futu" THEN [txn.batch[i] EXCEPT !.type = w.type]
                                            ELSE txn.batch[i]
            takes == txn.takeover /\ ~ is_disclosure(e) /\ is_disclosure(w)
            next  == IF txn.source = "longbridge" THEN "settle" ELSE "upsert"
<1>4. next \in {"settle", "upsert"}
  OBVIOUS
<1>5. CASE Turn(txn, i, FALSE, next) /\ UNCHANGED earnings
  <2>1. \/ txn' = NoTxn
        \/ txn' \in TxnState /\ txn'.before = txn.before /\ txn'.batch = txn.batch
    BY <1>1, <1>4, <1>5, Turned
  <2>. QED  BY <1>1, <1>5, <2>1, PassOver
<1>6. CASE /\ is_disclosure(e) => is_disclosure(w)
           /\ Turn([txn EXCEPT !.batch[i] = e, !.takeover = takes], i, TRUE, next)
           /\ earnings' = Rescheduled(earnings, w, e, takes)
  <2>1. txn.batch \in Seq(Event) /\ txn.batch[i] \in Event /\ w \in Row
    BY <1>1, <1>2 DEF TxnState, Table
  <2>2. e \in Event /\ e.period = txn.batch[i].period /\ e.date = txn.batch[i].date
    BY <2>1 DEF Event, Row
  <2>3. e.type = txn.batch[i].type \/ e.type = w.type
    BY <2>1 DEF Event, Row
  <2>4. takes \in BOOLEAN /\ (takes => ~ is_disclosure(e) /\ is_disclosure(w))
    OBVIOUS
  <2>5. SamePeriod(w, e)
    BY <1>3, <2>2 DEF SamePeriod
  <2>. DEFINE x == [txn EXCEPT !.batch[i] = e, !.takeover = takes]
  <2>. HIDE DEF e, takes, next
  <2>6. [txn.batch EXCEPT ![i] = e] \in Seq(Event)
    BY <2>1, <2>2
  <2>7. x \in TxnState /\ x.before = txn.before /\ x.pc = txn.pc /\ x.batch = [txn.batch EXCEPT ![i] = e]
    BY <1>1, <2>4, <2>6 DEF TxnState
  <2>. HIDE DEF x
  <2>8. Turn(x, i, TRUE, next)
    BY <1>6 DEF x
  <2>9. txn' \in TxnState /\ txn'.before = txn.before /\ txn'.batch = [txn.batch EXCEPT ![i] = e]
    BY <2>7, <2>8, <1>1, <1>4, Turned
  <2>10. /\ Table(earnings', ids) /\ Succeeds(earnings, earnings') /\ Descends(earnings, earnings', ids)
         /\ SamePeriods(earnings, earnings')
         /\ \A r \in earnings, s \in earnings' :
              r.id = s.id => s.date = r.date \/ (r = w /\ s.date = e.date)
    BY <1>2, <1>3, <1>6, <2>2, <2>4, <2>5, RescheduledTable
  <2>11. ASSUME NEW r \in txn.before, NEW s \in earnings', r.id = s.id
         PROVE  \E q \in earnings : q.id = s.id
    <3>1. r.id <= ids
      BY <1>2 DEF Table
    <3>. QED  BY <2>10, <2>11, <3>1 DEF Descends
  <2>12. SamePeriods(txn.before, earnings')
    BY <2>10, <2>11, <1>2 DEF SamePeriods
  <2>13. ASSUME NEW r \in txn.before, NEW s \in earnings',
                r.id = s.id, ~ r.is_predicted, r.date # s.date
         PROVE  \E j \in DOMAIN txn'.batch :
                  /\ SamePeriod(txn'.batch[j], r) /\ txn'.batch[j].date = s.date
                  /\ is_disclosure(txn'.batch[j]) => is_disclosure(r)
    <3>1. PICK q \in earnings : q.id = s.id
      BY <2>11, <2>13
    <3>2. q.period = r.period /\ ~ q.is_predicted /\ (is_disclosure(q) => is_disclosure(r))
      BY <1>2, <2>13, <3>1 DEF SamePeriods, Succeeds, Kept
    <3>3. DOMAIN txn'.batch = DOMAIN txn.batch /\ txn'.batch[i] = e
      BY <2>1, <2>9
    <3>4. CASE s.date = q.date
      <4>1. PICK j \in DOMAIN txn.batch :
              /\ SamePeriod(txn.batch[j], r) /\ txn.batch[j].date = s.date
              /\ is_disclosure(txn.batch[j]) => is_disclosure(r)
        BY <1>2, <2>13, <3>1, <3>4 DEF DatesFollow
      <4>2. CASE j # i
        <5>1. txn'.batch[j] = txn.batch[j]
          BY <4>2, <2>1, <2>9
        <5>. QED  BY <4>1, <5>1, <3>3
      <4>3. CASE j = i
        <5>1. SamePeriod(e, r) /\ e.date = s.date
          BY <4>1, <4>3, <2>2 DEF SamePeriod
        <5>2. CASE e.type = txn.batch[i].type
          <6>1. is_disclosure(e) => is_disclosure(r)
            BY <4>1, <4>3, <5>2 DEF is_disclosure
          <6>. QED  BY <5>1, <6>1, <3>3
        <5>3. CASE e.type = w.type
          <6>1. SamePeriod(w, q)
            BY <2>5, <5>1, <3>2 DEF SamePeriod
          <6>2. w = q
            BY <6>1, <3>2, <1>3, <1>2 DEF Table, Keyed
          <6>3. is_disclosure(e) => is_disclosure(r)
            BY <6>2, <3>2, <5>3 DEF is_disclosure
          <6>. QED  BY <5>1, <6>3, <3>3
        <5>. QED  BY <5>2, <5>3, <2>3
      <4>. QED  BY <4>2, <4>3
    <3>5. CASE s.date # q.date
      <4>1. q = w /\ s.date = e.date
        BY <2>10, <3>1, <3>5
      <4>2. SamePeriod(e, r)
        BY <4>1, <3>2, <2>5 DEF SamePeriod
      <4>3. is_disclosure(e) => is_disclosure(r)
        BY <4>1, <3>2, <1>6 DEF e
      <4>. QED  BY <4>1, <4>2, <4>3, <3>3
    <3>. QED  BY <3>4, <3>5
  <2>14. DatesFollow(txn.before, earnings', txn'.batch)
    BY <2>13 DEF DatesFollow
  <2>. QED  BY <1>1, <1>2, <2>9, <2>10, <2>12, <2>14 DEF BatchStep
<1>. QED  BY <1>3, <1>5, <1>6

\* The passes after the first leave every row at its date.
LEMMA DatesStay ==
  ASSUME NEW t, NEW u, NEW v, NEW n, NEW b,
         DatesFollow(t, u, b), Descends(u, v, n), \A r \in t : r.id <= n,
         \A r \in u, s \in v : r.id = s.id => s.date = r.date
  PROVE  DatesFollow(t, v, b)
<1>. SUFFICES ASSUME NEW r \in t, NEW s \in v, r.id = s.id, ~ r.is_predicted, r.date # s.date
              PROVE  \E i \in DOMAIN b : /\ SamePeriod(b[i], r) /\ b[i].date = s.date
                                         /\ is_disclosure(b[i]) => is_disclosure(r)
  BY DEF DatesFollow
<1>1. PICK q \in u : q.id = s.id
  BY DEF Descends
<1>2. q.date = s.date
  BY <1>1
<1>. QED  BY <1>1, <1>2 DEF DatesFollow

\* A later pass, given what it makes of the table.
LEMMA LaterPass ==
  ASSUME CalendarInvariant, Open, today' = today, run' = run, ids' \in ids .. MaxRows,
         Table(earnings', ids'), Succeeds(earnings, earnings'), Descends(earnings, earnings', ids),
         \A r \in earnings, s \in earnings' : r.id = s.id => s.date = r.date,
         \/ txn' = NoTxn
         \/ /\ txn' \in TxnState /\ txn'.before = txn.before /\ txn'.batch = txn.batch
            /\ txn'.pc # "reschedule"
  PROVE  BatchStep
<1>1. /\ DatesFollow(txn.before, earnings, txn.batch)
      /\ \A r \in txn.before : r.id <= ids
  BY DEF CalendarInvariant, Table
<1>2. DatesFollow(txn.before, earnings', txn.batch)
  BY <1>1, DatesStay
<1>. QED  BY <1>2 DEF BatchStep

LEMMA SettleStep ==
  ASSUME CalendarInvariant, NEW i \in DOMAIN txn.batch, Settle(i)
  PROVE  BatchStep
<1>1. /\ Open /\ txn \in TxnState /\ txn.pc = "settle" /\ i \in Nat
      /\ UNCHANGED <<ids, today, run>>
  BY DEF Settle, In, CalendarInvariant, TypeOK, Open, TxnState, IsNext
<1>2. Table(earnings, ids) /\ ids' \in ids .. MaxRows /\ ids' = ids
  BY <1>1 DEF CalendarInvariant, TypeOK, Table
<1>. DEFINE e == txn.batch[i]
            releases    == {r \in earnings : r.date = e.date /\ ~ is_disclosure(r)}
            disclosures == {r \in earnings : r.date = e.date /\ is_disclosure(r)}
            batchmates  == {j \in txn.todo \cup txn.kept :
                              txn.batch[j].date = e.date /\ ~ is_disclosure(txn.batch[j])}
            new(r)      == [r EXCEPT !.type = e.type, !.period = Fill(@, e.period)]
            promoted    == {new(r) : r \in disclosures}
            promotes    == /\ ~ is_disclosure(e) /\ releases = {}
                           /\ Cardinality(disclosures) = 1 /\ \A r \in disclosures : ~ r.is_predicted
            keep        == is_disclosure(e) => releases = {} /\ batchmates = {}
            u           == (earnings \ disclosures) \cup promoted
<1>3. /\ Turn(txn, i, keep, "upsert")
      /\ earnings' = IF promotes THEN Guarded(earnings, u) ELSE earnings
  BY DEF Settle
<1>4. \/ txn' = NoTxn
      \/ /\ txn' \in TxnState /\ txn'.before = txn.before /\ txn'.batch = txn.batch
         /\ txn'.pc # "reschedule"
  <2>1. keep \in BOOLEAN
    OBVIOUS
  <2>. HIDE DEF keep
  <2>. QED  BY <1>1, <1>3, <2>1, Turned
<1>5. CASE earnings' = earnings
  <2>1. \A r \in earnings, s \in earnings : r.id = s.id => s.date = r.date
    BY <1>2, OneRowOfId DEF Table
  <2>. QED  BY <1>1, <1>2, <1>4, <1>5, <2>1, Unchanged, LaterPass
<1>6. CASE earnings' # earnings
  <2>1. promotes /\ earnings' = u /\ Keyed(u)
    BY <1>3, <1>6 DEF Guarded
  <2>2. e \in Event
    BY <1>1 DEF TxnState
  <2>3. \A r \in earnings : r \in Row /\ r.id <= ids
    BY <1>2 DEF Table
  <2>4. ASSUME NEW r \in disclosures
        PROVE  /\ new(r) \in Row /\ new(r).id = r.id /\ new(r).date = r.date
               /\ Kept(r, new(r)) /\ ~ r.is_predicted
    <3>. DEFINE period == Fill(r.period, e.period)
    <3>1. r \in Row /\ is_disclosure(r) /\ ~ r.is_predicted
      BY <2>1, <2>3
    <3>2. period \in Periods \cup {NoPeriod} /\ e.type \in ReportTypes
      BY <3>1, <2>2 DEF Fill, Row, Event
    <3>3. r.period # NoPeriod => period = r.period
      BY DEF Fill
    <3>. HIDE DEF e, period
    <3>4. new(r) = [r EXCEPT !.type = e.type, !.period = period]
      BY DEF period
    <3>5. /\ new(r) \in Row /\ new(r).id = r.id /\ new(r).date = r.date
          /\ new(r).period = period /\ new(r).is_predicted = r.is_predicted
      BY <3>1, <3>2, <3>4 DEF Row
    <3>. QED  BY <3>1, <3>3, <3>5 DEF Kept
  <2>5. \A s \in promoted : \E r \in disclosures : s = new(r)
    OBVIOUS
  <2>6. disclosures \subseteq earnings /\ \A r \in disclosures : new(r) \in promoted
    OBVIOUS
  <2>. HIDE DEF promoted, disclosures, new, promotes
  <2>7. \A s \in u : \E r \in earnings : s.id = r.id /\ (s = r \/ (r \in disclosures /\ s = new(r)))
    BY <2>4, <2>5, <2>6
  <2>8. Table(u, ids)
    BY <2>1, <2>3, <2>4, <2>7 DEF Table
  <2>9. ASSUME NEW r \in earnings, NEW s \in u, r.id = s.id
        PROVE  s = r \/ (r \in disclosures /\ s = new(r))
    <3>1. PICK q \in earnings : s.id = q.id /\ (s = q \/ (q \in disclosures /\ s = new(q)))
      BY <2>7
    <3>2. q = r
      BY <3>1, <2>9, <1>2, OneRowOfId DEF Table
    <3>. QED  BY <3>1, <3>2
  <2>10. Succeeds(earnings, u)
    <3>1. \A r \in earnings, s \in u : r.id = s.id => Kept(r, s)
      BY <2>4, <2>9 DEF Kept
    <3>2. ASSUME NEW r \in earnings  PROVE \E s \in u : s.id = r.id /\ Kept(r, s)
      <4>1. CASE r \in disclosures
        BY <4>1, <2>4, <2>6
      <4>2. CASE r \notin disclosures
        BY <4>2 DEF Kept
      <4>. QED  BY <4>1, <4>2
    <3>3. \A r \in earnings : r.period # NoPeriod => \E s \in u : s.period = r.period
      BY <3>2 DEF Kept
    <3>. QED  BY <3>1, <3>2, <3>3 DEF Succeeds
  <2>11. Descends(earnings, u, ids)
    BY <2>7 DEF Descends
  <2>12. \A r \in earnings, s \in u : r.id = s.id => s.date = r.date
    BY <2>9, <2>4
  <2>. HIDE DEF u
  <2>. QED  BY <1>1, <1>2, <1>4, <2>1, <2>8, <2>10, <2>11, <2>12, LaterPass
<1>. QED  BY <1>5, <1>6

\* A new row is typed and has the next id.
LEMMA InsertedRow ==
  ASSUME TypeOK, ids < MaxRows, NEW e \in Event, NEW source \in Providers
  PROVE  /\ Inserted(e, source) \in Row
         /\ Inserted(e, source).id = ids + 1
<1>1. ids + 1 \in 1 .. MaxRows
  BY CalendarAssumption DEF TypeOK
<1>2. /\ (IF e.act THEN "longbridge" ELSE "none") \in Providers \cup {"none"}
      /\ (IF source = "futu" THEN "futu" ELSE "unknown") \in Providers \cup {"unknown", "algorithm"}
  BY DEF Providers
<1>. QED  BY <1>1, <1>2 DEF Inserted, Row, Event

\* The row that an event finds on its key keeps its identity, and fills it.
LEMMA MergedRow ==
  ASSUME NEW r \in Row, NEW e \in Event, NEW source \in Providers
  PROVE  /\ Merged(r, e, source) \in Row
         /\ Merged(r, e, source).id = r.id /\ Merged(r, e, source).date = r.date
         /\ Kept(r, Merged(r, e, source))
<1>. DEFINE period == Fill(r.period, e.period)
            est    == r.est \/ e.est
            act    == IF e.act THEN "longbridge" ELSE r.act
            is_predicted == r.is_predicted /\ r.period # e.period
            date_source  == IF source = "futu" THEN "futu" ELSE r.date_source
            s == Merged(r, e, source)
<1>1. s = [r EXCEPT !.period = period, !.est = est, !.act = act,
                    !.is_predicted = is_predicted, !.date_source = date_source]
  BY DEF Merged
<1>2. /\ period \in Periods \cup {NoPeriod} /\ act \in Providers \cup {"none"}
      /\ date_source \in Providers \cup {"unknown", "algorithm"}
  BY DEF Fill, Row, Event, Providers
<1>3. est \in BOOLEAN /\ is_predicted \in BOOLEAN
  OBVIOUS
<1>4. r.period # NoPeriod => period = r.period
  BY DEF Fill
<1>5. ~ r.is_predicted => ~ is_predicted
  OBVIOUS
<1>. HIDE DEF period, est, act, is_predicted, date_source, s
<1>. DEFINE filled == [r EXCEPT !.period = period, !.act = act, !.date_source = date_source]
<1>6. /\ filled \in Row /\ filled.id = r.id /\ filled.date = r.date
      /\ filled.type = r.type /\ filled.period = period
  <2>1. filled \in Row
    BY <1>2 DEF Row
  <2>2. filled.id = r.id /\ filled.date = r.date /\ filled.type = r.type /\ filled.period = period
    BY DEF Row
  <2>. QED  BY <2>1, <2>2
<1>7. s = [filled EXCEPT !.est = est, !.is_predicted = is_predicted]
  BY <1>1 DEF Row
<1>. HIDE DEF filled
<1>8. s \in Row
  BY <1>3, <1>6, <1>7 DEF Row
<1>9. s.id = filled.id /\ s.date = filled.date /\ s.type = filled.type /\ s.period = filled.period
  BY <1>6, <1>7 DEF Row
<1>10. s.is_predicted = is_predicted
  BY <1>6, <1>7 DEF Row
<1>11. Kept(r, s)
  BY <1>4, <1>5, <1>6, <1>8, <1>9, <1>10 DEF Kept, is_disclosure
<1>. QED  BY <1>6, <1>8, <1>9, <1>11 DEF s

LEMMA UpsertStep ==
  ASSUME CalendarInvariant, NEW i \in DOMAIN txn.batch, Upsert(i)
  PROVE  BatchStep
<1>1. /\ Open /\ txn \in TxnState /\ txn.pc = "upsert" /\ i \in Nat
      /\ UNCHANGED <<today, run>>
  BY DEF Upsert, In, CalendarInvariant, TypeOK, Open, TxnState, IsNext
<1>2. Table(earnings, ids) /\ TypeOK /\ ids \in 0 .. MaxRows
  BY DEF CalendarInvariant, TypeOK, Table
<1>. DEFINE e    == txn.batch[i]
            next == IF txn.source = "longbridge" THEN "label" ELSE "commit"
            new  == \A r \in earnings : ~ SameKey(r, e)
            u    == Upserted(earnings, e, txn.source)
<1>3. next \in {"label", "commit"} /\ e \in Event /\ txn.source \in Providers
  BY <1>1 DEF TxnState
<1>4. CASE ~ Keyed(u) /\ UNCHANGED <<earnings, ids>>
  <2>1. Turn([txn EXCEPT !.single = TRUE], i, FALSE, next)
    BY <1>4 DEF Upsert
  <2>2. [txn EXCEPT !.single = TRUE] \in TxnState
    BY <1>1 DEF TxnState
  <2>3. /\ [txn EXCEPT !.single = TRUE].pc = txn.pc /\ [txn EXCEPT !.single = TRUE].batch = txn.batch
        /\ [txn EXCEPT !.single = TRUE].before = txn.before
    BY <1>1 DEF TxnState
  <2>4. \/ txn' = NoTxn
        \/ txn' \in TxnState /\ txn'.before = txn.before /\ txn'.batch = txn.batch /\ txn'.pc # "reschedule"
    BY <2>1, <2>2, <2>3, <1>1, <1>3, Turned
  <2>. QED  BY <1>1, <1>4, <2>4, PassOver
<1>5. CASE /\ Keyed(u) /\ earnings' = u /\ ids' = (IF new THEN ids + 1 ELSE ids)
           /\ new => ids < MaxRows
           /\ Turn(txn, i, TRUE, next)
  <2>1. \/ txn' = NoTxn
        \/ txn' \in TxnState /\ txn'.before = txn.before /\ txn'.batch = txn.batch /\ txn'.pc # "reschedule"
    BY <1>1, <1>3, <1>5, Turned
  <2>2. ids' \in ids .. MaxRows /\ ids' \in Nat
    <3>1. CASE new
      BY <1>2, <1>5, <3>1, CalendarAssumption
    <3>2. CASE ~ new
      BY <1>2, <1>5, <3>2, CalendarAssumption
    <3>. QED  BY <3>1, <3>2
  <2>3. \A r \in earnings : r \in Row /\ r.id <= ids /\ r.id <= ids' /\ r.id # ids + 1
    <3>. SUFFICES ASSUME NEW r \in earnings  PROVE r \in Row /\ r.id <= ids /\ r.id <= ids' /\ r.id # ids + 1
      OBVIOUS
    <3>1. r \in Row /\ r.id <= ids /\ r.id \in Nat
      BY <1>2 DEF Table, Row
    <3>. QED  BY <3>1, <1>2, <2>2
  <2>4. CASE new
    <3>. DEFINE x == Inserted(e, txn.source)
    <3>1. earnings' = earnings \cup {x}
      BY <1>5, <2>4 DEF Upserted
    <3>2. x \in Row /\ x.id = ids + 1 /\ ids' = ids + 1
      BY <1>2, <1>3, <1>5, <2>4, InsertedRow
    <3>. HIDE DEF x
    <3>3. \A s \in earnings' : s \in earnings \/ (s = x /\ ~ (s.id <= ids))
      BY <3>1, <3>2, <1>2
    <3>4. Table(earnings', ids')
      BY <1>5, <3>1, <3>2, <2>2, <2>3 DEF Table
    <3>5. \A r \in earnings, s \in earnings' : r.id = s.id => r = s
      BY <3>3, <2>3, <1>2, OneRowOfId DEF Table
    <3>6. Succeeds(earnings, earnings')
      BY <3>1, <3>5 DEF Succeeds, Kept
    <3>7. Descends(earnings, earnings', ids)
      BY <3>3 DEF Descends
    <3>. QED  BY <1>1, <2>1, <2>2, <3>4, <3>5, <3>6, <3>7, LaterPass
  <2>5. CASE ~ new
    <3>. DEFINE held == {r \in earnings : SameKey(r, e)}
                merged(r) == Merged(r, e, txn.source)
    <3>1. earnings' = (earnings \ held) \cup {merged(r) : r \in held} /\ held \subseteq earnings
      BY <1>5, <2>5 DEF Upserted
    <3>2. \A r \in held : /\ merged(r) \in Row /\ merged(r).id = r.id /\ merged(r).date = r.date
                          /\ Kept(r, merged(r))
      BY <1>3, <2>3, MergedRow
    <3>. HIDE DEF held, merged
    <3>3. \A s \in earnings' : \E r \in earnings : s.id = r.id /\ (s = r \/ (r \in held /\ s = merged(r)))
      BY <3>1, <3>2
    <3>4. ASSUME NEW r \in earnings, NEW s \in earnings', r.id = s.id
          PROVE  s.date = r.date /\ Kept(r, s)
      <4>1. PICK q \in earnings : s.id = q.id /\ (s = q \/ (q \in held /\ s = merged(q)))
        BY <3>3
      <4>2. q = r
        BY <4>1, <3>4, <1>2, OneRowOfId DEF Table
      <4>. QED  BY <4>1, <4>2, <3>2 DEF Kept
    <3>5. Table(earnings', ids')
      BY <1>5, <3>2, <3>3, <2>3 DEF Table
    <3>6. Succeeds(earnings, earnings')
      <4>1. ASSUME NEW r \in earnings  PROVE \E s \in earnings' : s.id = r.id /\ Kept(r, s)
        <5>1. CASE r \in held
          BY <5>1, <3>1, <3>2
        <5>2. CASE r \notin held
          BY <5>2, <3>1 DEF Kept
        <5>. QED  BY <5>1, <5>2
      <4>2. \A r \in earnings : r.period # NoPeriod => \E s \in earnings' : s.period = r.period
        BY <4>1 DEF Kept
      <4>. QED  BY <4>1, <4>2, <3>4 DEF Succeeds
    <3>7. Descends(earnings, earnings', ids)
      BY <3>3 DEF Descends
    <3>. QED  BY <1>1, <2>1, <2>2, <3>4, <3>5, <3>6, <3>7, LaterPass
  <2>. QED  BY <2>4, <2>5
<1>. QED  BY <1>4, <1>5 DEF Upsert

LEMMA LabelStep ==
  ASSUME CalendarInvariant, Label
  PROVE  BatchStep
<1>1. /\ Open /\ txn \in TxnState /\ txn.pc = "label" /\ txn' = NoTxn
      /\ UNCHANGED <<ids, today, run>>
  BY DEF Label, In, CalendarInvariant, TypeOK, Open
<1>2. Table(earnings, ids) /\ ids' \in ids .. MaxRows /\ ids' = ids
  BY <1>1 DEF CalendarInvariant, TypeOK, Table
<1>. DEFINE dates == {txn.batch[i].date : i \in txn.todo}
            new(r) == IF r.date \in dates
                      THEN [r EXCEPT !.date_source = "longbridge",
                                     !.actual_source = IF r.act # "none" THEN "longbridge" ELSE @]
                      ELSE r
            f == [r \in earnings |-> new(r)]
<1>3. earnings' = {f[r] : r \in earnings}
  BY DEF Label
<1>4. \A r \in earnings : r \in Row
  BY <1>2 DEF Table
<1>5. \A r \in earnings :
        /\ new(r) \in Row /\ new(r).id = r.id /\ new(r).date = r.date /\ new(r).type = r.type
        /\ new(r).period = r.period
  BY <1>4 DEF Row, Providers
<1>6. \A r \in earnings : new(r).is_predicted <=> r.is_predicted
  BY <1>4 DEF Row
<1>. HIDE DEF new
<1>7. /\ f \in [earnings -> Row]
      /\ \A r \in earnings : f[r] = new(r)
  BY <1>5
<1>. HIDE DEF f
<1>8. /\ \A r \in earnings : /\ f[r].id = r.id /\ f[r].date = r.date /\ f[r].type = r.type
                              /\ f[r].period = r.period
      /\ \A r \in earnings : f[r].is_predicted <=> r.is_predicted
  BY <1>5, <1>6, <1>7
<1>9. Table(earnings', ids') /\ Descends(earnings, earnings', ids)
  <2>1. \A r \in earnings : r.is_predicted => f[r].is_predicted
    BY <1>8
  <2>2. Table({f[r] : r \in earnings}, ids) /\ Descends(earnings, {f[r] : r \in earnings}, ids)
    BY <1>2, <1>7, <1>8, <2>1, Mapped
  <2>. QED  BY <2>2, <1>2, <1>3
<1>10. ASSUME NEW r \in earnings, NEW s \in earnings', r.id = s.id
       PROVE  s = f[r]
  BY <1>2, <1>3, <1>8, <1>10, OneRowOfId DEF Table
<1>11. \A r \in earnings : f[r] \in earnings' /\ Kept(r, f[r])
  BY <1>3, <1>8 DEF Kept, is_disclosure
<1>12. Succeeds(earnings, earnings')
  BY <1>8, <1>10, <1>11 DEF Succeeds
<1>13. \A r \in earnings, s \in earnings' : r.id = s.id => s.date = r.date
  BY <1>8, <1>10
<1>. QED  BY <1>1, <1>2, <1>9, <1>12, <1>13, LaterPass

\* A new transaction has made nothing of the table yet.
LEMMA BeginKeeps ==
  ASSUME CalendarInvariant, NEW source \in Providers, NEW b \in Seq(Event), Begin(source, b)
  PROVE  CalendarInvariant' /\ Committed' = Committed
<1>. DEFINE todo == Collapsed(b, IF source = "longbridge" THEN Deduped(b) ELSE DOMAIN b)
<1>1. todo \in SUBSET Nat
  BY DEF Collapsed, Deduped
<1>. HIDE DEF todo
<1>2. /\ ~ Open /\ UNCHANGED <<earnings, ids, today, run>>
      /\ txn' = [pc |-> "reschedule", source |-> source, batch |-> b, todo |-> todo,
                 kept |-> {}, takeover |-> source = "longbridge", single |-> FALSE,
                 before |-> earnings]
  BY DEF Begin, todo
<1>3. TypeOK /\ Table(earnings, ids)
  BY DEF CalendarInvariant, TypeOK, Table
<1>4. (source = "longbridge") \in BOOLEAN
  OBVIOUS
<1>5. txn' \in TxnState
  BY <1>1, <1>2, <1>3, <1>4 DEF TxnState, Table
<1>6. txn'.before = earnings /\ txn'.batch = b
  BY <1>2
<1>7. Open'
  BY <1>5, NoTxnIsClosed DEF Open
<1>8. Committed' = Committed
  BY <1>2, <1>6, <1>7 DEF Committed
<1>9. TypeOK'
  BY <1>2, <1>3, <1>5 DEF TypeOK
<1>10. SeenReleases'
  <2>1. Committed' = Committed /\ earnings' = earnings /\ ids' = ids /\ run' = run
    BY <1>2, <1>8
  <2>2. SeenReleases
    BY DEF CalendarInvariant
  <2>. QED  BY <2>1, <2>2 DEF SeenReleases
<1>11. \A r \in earnings, s \in earnings : r.id = s.id => r = s
  BY <1>3, OneRowOfId DEF Table
<1>12. /\ Succeeds(earnings, earnings) /\ SamePeriods(earnings, earnings)
       /\ DatesFollow(earnings, earnings, b)
  BY <1>3, <1>11, Unchanged DEF SamePeriods, DatesFollow
<1>13. /\ Table(txn'.before, ids') /\ Succeeds(txn'.before, earnings')
       /\ DatesFollow(txn'.before, earnings', txn'.batch) /\ SamePeriods(txn'.before, earnings')
  BY <1>2, <1>3, <1>6, <1>12
<1>. QED  BY <1>8, <1>9, <1>10, <1>13 DEF CalendarInvariant

\* A batch that fails leaves what it found, and the ids it drew.
LEMMA FailKeeps ==
  ASSUME CalendarInvariant, Fail
  PROVE  CalendarInvariant' /\ Committed' = Committed
<1>1. /\ Open /\ earnings' = txn.before /\ txn' = NoTxn /\ UNCHANGED <<ids, today, run>>
      /\ TypeOK /\ Table(txn.before, ids) /\ SeenReleases
  BY DEF Fail, CalendarInvariant
<1>2. ~ Open'
  BY <1>1 DEF Open
<1>3. Committed = txn.before /\ Committed' = txn.before
  BY <1>1, <1>2 DEF Committed
<1>4. TypeOK'
  BY <1>1 DEF TypeOK, Table
<1>5. SeenReleases'
  BY <1>1, <1>3 DEF SeenReleases
<1>. QED  BY <1>2, <1>3, <1>4, <1>5 DEF CalendarInvariant

----------------------------------------------------------------------------
(* Steps between batches                                                   *)

\* What single statements may make of a table: rows keep their periods and types and
\* facts their dates, what a provider confirmed stays confirmed, and a period
\* keeps a row unless all it has are outdated predictions.
Between(t, u) ==
  /\ \A r \in t, s \in u :
       r.id = s.id => /\ r.period # NoPeriod => s.period = r.period
                      /\ ~ r.is_predicted => s.date = r.date
                      /\ s.type = r.type
  /\ \A r \in t : ~ r.is_predicted /\ r.date_source # "algorithm"
                  => \E s \in u : s.id = r.id /\ ~ s.is_predicted
  /\ \A r \in t : /\ r.period # NoPeriod
                  /\ r.is_predicted => r.date + Retention >= today
                  => \E s \in u : s.period = r.period

\* A step that is no batch's, without what it does to the prediction run.
TableStep ==
  /\ ~ Open /\ txn' = txn
  /\ today' \in Dates /\ ids' \in ids .. MaxRows
  /\ Table(earnings', ids') /\ Between(earnings, earnings') /\ Descends(earnings, earnings', ids)

LEMMA SameTable ==
  ASSUME CalendarInvariant, ~ Open
  PROVE  /\ TypeOK /\ Table(earnings, ids) /\ ids \in ids .. MaxRows
         /\ Between(earnings, earnings) /\ Descends(earnings, earnings, ids)
<1>1. TypeOK /\ Table(earnings, ids) /\ ids \in ids .. MaxRows
  BY DEF CalendarInvariant, TypeOK, Table
<1>2. \A r \in earnings, s \in earnings : r.id = s.id => r = s
  BY <1>1, OneRowOfId DEF Table
<1>3. Between(earnings, earnings)
  BY <1>2 DEF Between
<1>. QED  BY <1>1, <1>3, Unchanged

\* The invariant after such a step, given what the run has seen.
LEMMA TableStepKeeps ==
  ASSUME CalendarInvariant, TableStep, run' \in RunState \cup {Asleep},
         run'.pc \in {"walk", "upsert", "restate"} =>
           \/ run.pc \in {"walk", "upsert", "restate"} /\ run'.seen \subseteq run.seen
           \/ /\ earnings' = earnings
              /\ \A m \in run'.seen : \E r \in earnings : r.id = m.id /\ r.type = "Q"
  PROVE  CalendarInvariant'
<1>1. TypeOK /\ Table(earnings, ids) /\ ~ Open /\ ~ Open' /\ txn' = txn /\ SeenReleases
  BY DEF CalendarInvariant, TypeOK, Table, TableStep, Open
<1>2. Committed = earnings /\ Committed' = earnings'
  BY <1>1 DEF Committed
<1>3. ids \in Nat /\ ids' \in Nat /\ ids <= ids' /\ ids' <= MaxRows
  BY <1>1, CalendarAssumption DEF TableStep, TypeOK
<1>4. TypeOK'
  BY <1>1, <1>3 DEF TypeOK, TableStep, Table
<1>5. SeenReleases'
  <2>. SUFFICES ASSUME run'.pc \in {"walk", "upsert", "restate"}, NEW m \in run'.seen
                PROVE  m.id <= ids' /\ \A s \in earnings' : s.id = m.id => s.type = "Q"
    BY <1>2 DEF SeenReleases
  <2>1. m.id \in Nat
    <3>1. m \in Seen
      BY DEF RunState, Asleep
    <3>. QED  BY <3>1 DEF Seen
  <2>2. m.id <= ids /\ \A r \in earnings : r.id = m.id => r.type = "Q"
    <3>1. CASE run.pc \in {"walk", "upsert", "restate"} /\ m \in run.seen
      BY <3>1, <1>1 DEF SeenReleases
    <3>2. CASE \E r \in earnings : r.id = m.id /\ r.type = "Q"
      BY <3>2, <1>1, OneRowOfId DEF Table
    <3>. QED  BY <3>1, <3>2
  <2>3. ASSUME NEW s \in earnings', s.id = m.id  PROVE s.type = "Q"
    <3>1. PICK r \in earnings : r.id = s.id
      BY <2>2, <2>3 DEF TableStep, Descends
    <3>. QED  BY <3>1, <2>2, <2>3 DEF TableStep, Between
  <2>. QED  BY <2>1, <2>2, <2>3, <1>3
<1>. QED  BY <1>1, <1>4, <1>5 DEF CalendarInvariant

\* Changes of labels, figures and of the run leave the table's identities alone.
LEMMA FutuActualStep ==
  ASSUME CalendarInvariant, NEW p \in Periods, FutuActual(p)
  PROVE  TableStep
<1>1. ~ Open /\ UNCHANGED <<ids, today, txn, run>>
  BY DEF FutuActual
<1>2. TypeOK /\ Table(earnings, ids) /\ ids' \in ids .. MaxRows /\ ids' = ids /\ today' \in Dates
  BY <1>1, SameTable DEF TypeOK
<1>. DEFINE new(r) == IF r.period = p /\ ~ (r.est /\ r.actual_source = "longbridge")
                      THEN [r EXCEPT !.act = "futu", !.actual_source = "futu"] ELSE r
            f == [r \in earnings |-> new(r)]
<1>3. earnings' = {f[r] : r \in earnings}
  BY DEF FutuActual
<1>4. \A r \in earnings : r \in Row
  BY <1>2 DEF Table
<1>5. \A r \in earnings :
        /\ new(r) \in Row /\ new(r).id = r.id /\ new(r).date = r.date /\ new(r).type = r.type
        /\ new(r).period = r.period
  BY <1>4 DEF Row, Providers
<1>6. \A r \in earnings : new(r).is_predicted <=> r.is_predicted
  BY <1>4 DEF Row
<1>. HIDE DEF new
<1>7. /\ f \in [earnings -> Row]
      /\ \A r \in earnings : f[r] = new(r)
  BY <1>5
<1>. HIDE DEF f
<1>8. /\ \A r \in earnings : /\ f[r].id = r.id /\ f[r].date = r.date /\ f[r].type = r.type
                              /\ f[r].period = r.period
      /\ \A r \in earnings : f[r].is_predicted <=> r.is_predicted
  BY <1>5, <1>6, <1>7
<1>9. Table(earnings', ids') /\ Descends(earnings, earnings', ids)
  <2>1. \A r \in earnings : r.is_predicted => f[r].is_predicted
    BY <1>8
  <2>2. Table({f[r] : r \in earnings}, ids) /\ Descends(earnings, {f[r] : r \in earnings}, ids)
    BY <1>2, <1>7, <1>8, <2>1, Mapped
  <2>. QED  BY <2>2, <1>2, <1>3
<1>10. ASSUME NEW r \in earnings, NEW s \in earnings', r.id = s.id
       PROVE  s = f[r]
  BY <1>2, <1>3, <1>8, <1>10, OneRowOfId DEF Table
<1>11. \A r \in earnings : f[r] \in earnings'
  BY <1>3
<1>12. Between(earnings, earnings')
  BY <1>8, <1>10, <1>11 DEF Between
<1>. QED  BY <1>1, <1>2, <1>9, <1>12 DEF TableStep

\* The start of a prediction run labels, deletes only predictions of confirmed
\* periods and promotes.
LEMMA MarkConfirmedTable ==
  ASSUME NEW t, NEW n, Table(t, n), Keyed(Promoted(Labelled(t) \ Overtaken(Labelled(t))))
  PROVE  LET u == Promoted(Labelled(t) \ Overtaken(Labelled(t)))
         IN  Table(u, n) /\ Between(t, u) /\ Descends(t, u, n)
<1>. DEFINE lab(r)  == IF r.is_predicted THEN [r EXCEPT !.date_source = "algorithm"] ELSE r
            prom(r) == IF r.is_predicted /\ r.act # "none" /\ r.date <= today
                       THEN [r EXCEPT !.is_predicted = FALSE] ELSE r
            l == {lab(r) : r \in t}
            u == Promoted(l \ Overtaken(l))
<1>1. Labelled(t) = l
  BY DEF Labelled
<1>2. \A r \in t : r \in Row /\ r.id <= n
  BY DEF Table
<1>3. \A r \in t : /\ lab(r) \in Row /\ lab(r).id = r.id /\ lab(r).date = r.date
                  /\ lab(r).type = r.type /\ lab(r).period = r.period
  BY <1>2 DEF Row
<1>4. \A r \in t : ~ r.is_predicted => lab(r) = r
  OBVIOUS
<1>5. \A q \in Row : /\ prom(q) \in Row /\ prom(q).id = q.id /\ prom(q).date = q.date
                     /\ prom(q).type = q.type /\ prom(q).period = q.period
  <2>1. \A q \in Row : LET x == [q EXCEPT !.is_predicted = FALSE] IN
          x \in Row /\ x.id = q.id /\ x.date = q.date /\ x.type = q.type /\ x.period = q.period
    BY DEF Row
  <2>. QED  BY <2>1
<1>6. \A q \in Row : ~ q.is_predicted => prom(q) = q
  OBVIOUS
<1>7. /\ u = {prom(q) : q \in l \ Overtaken(l)}
      /\ \A q \in Overtaken(l) : /\ q \in l /\ q.is_predicted
                                /\ \E c \in l : ~ c.is_predicted /\ SamePeriod(q, c)
  BY DEF Promoted, Overtaken
<1>8. /\ \A q \in l : \E r \in t : q = lab(r)
      /\ \A r \in t : lab(r) \in l
  OBVIOUS
<1>. HIDE DEF lab, prom, l
<1>9. \A q \in l : q \in Row
  BY <1>3, <1>8
<1>10. ASSUME NEW s \in u
      PROVE  \E r \in t : /\ s \in Row /\ s.id = r.id /\ s.date = r.date
                         /\ s.type = r.type /\ s.period = r.period
  <2>1. PICK q \in l : s = prom(q)
    BY <1>7
  <2>2. PICK r \in t : q = lab(r)
    BY <1>8
  <2>. QED  BY <2>1, <2>2, <1>3, <1>5, <1>9
<1>11. \A q \in l : ~ q.is_predicted => q \in u
  BY <1>6, <1>7, <1>9
<1>12. Between(t, u)
  <2>1. ASSUME NEW r \in t, NEW s \in u, r.id = s.id
        PROVE  s.period = r.period /\ s.date = r.date /\ s.type = r.type
    <3>1. PICK q \in t : s.id = q.id /\ s.date = q.date /\ s.type = q.type /\ s.period = q.period
      BY <1>10
    <3>2. q = r
      BY <3>1, <2>1, OneRowOfId DEF Table
    <3>. QED  BY <3>1, <3>2
  <2>2. ASSUME NEW r \in t, ~ r.is_predicted  PROVE \E s \in u : s.id = r.id /\ ~ s.is_predicted
    BY <2>2, <1>4, <1>8, <1>11
  <2>3. ASSUME NEW r \in t, r.period # NoPeriod  PROVE \E s \in u : s.period = r.period
    <3>1. CASE lab(r) \in Overtaken(l)
      <4>1. PICK c \in l : ~ c.is_predicted /\ SamePeriod(lab(r), c)
        BY <1>7, <3>1
      <4>. QED  BY <4>1, <1>3, <1>11 DEF SamePeriod
    <3>2. CASE lab(r) \notin Overtaken(l)
      <4>1. lab(r) \in Row /\ prom(lab(r)) \in u
        BY <3>2, <1>3, <1>7, <1>8
      <4>. HIDE DEF u
      <4>. QED  BY <4>1, <1>3, <1>5
    <3>. QED  BY <3>1, <3>2
  <2>. HIDE DEF u
  <2>. QED  BY <2>1, <2>2, <2>3 DEF Between
<1>13. Keyed(u)
  BY <1>1
<1>. HIDE DEF u
<1>14. Table(u, n) /\ Descends(t, u, n)
  BY <1>2, <1>10, <1>13 DEF Table, Descends
<1>. QED  BY <1>1, <1>12, <1>14 DEF u

LEMMA MarkConfirmedStep ==
  ASSUME CalendarInvariant, MarkConfirmed
  PROVE  CalendarInvariant' /\ TableStep
<1>1. /\ ~ Open /\ UNCHANGED <<ids, today, txn>>
      /\ earnings' = Guarded(earnings, MarkedConfirmed)
  BY DEF MarkConfirmed
<1>2. /\ TypeOK /\ Table(earnings, ids) /\ ids' \in ids .. MaxRows /\ ids' = ids /\ today' \in Dates
      /\ Between(earnings, earnings) /\ Descends(earnings, earnings, ids)
  BY <1>1, SameTable DEF TypeOK
<1>3. TableStep
  <2>1. CASE Keyed(MarkedConfirmed)
    <3>1. earnings' = Promoted(Labelled(earnings) \ Overtaken(Labelled(earnings)))
      BY <1>1, <2>1 DEF Guarded, MarkedConfirmed
    <3>2. Keyed(Promoted(Labelled(earnings) \ Overtaken(Labelled(earnings))))
      BY <2>1 DEF MarkedConfirmed
    <3>. QED  BY <1>1, <1>2, <3>1, <3>2, MarkConfirmedTable DEF TableStep
  <2>2. CASE ~ Keyed(MarkedConfirmed)
    <3>1. earnings' = earnings
      BY <1>1, <2>2 DEF Guarded
    <3>. QED  BY <1>1, <1>2, <3>1 DEF TableStep
  <2>. QED  BY <2>1, <2>2
<1>4. run' \in RunState /\ run'.pc \in {"cleanup", "failed"}
  BY DEF MarkConfirmed, RunState
<1>. QED  BY <1>3, <1>4, TableStepKeeps

\* A step that leaves the rows alone.
LEMMA RowsUntouched ==
  ASSUME CalendarInvariant, ~ Open, UNCHANGED <<earnings, ids, txn>>, today' \in Dates
  PROVE  TableStep
BY SameTable DEF TableStep

\* Cleanup drops outdated predictions only.
LEMMA CleanupStep ==
  ASSUME CalendarInvariant, Cleanup
  PROVE  CalendarInvariant' /\ TableStep
<1>1. /\ ~ Open /\ UNCHANGED <<ids, today, txn>>
      /\ earnings' = {r \in earnings : r.is_predicted => r.date + Retention >= today}
  BY DEF Cleanup, Step
<1>2. TypeOK /\ Table(earnings, ids) /\ ids' \in ids .. MaxRows /\ ids' = ids /\ today' \in Dates
  BY <1>1, SameTable DEF TypeOK
<1>3. earnings' \in SUBSET earnings
  BY <1>1
<1>4. Table(earnings', ids')
  BY <1>2, <1>3, SubTable
<1>5. \A r \in earnings, s \in earnings' : r.id = s.id => r = s
  BY <1>2, <1>3, OneRowOfId DEF Table
<1>6. Between(earnings, earnings')
  BY <1>1, <1>5 DEF Between
<1>7. Descends(earnings, earnings', ids)
  BY <1>3 DEF Descends
<1>8. TableStep
  BY <1>1, <1>2, <1>4, <1>6, <1>7 DEF TableStep
<1>9. run' \in RunState /\ run'.pc = "read"
  BY DEF Cleanup, RunState
<1>. QED  BY <1>8, <1>9, TableStepKeeps

\* What the run reads it may move are releases, predicted for a period.
LEMMA ReadRowsStep ==
  ASSUME CalendarInvariant, ReadRows
  PROVE  CalendarInvariant' /\ TableStep
<1>1. ~ Open /\ UNCHANGED <<earnings, ids, today, txn>> /\ TypeOK
  BY DEF ReadRows, Step, CalendarInvariant
<1>. DEFINE seen == {[id |-> m.id, date |-> m.date, period |-> m.period] : m \in Movable}
<1>2. PICK r \in earnings : /\ r.period # NoPeriod
                           /\ run' = [pc |-> "walk", at |-> r.period, seen |-> seen]
  BY DEF ReadRows
<1>3. TableStep
  BY <1>1, RowsUntouched DEF TypeOK
<1>4. \A m \in Movable : m \in earnings /\ m \in Row /\ m.period # NoPeriod /\ m.type = "Q"
  BY <1>1 DEF Movable, TypeOK
<1>5. \A m \in seen : m \in Seen /\ \E q \in earnings : q.id = m.id /\ q.type = "Q"
  <2>. SUFFICES ASSUME NEW q \in Movable
                PROVE  /\ [id |-> q.id, date |-> q.date, period |-> q.period] \in Seen
                       /\ q \in earnings /\ q.type = "Q"
    OBVIOUS
  <2>. QED  BY <1>4 DEF Row, Seen
<1>6. r.period \in Periods
  BY <1>1, <1>2 DEF TypeOK, Row
<1>. HIDE DEF seen
<1>7. run' \in RunState /\ run'.seen = seen
  BY <1>2, <1>5, <1>6 DEF RunState
<1>. QED  BY <1>1, <1>3, <1>5, <1>7, TableStepKeeps

\* A prediction is moved to a free release key only, and nothing else is.
LEMMA MovedTable ==
  ASSUME CalendarInvariant, ~ Open, run.pc \in {"walk", "restate"},
         NEW m \in run.seen, NEW d \in Dates
  PROVE  LET u == MovedPrediction(m, d)
         IN  Table(u, ids) /\ Between(earnings, u) /\ Descends(earnings, u, ids)
<1>1. Table(earnings, ids) /\ Between(earnings, earnings) /\ Descends(earnings, earnings, ids)
  BY SameTable
<1>2. \A r \in earnings : r.id = m.id => r.type = "Q"
  BY DEF CalendarInvariant, SeenReleases
<1>. DEFINE u == MovedPrediction(m, d)
            moves(r) == /\ r.id = m.id /\ r.date = m.date /\ r.is_predicted
                        /\ r.date_source = "algorithm" /\ r.act = "none"
            new(r) == IF moves(r) THEN [r EXCEPT !.date = d] ELSE r
<1>3. CASE u = earnings
  BY <1>1, <1>3
<1>4. CASE u # earnings
  <2>1. /\ u = {new(r) : r \in earnings}
        /\ \A h \in earnings : ~ (h.date = d /\ h.type = "Q")
    BY <1>4 DEF MovedPrediction
  <2>2. \A r \in earnings : r \in Row /\ r.id <= ids
    BY <1>1 DEF Table
  <2>3. \A r \in earnings :
          /\ new(r) \in Row /\ new(r).id = r.id /\ new(r).type = r.type /\ new(r).period = r.period
          /\ new(r).is_predicted = r.is_predicted
    BY <2>2 DEF Row
  <2>4. \A r \in earnings : \/ new(r).date = r.date
                            \/ r.id = m.id /\ r.is_predicted /\ r.type = "Q" /\ new(r).date = d
    <3>. SUFFICES ASSUME NEW r \in earnings, moves(r)  PROVE r.type = "Q" /\ new(r).date = d
      OBVIOUS
    <3>. QED  BY <1>2, <2>2 DEF Row
  <2>5. /\ \A s \in u : \E r \in earnings : s = new(r)
        /\ \A r \in earnings : new(r) \in u
    BY <2>1
  <2>. HIDE DEF new, u
  <2>6. ASSUME NEW x \in u, NEW y \in u, x # y
        PROVE  /\ x.id # y.id /\ ~ SameKey(x, y)
               /\ SamePeriod(x, y) => x.is_predicted \/ y.is_predicted
    <3>1. PICK r \in earnings, s \in earnings : x = new(r) /\ y = new(s)
      BY <2>5
    <3>2. /\ r.id # s.id /\ ~ SameKey(r, s)
          /\ SamePeriod(r, s) => r.is_predicted \/ s.is_predicted
      BY <3>1, <2>6, <1>1 DEF Table, Keyed
    <3>3. x.id # y.id
      BY <3>1, <3>2, <2>3
    <3>4. ~ SameKey(x, y)
      <4>. SUFFICES ASSUME SameKey(x, y)  PROVE FALSE
        OBVIOUS
      <4>1. x.date = y.date /\ r.type = s.type
        BY <3>1, <2>3 DEF SameKey
      <4>2. CASE x.date = r.date /\ y.date = s.date
        BY <4>1, <4>2, <3>2 DEF SameKey
      <4>3. CASE x.date # r.date
        <5>1. x.date = d /\ r.type = "Q" /\ r.id = m.id
          BY <4>3, <3>1, <2>4
        <5>2. y.date = s.date
          BY <5>1, <3>1, <3>2, <2>4
        <5>. QED  BY <4>1, <5>1, <5>2, <2>1
      <4>4. CASE y.date # s.date
        <5>1. y.date = d /\ s.type = "Q" /\ s.id = m.id
          BY <4>4, <3>1, <2>4
        <5>2. x.date = r.date
          BY <5>1, <3>1, <3>2, <2>4
        <5>. QED  BY <4>1, <5>1, <5>2, <2>1
      <4>. QED  BY <4>2, <4>3, <4>4
    <3>5. SamePeriod(x, y) => SamePeriod(r, s)
      BY <3>1, <2>3 DEF SamePeriod
    <3>6. x.is_predicted = r.is_predicted /\ y.is_predicted = s.is_predicted
      BY <3>1, <2>3
    <3>. QED  BY <3>2, <3>3, <3>4, <3>5, <3>6
  <2>7. Table(u, ids)
    BY <2>2, <2>3, <2>5, <2>6 DEF Table, Keyed
  <2>8. ASSUME NEW r \in earnings, NEW s \in u, r.id = s.id  PROVE s = new(r)
    BY <2>3, <2>5, <2>8, <1>1, OneRowOfId DEF Table
  <2>9. Between(earnings, u)
    <3>1. \A r \in earnings, s \in u :
            r.id = s.id => /\ r.period # NoPeriod => s.period = r.period
                           /\ ~ r.is_predicted => s.date = r.date
                           /\ s.type = r.type
      BY <2>3, <2>4, <2>8
    <3>2. \A r \in earnings : ~ r.is_predicted /\ r.date_source # "algorithm"
                               => \E s \in u : s.id = r.id /\ ~ s.is_predicted
      BY <2>3, <2>5
    <3>3. \A r \in earnings :
            /\ r.period # NoPeriod
            /\ r.is_predicted => r.date + Retention >= today
            => \E s \in u : s.period = r.period
      BY <2>3, <2>5
    <3>. QED  BY <3>1, <3>2, <3>3 DEF Between
  <2>10. Descends(earnings, u, ids)
    BY <2>3, <2>5 DEF Descends
  <2>. QED  BY <2>7, <2>9, <2>10 DEF u
<1>. QED  BY <1>3, <1>4

LEMMA SkipPeriodStep ==
  ASSUME CalendarInvariant, NEW p \in Periods, SkipPeriod(p)
  PROVE  CalendarInvariant' /\ TableStep
<1>1. /\ ~ Open /\ UNCHANGED <<earnings, ids, today, txn>> /\ run.pc = "walk" /\ TypeOK
      /\ run' = [run EXCEPT !.at = p, !.seen = @ \ SeenOf(p)]
  BY DEF SkipPeriod, Step, CalendarInvariant
<1>2. TableStep
  BY <1>1, RowsUntouched DEF TypeOK
<1>3. run \in [pc : {"walk"}, at : Periods, seen : SUBSET Seen]
  BY <1>1 DEF TypeOK, RunState, Asleep
<1>4. run' \in [pc : {"walk"}, at : Periods, seen : SUBSET Seen] /\ run'.seen \subseteq run.seen
  BY <1>1, <1>3
<1>5. run' \in RunState
  BY <1>4 DEF RunState
<1>. QED  BY <1>1, <1>2, <1>4, <1>5, TableStepKeeps

LEMMA PredictPeriodStep ==
  ASSUME CalendarInvariant, NEW p \in Periods, NEW d \in Dates, PredictPeriod(p, d)
  PROVE  CalendarInvariant' /\ TableStep
<1>1. /\ ~ Open /\ UNCHANGED <<ids, today, txn>> /\ run.pc = "walk" /\ TypeOK
      /\ earnings' = IF SeenOf(p) = {} THEN earnings
                     ELSE MovedPrediction(CHOOSE m \in SeenOf(p) : TRUE, d)
      /\ run' = [pc |-> "upsert", at |-> p, date |-> d, seen |-> run.seen \ SeenOf(p)]
  BY DEF PredictPeriod, Step, CalendarInvariant
<1>2. today' \in Dates /\ ids' = ids /\ ids' \in ids .. MaxRows
  BY <1>1, SameTable DEF TypeOK
<1>3. TableStep
  <2>1. CASE SeenOf(p) = {}
    BY <1>1, <1>2, <2>1, RowsUntouched
  <2>2. CASE SeenOf(p) # {}
    <3>1. (CHOOSE m \in SeenOf(p) : TRUE) \in run.seen
      BY <2>2 DEF SeenOf
    <3>2. PICK m \in run.seen : earnings' = MovedPrediction(m, d)
      BY <1>1, <2>2, <3>1
    <3>3. Table(earnings', ids) /\ Between(earnings, earnings') /\ Descends(earnings, earnings', ids)
      BY <1>1, <3>2, MovedTable
    <3>. QED  BY <1>1, <1>2, <3>3 DEF TableStep
  <2>. QED  BY <2>1, <2>2
<1>4. run \in [pc : {"walk"}, at : Periods, seen : SUBSET Seen]
  BY <1>1 DEF TypeOK, RunState, Asleep
<1>5. run.seen \ SeenOf(p) \in SUBSET Seen
  BY <1>4
<1>6. run' \in RunState /\ run'.seen \subseteq run.seen
  BY <1>1, <1>5 DEF RunState
<1>. QED  BY <1>1, <1>3, <1>6, TableStepKeeps

LEMMA RestateStep ==
  ASSUME CalendarInvariant, NEW d \in Dates, Restate(d)
  PROVE  CalendarInvariant' /\ TableStep
<1>1. ~ Open /\ UNCHANGED <<ids, today, txn>> /\ run.pc = "restate" /\ TypeOK
  BY DEF Restate, Step, CalendarInvariant
<1>2. PICK m \in run.seen : /\ earnings' = MovedPrediction(m, d)
                           /\ run' = [run EXCEPT !.seen = @ \ {m}]
  BY DEF Restate
<1>3. TableStep
  <2>1. today' \in Dates /\ ids' = ids /\ ids' \in ids .. MaxRows
    BY <1>1, SameTable DEF TypeOK
  <2>2. Table(earnings', ids) /\ Between(earnings, earnings') /\ Descends(earnings, earnings', ids)
    BY <1>1, <1>2, MovedTable
  <2>. QED  BY <1>1, <2>1, <2>2 DEF TableStep
<1>4. run \in [pc : {"restate"}, seen : SUBSET Seen]
  BY <1>1 DEF TypeOK, RunState, Asleep
<1>5. run' \in [pc : {"restate"}, seen : SUBSET Seen] /\ run'.seen \subseteq run.seen
  BY <1>2, <1>4
<1>6. run' \in RunState
  BY <1>5 DEF RunState
<1>. QED  BY <1>1, <1>3, <1>5, <1>6, TableStepKeeps

LEMMA StopWalkStep ==
  ASSUME CalendarInvariant, StopWalk
  PROVE  CalendarInvariant' /\ TableStep
<1>1. /\ ~ Open /\ UNCHANGED <<earnings, ids, today, txn>> /\ run.pc = "walk" /\ TypeOK
      /\ run' = [pc |-> "restate", seen |-> run.seen]
  BY DEF StopWalk, Step, CalendarInvariant
<1>2. TableStep
  BY <1>1, RowsUntouched DEF TypeOK
<1>3. run.seen \in SUBSET Seen
  BY <1>1 DEF TypeOK, RunState, Asleep
<1>4. run' \in RunState /\ run'.seen = run.seen
  BY <1>1, <1>3 DEF RunState
<1>. QED  BY <1>1, <1>2, <1>4, TableStepKeeps

LEMMA EndRunStep ==
  ASSUME CalendarInvariant, EndRun
  PROVE  CalendarInvariant' /\ TableStep
<1>1. /\ ~ Open /\ UNCHANGED <<earnings, ids, today, txn>> /\ TypeOK /\ run' = Asleep
  BY DEF EndRun, CalendarInvariant
<1>2. TableStep
  BY <1>1, RowsUntouched DEF TypeOK
<1>3. run'.pc = "none"
  BY <1>1 DEF Asleep
<1>. QED  BY <1>1, <1>2, <1>3, TableStepKeeps

LEMMA NextDayStep ==
  ASSUME CalendarInvariant, NextDay
  PROVE  CalendarInvariant' /\ TableStep
<1>1. /\ ~ Open /\ UNCHANGED <<earnings, ids, txn, run>> /\ TypeOK /\ today' \in Dates
  BY DEF NextDay, CalendarInvariant
<1>2. TableStep
  BY <1>1, RowsUntouched
<1>. QED  BY <1>1, <1>2, TableStepKeeps DEF TypeOK

\* A prediction takes a free release key, or makes a row of the algorithm's own a
\* prediction again.
LEMMA UpsertPredictionStep ==
  ASSUME CalendarInvariant, UpsertPrediction
  PROVE  CalendarInvariant' /\ TableStep
<1>1. /\ ~ Open /\ UNCHANGED <<today, txn>> /\ run.pc = "upsert" /\ TypeOK
      /\ run' = [pc |-> "walk", at |-> run.at, seen |-> run.seen]
  BY DEF UpsertPrediction, Step, CalendarInvariant
<1>2. run \in [pc : {"upsert"}, at : Periods, date : Dates, seen : SUBSET Seen]
  BY <1>1 DEF TypeOK, RunState, Asleep
<1>3. run' \in RunState /\ run'.seen = run.seen
  BY <1>1, <1>2 DEF RunState
<1>4. /\ Table(earnings, ids) /\ today' \in Dates /\ ids \in Nat /\ MaxRows \in Nat
      /\ Between(earnings, earnings) /\ ids \in ids .. MaxRows
  BY <1>1, SameTable, CalendarAssumption DEF TypeOK
<1>5. \A r \in earnings : r \in Row /\ r.id <= ids
  BY <1>4 DEF Table
<1>. DEFINE held == {r \in earnings : r.date = run.date /\ r.type = "Q"}
<1>6. CASE /\ earnings' = (earnings \ held) \cup {Repredicted(r) : r \in held}
           /\ UNCHANGED ids
  <2>. DEFINE new(r) == IF r \in held THEN Repredicted(r) ELSE r
              f == [r \in earnings |-> new(r)]
  <2>1. earnings' = {f[r] : r \in earnings}
    BY <1>6
  <2>2. \A r \in Row : LET s == Repredicted(r) IN
          /\ s \in Row /\ s.id = r.id /\ s.date = r.date /\ s.type = r.type /\ s.period = r.period
    <3>. SUFFICES ASSUME NEW r \in Row
                  PROVE  LET s == Repredicted(r) IN
                         s \in Row /\ s.id = r.id /\ s.date = r.date /\ s.type = r.type /\ s.period = r.period
      OBVIOUS
    <3>. DEFINE p == r.is_predicted \/ r.date_source = "algorithm"
    <3>1. p \in BOOLEAN /\ Repredicted(r) = [r EXCEPT !.is_predicted = p]
      BY DEF Repredicted
    <3>. HIDE DEF p
    <3>. QED  BY <3>1 DEF Row
  <2>3. \A r \in Row : Repredicted(r).is_predicted <=> (r.is_predicted \/ r.date_source = "algorithm")
    BY DEF Repredicted, Row
  <2>4. \A r \in earnings :
          /\ new(r) \in Row /\ new(r).id = r.id /\ new(r).date = r.date /\ new(r).type = r.type
          /\ new(r).period = r.period
    BY <1>5, <2>2
  <2>5. \A r \in earnings :
          \/ new(r).is_predicted <=> (r.is_predicted \/ r.date_source = "algorithm")
          \/ new(r).is_predicted <=> r.is_predicted
    BY <1>5, <2>3
  <2>. HIDE DEF new
  <2>6. f \in [earnings -> Row] /\ \A r \in earnings : f[r] = new(r)
    BY <2>4
  <2>. HIDE DEF f
  <2>7. /\ \A r \in earnings : /\ f[r].id = r.id /\ f[r].date = r.date /\ f[r].type = r.type
                                /\ f[r].period = r.period
        /\ \A r \in earnings : r.is_predicted => f[r].is_predicted
        /\ \A r \in earnings : ~ r.is_predicted /\ r.date_source # "algorithm" => ~ f[r].is_predicted
    <3>1. \A r \in earnings : /\ f[r].id = r.id /\ f[r].date = r.date /\ f[r].type = r.type
                              /\ f[r].period = r.period
      BY <2>4, <2>6
    <3>2. ASSUME NEW r \in earnings
          PROVE  /\ r.is_predicted => f[r].is_predicted
                 /\ ~ r.is_predicted /\ r.date_source # "algorithm" => ~ f[r].is_predicted
      <4>1. f[r] = new(r)
        BY <2>6
      <4>. QED  BY <4>1, <2>5
    <3>. QED  BY <3>1, <3>2
  <2>8. Table(earnings', ids') /\ Descends(earnings, earnings', ids)
    <3>1. Table({f[r] : r \in earnings}, ids) /\ Descends(earnings, {f[r] : r \in earnings}, ids)
      BY <1>4, <2>6, <2>7, Mapped
    <3>. QED  BY <3>1, <1>6, <2>1
  <2>9. ASSUME NEW r \in earnings, NEW s \in earnings', r.id = s.id  PROVE s = f[r]
    BY <1>4, <2>1, <2>7, <2>9, OneRowOfId DEF Table
  <2>10. \A r \in earnings : f[r] \in earnings'
    BY <2>1
  <2>11. Between(earnings, earnings')
    BY <2>7, <2>9, <2>10 DEF Between
  <2>. QED  BY <1>1, <1>3, <1>4, <1>6, <2>8, <2>11, TableStepKeeps DEF TableStep
<1>7. CASE held = {} /\ ids < MaxRows /\ ids' = ids + 1 /\
           earnings' = earnings \cup
             {[id |-> ids + 1, date |-> run.date, type |-> "Q", period |-> run.at,
               is_predicted |-> TRUE, est |-> FALSE, act |-> "none",
               actual_source |-> "none", date_source |-> "algorithm"]}
  <2>. DEFINE x == [id |-> ids + 1, date |-> run.date, type |-> "Q", period |-> run.at,
                    is_predicted |-> TRUE, est |-> FALSE, act |-> "none",
                    actual_source |-> "none", date_source |-> "algorithm"]
  <2>1. ids + 1 \in 1 .. MaxRows /\ ids' \in ids .. MaxRows
    BY <1>4, <1>7
  <2>2. /\ x \in Row /\ x.id = ids + 1 /\ x.date = run.date /\ x.type = "Q"
        /\ x.is_predicted
    BY <1>2, <2>1 DEF Row, ReportTypes, Providers
  <2>3. earnings' = earnings \cup {x}
    BY <1>7
  <2>. HIDE DEF x
  <2>4. \A r \in earnings : r.id \in Nat /\ r.id <= ids /\ r.id # ids + 1 /\ r.id <= ids + 1
    <3>. SUFFICES ASSUME NEW r \in earnings
                  PROVE  r.id \in Nat /\ r.id <= ids /\ r.id # ids + 1 /\ r.id <= ids + 1
      OBVIOUS
    <3>1. r.id \in Nat /\ r.id <= ids
      BY <1>5 DEF Row
    <3>. QED  BY <3>1, <1>4
  <2>5. \A r \in earnings : ~ SameKey(r, x) /\ ~ SameKey(x, r)
    BY <1>7, <2>2 DEF SameKey
  <2>6. Keyed(earnings')
    BY <1>4, <2>2, <2>3, <2>4, <2>5 DEF Table, Keyed
  <2>7. Table(earnings', ids')
    <3>1. \A r \in earnings' : r \in Row /\ r.id <= ids'
      BY <1>4, <1>5, <1>7, <2>2, <2>3, <2>4
    <3>. QED  BY <2>6, <3>1 DEF Table
  <2>8. \A r \in earnings, s \in earnings' : r.id = s.id => s \in earnings
    BY <2>2, <2>3, <2>4
  <2>9. Between(earnings, earnings')
    BY <1>4, <2>3, <2>8 DEF Between
  <2>10. Descends(earnings, earnings', ids)
    BY <1>4, <2>2, <2>3 DEF Descends
  <2>. QED  BY <1>1, <1>3, <1>4, <2>1, <2>7, <2>9, <2>10, TableStepKeeps DEF TableStep
<1>. QED  BY <1>6, <1>7 DEF UpsertPrediction

----------------------------------------------------------------------------
(* The table and its readers, in every behaviour                           *)

\* What a step makes of the committed rows: nothing, what a batch may make of them,
\* or what a single statement may.
CommittedStep ==
  \/ Committed' = Committed
  \/ /\ Open /\ Succeeds(Committed, Committed')
     /\ DatesFollow(Committed, Committed', txn.batch)
  \/ ~ Open /\ Between(Committed, Committed')

LEMMA InitCalendar == Init => CalendarInvariant
<1>. SUFFICES ASSUME Init  PROVE CalendarInvariant
  OBVIOUS
<1>1. TypeOK
  BY CalendarAssumption DEF Init, TypeOK, Keyed
<1>2. ~ Open /\ run.pc = "none"
  BY DEF Init, Open, Asleep
<1>. QED  BY <1>1, <1>2 DEF CalendarInvariant, SeenReleases

LEMMA BatchCommits ==
  ASSUME CalendarInvariant, BatchStep
  PROVE  CalendarInvariant' /\ CommittedStep
<1>1. CalendarInvariant' /\ Succeeds(txn.before, earnings')
  BY BatchStepKeeps
<1>2. Open /\ Committed = txn.before
  BY DEF BatchStep, Committed
<1>3. CASE txn' = NoTxn /\ DatesFollow(txn.before, earnings', txn.batch)
  <2>1. Committed' = earnings'
    BY <1>3 DEF Committed, Open
  <2>. QED  BY <1>1, <1>2, <1>3, <2>1 DEF CommittedStep
<1>4. CASE txn' \in TxnState /\ txn'.before = txn.before
  <2>1. Committed' = txn.before
    BY <1>4, NoTxnIsClosed DEF Committed, Open
  <2>. QED  BY <1>1, <1>2, <2>1 DEF CommittedStep
<1>. QED  BY <1>3, <1>4 DEF BatchStep

LEMMA StatementCommits ==
  ASSUME TableStep
  PROVE  CommittedStep
<1>1. Committed = earnings /\ Committed' = earnings'
  BY DEF TableStep, Committed, Open
<1>. QED  BY <1>1 DEF TableStep, CommittedStep

LEMMA NextCalendar == CalendarInvariant /\ [Next]_vars => CalendarInvariant' /\ CommittedStep
<1>. SUFFICES ASSUME CalendarInvariant, [Next]_vars  PROVE CalendarInvariant' /\ CommittedStep
  OBVIOUS
<1>1. CASE UNCHANGED vars
  BY <1>1 DEF vars, CalendarInvariant, TypeOK, SeenReleases, Committed, Open, CommittedStep
<1>2. CASE ProviderStep
  <2>1. ASSUME NEW b \in Responses, Begin("longbridge", b)  PROVE CalendarInvariant' /\ CommittedStep
    BY <2>1, BeginKeeps, CalendarAssumption DEF Providers, CommittedStep
  <2>2. ASSUME NEW b \in FutuAnswers, Begin("futu", b)  PROVE CalendarInvariant' /\ CommittedStep
    BY <2>2, BeginKeeps, CalendarAssumption DEF Providers, CommittedStep
  <2>3. ASSUME NEW i \in DOMAIN txn.batch,
               RescheduleNothing(i) \/ Reschedule(i) \/ Settle(i) \/ Upsert(i)
        PROVE  CalendarInvariant' /\ CommittedStep
    <3>1. BatchStep
      BY <2>3, RescheduleNothingStep, RescheduleStep, SettleStep, UpsertStep
    <3>. QED  BY <3>1, BatchCommits
  <2>4. CASE Label
    BY <2>4, LabelStep, BatchCommits
  <2>5. CASE Fail
    BY <2>5, FailKeeps DEF CommittedStep
  <2>6. ASSUME NEW p \in Periods, FutuActual(p)  PROVE CalendarInvariant' /\ CommittedStep
    <3>1. TableStep /\ run' = run /\ TypeOK
      BY <2>6, FutuActualStep DEF FutuActual, CalendarInvariant
    <3>2. run' \in RunState \cup {Asleep}
      BY <3>1 DEF TypeOK
    <3>. QED  BY <3>1, <3>2, TableStepKeeps, StatementCommits
  <2>. QED  BY <1>2, <2>1, <2>2, <2>3, <2>4, <2>5, <2>6 DEF ProviderStep
<1>3. CASE PredictionStep
  <2>1. CalendarInvariant' /\ TableStep
    BY <1>3, MarkConfirmedStep, CleanupStep, ReadRowsStep, SkipPeriodStep, PredictPeriodStep,
       UpsertPredictionStep, StopWalkStep, RestateStep, EndRunStep DEF PredictionStep
  <2>. QED  BY <2>1, StatementCommits
<1>4. CASE NextDay
  BY <1>4, NextDayStep, StatementCommits
<1>. QED  BY <1>1, <1>2, <1>3, <1>4 DEF Next

\* The rows that other sessions see are a table with both keys.
LEMMA CommittedTable ==
  ASSUME CalendarInvariant
  PROVE  Table(Committed, ids)
BY DEF CalendarInvariant, TypeOK, Table, Committed

\* The inductive invariant (flush_batch, flush_date_batch): an open transaction has
\* made of the table it found only what it may commit.
THEOREM CalendarInvariance == Spec => []CalendarInvariant
BY InitCalendar, NextCalendar, PTL DEF Spec

\* Both unique keys of the table hold in every state of every transaction, for
\* whatever the providers answer (schema in db.py).
THEOREM TableTypes == Spec => []TypeOK
<1>1. CalendarInvariant => TypeOK
  BY DEF CalendarInvariant
<1>. QED  BY <1>1, CalendarInvariance, PTL

\* A row keeps its fiscal period, whatever batch, pass or prediction meets it: the
\* period is its persistent identity (flush_batch).
THEOREM PeriodsPersist == Spec => PeriodIsPersistent
<1>1. CalendarInvariant /\ [Next]_vars =>
        [\A r \in Committed, s \in Committed' :
           r.id = s.id /\ r.period # NoPeriod => s.period = r.period]_vars
  <2>. SUFFICES ASSUME CalendarInvariant, [Next]_vars,
                       NEW r \in Committed, NEW s \in Committed', r.id = s.id, r.period # NoPeriod
                PROVE  s.period = r.period
    OBVIOUS
  <2>1. CommittedStep /\ Keyed(Committed)
    BY NextCalendar, CommittedTable DEF Table
  <2>2. CASE Committed' = Committed
    BY <2>1, <2>2, OneRowOfId
  <2>3. CASE Succeeds(Committed, Committed')
    BY <2>3 DEF Succeeds, Kept
  <2>4. CASE Between(Committed, Committed')
    BY <2>4 DEF Between
  <2>. QED  BY <2>1, <2>2, <2>3, <2>4 DEF CommittedStep
<1>. QED  BY <1>1, CalendarInvariance, PTL DEF Spec, PeriodIsPersistent

\* What a provider confirmed is neither removed nor made a prediction again.
THEOREM FactsStay == Spec => ProviderRowStaysConfirmed
<1>1. CalendarInvariant /\ [Next]_vars =>
        [\A r \in Committed : ~ r.is_predicted /\ r.date_source # "algorithm"
           => \E s \in Committed' : s.id = r.id /\ ~ s.is_predicted]_vars
  <2>. SUFFICES ASSUME CalendarInvariant, [Next]_vars,
                       NEW r \in Committed, ~ r.is_predicted, r.date_source # "algorithm"
                PROVE  \E s \in Committed' : s.id = r.id /\ ~ s.is_predicted
    OBVIOUS
  <2>1. CommittedStep
    BY NextCalendar
  <2>2. CASE Succeeds(Committed, Committed')
    BY <2>2 DEF Succeeds, Kept
  <2>3. CASE Between(Committed, Committed')
    BY <2>3 DEF Between
  <2>. QED  BY <2>1, <2>2, <2>3 DEF CommittedStep
<1>. QED  BY <1>1, CalendarInvariance, PTL DEF Spec, ProviderRowStaysConfirmed

\* A period that has a row keeps one, unless all it has are predictions that have
\* outlived their dates.
THEOREM PeriodsRemain == Spec => NoPeriodVanishes
<1>1. CalendarInvariant /\ [Next]_vars =>
        [\A r \in Committed :
           /\ r.period # NoPeriod
           /\ r.is_predicted => r.date + Retention >= today
           => \E s \in Committed' : s.period = r.period]_vars
  <2>. SUFFICES ASSUME CalendarInvariant, [Next]_vars, NEW r \in Committed,
                       r.period # NoPeriod, r.is_predicted => r.date + Retention >= today
                PROVE  \E s \in Committed' : s.period = r.period
    OBVIOUS
  <2>1. CommittedStep
    BY NextCalendar
  <2>2. CASE Succeeds(Committed, Committed')
    BY <2>2 DEF Succeeds
  <2>3. CASE Between(Committed, Committed')
    BY <2>3 DEF Between
  <2>. QED  BY <2>1, <2>2, <2>3 DEF CommittedStep
<1>. QED  BY <1>1, CalendarInvariance, PTL DEF Spec, NoPeriodVanishes

\* A confirmed row changes its date only in a batch that dates its period there, and
\* a release only by an event that is no disclosure: neither the predictor
\* nor a half-year or annual report drags it.
THEOREM DatesFollowProviders == Spec => ConfirmedDatesFollowProviders
<1>1. CalendarInvariant /\ [Next]_vars =>
        [\A r \in Committed, s \in Committed' :
           r.id = s.id /\ ~ r.is_predicted /\ r.date # s.date
           => \E i \in (IF Open THEN DOMAIN txn.batch ELSE {}) :
                /\ SamePeriod(txn.batch[i], r) /\ txn.batch[i].date = s.date
                /\ is_disclosure(txn.batch[i]) => is_disclosure(r)]_vars
  <2>. SUFFICES ASSUME CalendarInvariant, [Next]_vars, NEW r \in Committed, NEW s \in Committed',
                       r.id = s.id, ~ r.is_predicted, r.date # s.date
                PROVE  \E i \in (IF Open THEN DOMAIN txn.batch ELSE {}) :
                         /\ SamePeriod(txn.batch[i], r) /\ txn.batch[i].date = s.date
                         /\ is_disclosure(txn.batch[i]) => is_disclosure(r)
    OBVIOUS
  <2>1. CommittedStep /\ Keyed(Committed)
    BY NextCalendar, CommittedTable DEF Table
  <2>2. CASE Committed' = Committed
    BY <2>1, <2>2, OneRowOfId
  <2>3. CASE Open /\ DatesFollow(Committed, Committed', txn.batch)
    BY <2>3 DEF DatesFollow
  <2>4. CASE Between(Committed, Committed')
    BY <2>4 DEF Between
  <2>. QED  BY <2>1, <2>2, <2>3, <2>4 DEF CommittedStep
<1>. QED  BY <1>1, CalendarInvariance, PTL DEF Spec, ConfirmedDatesFollowProviders

----------------------------------------------------------------------------
(* What readers are shown                                                  *)

\* The rows of a window as they enter the collapses.
Window(from, to) == {Masked(r, today) : r \in {s \in Committed : Dated(s, from, to)}}

\* Masking a row touches its figure only.
LEMMA MaskedRow ==
  ASSUME NEW r \in Row
  PROVE  LET m == Masked(r, today) IN
         /\ m \in Row /\ m.id = r.id /\ m.date = r.date /\ m.type = r.type /\ m.period = r.period
         /\ m.act = (IF r.date > today THEN "none" ELSE r.act)
         /\ m.is_predicted <=> r.is_predicted
         /\ ~ (r.date > today) => m = r
<1>1. CASE r.date > today
  <2>1. Masked(r, today) = [r EXCEPT !.act = "none"]
    BY <1>1 DEF Masked
  <2>. QED  BY <1>1, <2>1 DEF Row
<1>2. CASE ~ (r.date > today)
  BY <1>2 DEF Masked
<1>. QED  BY <1>1, <1>2

\* A row of a window is a committed one.
LEMMA WindowRow ==
  ASSUME CalendarInvariant, NEW from, NEW to, NEW x \in Window(from, to)
  PROVE  \E r \in Committed :
           /\ r \in Row /\ Dated(r, from, to) /\ x = Masked(r, today)
           /\ x \in Row /\ x.id = r.id /\ x.date = r.date /\ x.type = r.type /\ x.period = r.period
           /\ x.act = (IF r.date > today THEN "none" ELSE r.act)
           /\ x.is_predicted <=> r.is_predicted
<1>1. Committed \subseteq Row
  BY CommittedTable DEF Table
<1>2. PICK r \in Committed : Dated(r, from, to) /\ x = Masked(r, today)
  BY DEF Window
<1>. QED  BY <1>1, <1>2, MaskedRow

\* Two confirmed rows are of different periods, and two rows of one date of different
\* types.
LEMMA CommittedKeys ==
  ASSUME CalendarInvariant, NEW r \in Committed, NEW s \in Committed, r # s
  PROVE  /\ ~ SameKey(r, s)
         /\ SamePeriod(r, s) => r.is_predicted \/ s.is_predicted
BY CommittedTable DEF Table, Keyed

OfPeriod(rs, p) == {r \in rs : r.period = p}

\* A view of the rows rs: all rows without a period and for every other period p the
\* row f[p], less those of the disclosures beside a release that are gone.
Represented(rs, f) == {r \in rs : r.period = 0} \cup {f[p] : p \in PeriodsOf(rs)}
Yielding(v) == {d \in v : Disclosing(d) /\ \E r \in SameDate(v, d) : ~ Disclosing(r)}
ViewOf(v, rs, f, gone) ==
  LET pv == Represented(rs, f) IN
  /\ \A p \in PeriodsOf(rs) : f[p] \in Leading(OfPeriod(rs, p))
  /\ gone \in SUBSET Yielding(pv)
  /\ \A d \in Yielding(pv) : SameDate(Yielding(pv), d) \cap gone # {}
  /\ v = pv \ gone

LEMMA ShownView ==
  ASSUME NEW from, NEW to, NEW v \in Shown(from, to)
  PROVE  \E f \in [PeriodsOf(Window(from, to)) -> Window(from, to)], gone \in SUBSET Window(from, to) :
           ViewOf(v, Window(from, to), f, gone)
<1>. DEFINE rs == Window(from, to)
<1>1. v \in Views(rs)
  BY DEF Shown, Calendars, Window
<1>2. PICK x \in PeriodViews(rs) : v \in DateViews(x)
  BY <1>1 DEF Views
<1>3. PICK f \in [PeriodsOf(rs) -> rs] :
        /\ \A p \in PeriodsOf(rs) : f[p] \in Leading(OfPeriod(rs, p))
        /\ x = Represented(rs, f)
  BY <1>2 DEF PeriodViews, Represented, OfPeriod
<1>4. PICK gone \in SUBSET Yielding(x) :
        /\ \A d \in Yielding(x) : SameDate(Yielding(x), d) \cap gone # {}
        /\ v = x \ gone
  BY <1>2 DEF DateViews, Yielding
<1>5. gone \in SUBSET rs
  BY <1>3 DEF Yielding, Represented
<1>6. ViewOf(v, rs, f, gone)
  BY <1>3, <1>4 DEF ViewOf
<1>. QED  BY <1>3, <1>5, <1>6

\* Nothing comes before the confirmed row of a period.
LEMMA ConfirmedLeads ==
  ASSUME CalendarInvariant, NEW from, NEW to, NEW m \in Window(from, to), ~ m.is_predicted,
         m.period # 0, NEW x \in Leading(OfPeriod(Window(from, to), m.period))
  PROVE  x = m
<1>1. x \in Window(from, to) /\ x.period = m.period /\ ~ Ahead(m, x)
  BY DEF Leading, OfPeriod
<1>2. x.is_predicted \/ x = m
  <2>1. PICK r \in Committed : m = Masked(r, today) /\ m.period = r.period
                             /\ (m.is_predicted <=> r.is_predicted)
    BY WindowRow
  <2>2. PICK q \in Committed : x = Masked(q, today) /\ x.period = q.period
                             /\ (x.is_predicted <=> q.is_predicted)
    BY <1>1, WindowRow
  <2>3. CASE r = q
    BY <2>1, <2>2, <2>3
  <2>4. CASE r # q
    <3>1. SamePeriod(r, q)
      BY <1>1, <2>1, <2>2 DEF SamePeriod, NoPeriod
    <3>. QED  BY <3>1, <2>1, <2>2, <2>4, CommittedKeys
  <2>. QED  BY <2>3, <2>4
<1>3. x.is_predicted => Ahead(m, x)
  BY DEF Ahead
<1>. QED  BY <1>1, <1>2, <1>3

\* A confirmed release is in every view of a window it lies in.
LEMMA ReleaseShown ==
  ASSUME CalendarInvariant, NEW from, NEW to, NEW v \in Shown(from, to), NEW r \in Committed,
         ~ r.is_predicted, ~ Disclosing(r), Dated(r, from, to)
  PROVE  \E s \in v : s.id = r.id
<1>. DEFINE rs == Window(from, to)
            m == Masked(r, today)
<1>1. m \in rs
  BY DEF Window
<1>2. m.id = r.id /\ m.period = r.period /\ ~ m.is_predicted /\ ~ Disclosing(m)
  <2>1. r \in Row
    BY CommittedTable DEF Table
  <2>. QED  BY <2>1, MaskedRow DEF Disclosing
<1>. HIDE DEF rs, m
<1>3. PICK f \in [PeriodsOf(rs) -> rs], gone \in SUBSET rs : ViewOf(v, rs, f, gone)
  BY ShownView DEF rs
<1>4. m \notin gone
  BY <1>2, <1>3 DEF ViewOf, Yielding
<1>5. m.period = 0 \/ \E p \in PeriodsOf(rs) : f[p] = m
  <2>. SUFFICES ASSUME m.period # 0  PROVE \E p \in PeriodsOf(rs) : f[p] = m
    OBVIOUS
  <2>1. m.period \in PeriodsOf(rs)
    BY <1>1 DEF PeriodsOf
  <2>2. f[m.period] \in Leading(OfPeriod(rs, m.period))
    BY <1>3, <2>1 DEF ViewOf
  <2>3. f[m.period] = m
    BY <1>1, <1>2, <2>2, ConfirmedLeads DEF rs
  <2>. QED  BY <2>1, <2>3
<1>6. m \in v
  BY <1>1, <1>3, <1>4, <1>5 DEF ViewOf, Represented
<1>. QED  BY <1>2, <1>6

\* Two disclosures of a date, or two predictions of a period without a figure.
Ambiguous ==
  \/ \E r, s \in Committed : r # s /\ Disclosing(r) /\ Disclosing(s) /\ r.date = s.date
  \/ \E r, s \in Committed : r # s /\ SamePeriod(r, s) /\ Bare(r) /\ Bare(s)

\* Two rows that nothing of their period comes before are one, unless they are two
\* disclosures of a date or two predictions without a figure.
LEMMA OneLeads ==
  ASSUME CalendarInvariant, NEW from, NEW to, NEW p, p # 0,
         NEW x \in Leading(OfPeriod(Window(from, to), p)),
         NEW y \in Leading(OfPeriod(Window(from, to), p)),
         ~ Ambiguous
  PROVE  x = y
<1>1. /\ x \in Window(from, to) /\ y \in Window(from, to) /\ x.period = p /\ y.period = p
      /\ ~ Ahead(x, y) /\ ~ Ahead(y, x)
  BY DEF Leading, OfPeriod
<1>2. PICK r \in Committed :
        /\ r \in Row /\ x = Masked(r, today) /\ x.date = r.date /\ x.type = r.type /\ x.period = r.period
        /\ x.is_predicted <=> r.is_predicted
  BY <1>1, WindowRow
<1>3. PICK s \in Committed :
        /\ s \in Row /\ y = Masked(s, today) /\ y.date = s.date /\ y.type = s.type /\ y.period = s.period
        /\ y.is_predicted <=> s.is_predicted
  BY <1>1, WindowRow
<1>4. CASE r = s
  BY <1>2, <1>3, <1>4
<1>5. CASE r # s
  <2>1. SamePeriod(r, s)
    BY <1>1, <1>2, <1>3 DEF SamePeriod, NoPeriod
  <2>2. ~ SameKey(r, s) /\ (r.is_predicted \/ s.is_predicted)
    BY <1>5, <2>1, CommittedKeys
  <2>3. x.is_predicted /\ y.is_predicted
    <3>1. x.is_predicted \/ y.is_predicted
      BY <2>2, <1>2, <1>3
    <3>. QED  BY <3>1, <1>1 DEF Ahead
  <2>4. Disclosing(x) <=> Disclosing(y)
    BY <1>1, <2>3 DEF Ahead
  <2>5. Reported(x) <=> Reported(y)
    BY <1>1, <2>3, <2>4 DEF Ahead
  <2>6. Reported(x) /\ Reported(y)
    <3>1. ~ (Bare(r) /\ Bare(s))
      BY <1>5, <2>1 DEF Ambiguous
    <3>2. ~ Reported(x) => Bare(r) /\ Bare(s)
      BY <1>2, <1>3, <2>3, <2>5 DEF Bare
    <3>. QED  BY <3>1, <3>2, <2>5
  <2>7. ~ (x.date > y.date) /\ ~ (y.date > x.date)
    BY <1>1, <2>3, <2>4, <2>5, <2>6 DEF Ahead
  <2>8. x.date = y.date
    <3>1. x.date \in Nat /\ y.date \in Nat
      BY <1>2, <1>3, CalendarAssumption DEF Row
    <3>. QED  BY <3>1, <2>7
  <2>9. ~ (Disclosing(r) /\ Disclosing(s))
    BY <1>2, <1>3, <1>5, <2>8 DEF Ambiguous
  <2>10. ~ Disclosing(r) /\ ~ Disclosing(s)
    BY <1>2, <1>3, <2>4, <2>9 DEF Disclosing
  <2>11. r.type = "Q" /\ s.type = "Q"
    BY <1>2, <1>3, <2>10 DEF Disclosing, Row, ReportTypes
  <2>12. SameKey(r, s)
    BY <1>2, <1>3, <2>8, <2>11 DEF SameKey
  <2>. QED  BY <2>2, <2>12
<1>. QED  BY <1>4, <1>5

\* With these exceptions a window has one view.
LEMMA OneView ==
  ASSUME CalendarInvariant, NEW from, NEW to, NEW v \in Shown(from, to), NEW w \in Shown(from, to),
         ~ Ambiguous
  PROVE  v = w
<1>. DEFINE rs == Window(from, to)
<1>1. PICK f \in [PeriodsOf(rs) -> rs], gone \in SUBSET rs : ViewOf(v, rs, f, gone)
  BY ShownView
<1>2. PICK g \in [PeriodsOf(rs) -> rs], left \in SUBSET rs : ViewOf(w, rs, g, left)
  BY ShownView
<1>3. f = g
  <2>1. ASSUME NEW p \in PeriodsOf(rs)  PROVE f[p] = g[p]
    <3>1. p # 0
      BY DEF PeriodsOf
    <3>2. f[p] \in Leading(OfPeriod(rs, p)) /\ g[p] \in Leading(OfPeriod(rs, p))
      BY <1>1, <1>2 DEF ViewOf
    <3>. QED  BY <3>1, <3>2, OneLeads
  <2>. HIDE DEF rs
  <2>. QED  BY <2>1
<1>. DEFINE hidden == Yielding(Represented(rs, f))
<1>4. ASSUME NEW d \in hidden, NEW e \in hidden, e.date = d.date  PROVE e = d
  <2>1. d \in rs /\ e \in rs /\ Disclosing(d) /\ Disclosing(e)
    <3>. HIDE DEF rs
    <3>. QED  BY DEF Yielding, Represented
  <2>2. PICK r \in Committed : d = Masked(r, today) /\ d.date = r.date /\ d.type = r.type
    BY <2>1, WindowRow
  <2>3. PICK s \in Committed : e = Masked(s, today) /\ e.date = s.date /\ e.type = s.type
    BY <2>1, WindowRow
  <2>4. Disclosing(r) /\ Disclosing(s) /\ r.date = s.date
    BY <2>1, <2>2, <2>3, <1>4 DEF Disclosing
  <2>5. r = s
    BY <2>4 DEF Ambiguous
  <2>. QED  BY <2>2, <2>3, <2>5
<1>5. ASSUME NEW some \in SUBSET hidden, \A d \in hidden : SameDate(hidden, d) \cap some # {}
      PROVE  some = hidden
  <2>. HIDE DEF hidden
  <2>. QED  BY <1>4, <1>5 DEF SameDate
<1>6. gone = hidden /\ left = hidden /\ v = Represented(rs, f) \ gone /\ w = Represented(rs, f) \ left
  BY <1>1, <1>2, <1>3, <1>5 DEF ViewOf
<1>. QED  BY <1>6

\* What the panel takes for a period is what a calendar of all rows shows of it.
LEMMA PanelRow ==
  ASSUME CalendarInvariant, NEW o \in Committed, NEW p \in Periods, o.period # p,
         \A r \in Committed : r.period = p /\ Reported(r) => r.date <= today /\ ~ r.is_predicted,
         NEW from \in Dates, NEW to \in Dates, \A r \in Committed : Dated(r, from, to),
         NEW v \in Shown(from, to), NEW q \in PanelRows(Committed, o, p), NEW s \in v, s.period = p
  PROVE  s.act = q.act
<1>. DEFINE rs == Window(from, to)
<1>1. p # 0
  BY CalendarAssumption DEF NoPeriod
<1>2. /\ q \in Committed /\ q.period = p
      /\ \A r \in Committed :
           r.period = p => \/ Reported(q) /\ ~ Reported(r)
                           \/ (Reported(q) <=> Reported(r)) /\ q.date >= r.date
  BY DEF PanelRows
<1>3. PICK f \in [PeriodsOf(rs) -> rs], gone \in SUBSET rs : ViewOf(v, rs, f, gone)
  BY ShownView
<1>4. s \in Leading(OfPeriod(rs, p))
  <2>. HIDE DEF rs
  <2>1. s \in Represented(rs, f)
    BY <1>3 DEF ViewOf
  <2>2. PICK k \in PeriodsOf(rs) : s = f[k]
    BY <1>1, <2>1 DEF Represented
  <2>3. s \in Leading(OfPeriod(rs, k))
    BY <1>3, <2>2 DEF ViewOf
  <2>4. s.period = k
    BY <2>3 DEF Leading, OfPeriod
  <2>. QED  BY <2>3, <2>4
<1>5. s \in rs
  BY <1>4 DEF Leading, OfPeriod
<1>6. PICK r \in Committed :
        /\ r \in Row /\ s = Masked(r, today) /\ s.period = r.period
        /\ s.act = (IF r.date > today THEN "none" ELSE r.act)
  BY <1>5, WindowRow
<1>7. CASE \E c \in Committed : c.period = p /\ Reported(c)
  <2>1. PICK c \in Committed : c.period = p /\ Reported(c)
    BY <1>7
  <2>2. c.date <= today /\ ~ c.is_predicted /\ c \in Row
    BY <2>1, CommittedTable DEF Table
  <2>3. ~ (c.date > today)
    <3>1. c.date \in Nat /\ today \in Nat
      BY <2>2, CalendarAssumption DEF CalendarInvariant, TypeOK, Row
    <3>. QED  BY <2>2, <3>1
  <2>4. Masked(c, today) = c
    BY <2>3 DEF Masked
  <2>5. c \in rs
    BY <2>4 DEF Window
  <2>6. s = c
    BY <1>1, <1>4, <2>1, <2>2, <2>5, ConfirmedLeads
  <2>7. Reported(q)
    BY <1>2, <2>1
  <2>8. ~ q.is_predicted
    BY <1>2, <2>7
  <2>9. SamePeriod(q, c)
    BY <1>1, <1>2, <2>1 DEF SamePeriod, NoPeriod
  <2>10. q = c
    BY <1>2, <2>2, <2>8, <2>9, CommittedKeys
  <2>. QED  BY <2>6, <2>10
<1>8. CASE ~ \E c \in Committed : c.period = p /\ Reported(c)
  BY <1>2, <1>6, <1>8 DEF Reported
<1>. QED  BY <1>7, <1>8

\* A confirmed release is shown in every window it lies in (fiscal.authority_key).
THEOREM ReleasesShown == Spec => []ReleasesAreShown
<1>1. CalendarInvariant => ReleasesAreShown
  BY ReleaseShown DEF ReleasesAreShown
<1>. QED  BY <1>1, CalendarInvariance, PTL

\* The order in which the database returns rows decides nothing but which of two
\* disclosures stays beside a release and which of two bare predictions stands
\* for a period (collapse_fiscal_duplicates).
THEOREM ViewDetermined == Spec => []ViewIsDetermined
<1>1. CalendarInvariant => ViewIsDetermined
  <2>. SUFFICES ASSUME CalendarInvariant, ~ Ambiguous, NEW from \in Dates, NEW to \in Dates
                PROVE  Cardinality(Shown(from, to)) <= 1
    BY DEF ViewIsDetermined, Ambiguous
  <2>1. CASE Shown(from, to) = {}
    BY <2>1, FS_EmptySet
  <2>2. CASE Shown(from, to) # {}
    <3>1. PICK v : v \in Shown(from, to)
      BY <2>2
    <3>2. Shown(from, to) = {v}
      BY <3>1, OneView
    <3>3. Cardinality({v}) = 1
      BY FS_Singleton
    <3>. QED  BY <3>2, <3>3
  <2>. QED  BY <2>1, <2>2
<1>. QED  BY <1>1, CalendarInvariance, PTL

\* Calendar and panel agree on the figure of a period that has no figure ahead of its
\* day and none on a prediction (phase3, fiscal.hide_unreleased_actuals).
THEOREM PanelAgrees == Spec => []PanelAgreesOnFacts
<1>1. CalendarInvariant => PanelAgreesOnFacts
  BY PanelRow DEF PanelAgreesOnFacts, Agrees
<1>. QED  BY <1>1, CalendarInvariance, PTL
===============================================================================
