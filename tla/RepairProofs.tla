----------------------------- MODULE RepairProofs -----------------------------
(***************************************************************************)
(* Proofs about the repairs of older tables.  Spellings: for every set of  *)
(* old tables, of snapshot keys and every number of merges and writes,     *)
(* type correctness and the estimate history that survives the merge of    *)
(* two spellings.  Reconcile: for every finite table, every calendar and   *)
(* any number of scripts and syncs, what a script has planned agrees with  *)
(* the tables as it carries it out (RepairInvariant); hence it loses       *)
(* nothing, keys hold, users see what they saw, and new labels make no     *)
(* twins.                                                                  *)
(***************************************************************************)
EXTENDS Spellings, Reconcile, FiniteSetTheorems, TLAPS

\* Rows of both kinds of ids: those of old rows are positive, those of copies negative.
TableRow ==
  [id : Int, symbol : Spelling, date : Nat, type : STRING, period : Nat,
   act : Figures \cup {NoFigure}, currency : Currencies \cup {NoFigure}, is_predicted : BOOLEAN]

UniqueIds(rs) == \A q, r \in rs : q.id = r.id => q = r

\* Rows of the old spelling are old rows, and a copy of one is at its date and of its type.
CopiesMatch(rs) ==
  \A d \in rs : d.symbol = "dirty" =>
    d.id > 0 /\ \A r \in rs : r.id = NewId(d) => r.symbol = "canonical" /\ SameSlot(r, d)

RowsInvariant ==
  spelled \subseteq TableRow /\ UniqueIds(spelled) /\ IdentityHolds(spelled) /\ CopiesMatch(spelled)

Snapshot == [row : Int, key : SnapshotKeys, of : Int]

\* Every snapshot is of a row that is there.
SnapshotsInvariant ==
  attached \subseteq Snapshot /\ \A s \in attached : \E r \in spelled : r.id = s.row

SpellingsInvariant == RowsInvariant /\ SnapshotsInvariant /\ HistorySurvivesSpelling

----------------------------------------------------------------------------
(* Copies                                                                  *)

LEMMA RowFields ==
  ASSUME NEW r \in TableRow
  PROVE  /\ r.id \in Int /\ r.symbol \in {"canonical", "dirty"} /\ r.date \in Nat /\ r.type \in STRING
         /\ r.act \in Figures \cup {NoFigure} /\ r.currency \in Currencies \cup {NoFigure}
BY DEF TableRow, Spelling

\* A copy is a canonical row at the date and of the type of its original; its id is that of the
\* row that was there, or new.
LEMMA CopiedRow ==
  ASSUME RowsInvariant, NEW d \in Of("dirty")
  PROVE  /\ Copied(d) \in TableRow /\ Copied(d).symbol = "canonical" /\ SameSlot(Copied(d), d)
         /\ \/ \E c \in Of("canonical") : SameSlot(c, d) /\ Copied(d).id = c.id
            \/ Copied(d).id = NewId(d) /\ \A c \in Of("canonical") : ~SameSlot(c, d)
<1>. DEFINE counterpart == {c \in Of("canonical") : SameSlot(c, d)}
<1>1. d \in TableRow
  BY DEF RowsInvariant, Of
<1>2. CASE counterpart = {}
  <2>1. Copied(d) = [d EXCEPT !.id = NewId(d), !.symbol = "canonical", !.currency = NoFigure]
    BY <1>2 DEF Copied
  <2>2. NewId(d) \in Int
    BY <1>1, RowFields DEF NewId
  <2>. QED  BY <1>1, <1>2, <2>1, <2>2 DEF TableRow, SameSlot, Spelling
<1>3. CASE counterpart # {}
  <2>1. PICK c \in counterpart : c = CHOOSE x \in counterpart : TRUE
    BY <1>3
  <2>2. Copied(d) = [c EXCEPT !.act = IF d.act # NoFigure THEN d.act ELSE @,
                              !.is_predicted = @ /\ d.is_predicted]
    BY <1>3, <2>1 DEF Copied
  <2>3. c \in TableRow /\ c.symbol = "canonical" /\ SameSlot(c, d)
    BY DEF RowsInvariant, Of
  <2>4. c.is_predicted \in BOOLEAN /\ d.is_predicted \in BOOLEAN
    BY <1>1, <2>3 DEF TableRow
  <2>5. (c.is_predicted /\ d.is_predicted) \in BOOLEAN
    BY <2>4
  <2>6. d.act \in Figures \cup {NoFigure}
    BY <1>1, RowFields
  <2>7. Copied(d) \in TableRow
    BY <2>2, <2>3, <2>5, <2>6 DEF TableRow
  <2>8. /\ Copied(d).symbol = c.symbol /\ Copied(d).date = c.date
        /\ Copied(d).type = c.type /\ Copied(d).id = c.id
    BY <2>2, <2>3 DEF TableRow
  <2>. QED  BY <2>3, <2>7, <2>8 DEF SameSlot
<1>. QED  BY <1>2, <1>3

\* Two rows of one spelling are not at one date and of one type.
LEMMA OneRowPerSlot ==
  ASSUME NEW rs, IdentityHolds(rs), NEW q \in rs, NEW r \in rs,
         q.symbol = r.symbol, SameSlot(q, r)
  PROVE  q = r
BY DEF IdentityHolds

LEMMA SlotsAgree ==
  ASSUME NEW q, NEW r, NEW s, SameSlot(q, s), SameSlot(r, s)
  PROVE  SameSlot(q, r) /\ SameSlot(r, q)
BY DEF SameSlot

\* The copy of a row that has a counterpart takes its place.
LEMMA CopyTakesPlace ==
  ASSUME RowsInvariant, NEW d \in Of("dirty"), NEW c \in Of("canonical"), SameSlot(c, d)
  PROVE  Copied(d).id = c.id
<1>1. PICK x \in Of("canonical") : SameSlot(x, d) /\ Copied(d).id = x.id
  BY CopiedRow
<1>2. x = c
  BY <1>1, SlotsAgree, OneRowPerSlot DEF Of, RowsInvariant
<1>. QED  BY <1>1, <1>2

\* A stored row with the id of a copy is the row that the copy replaces.
LEMMA CopyIds ==
  ASSUME RowsInvariant, NEW d \in Of("dirty"), NEW r \in spelled, r.id = Copied(d).id
  PROVE  r.symbol = "canonical" /\ SameSlot(r, d)
<1>1. CASE \E c \in Of("canonical") : SameSlot(c, d) /\ Copied(d).id = c.id
  BY <1>1 DEF Of, RowsInvariant, UniqueIds
<1>2. CASE Copied(d).id = NewId(d)
  BY <1>2 DEF Of, RowsInvariant, CopiesMatch
<1>. QED  BY <1>1, <1>2, CopiedRow

\* Two rows have copies with two ids.
LEMMA CopiesDiffer ==
  ASSUME RowsInvariant, NEW d \in Of("dirty"), NEW e \in Of("dirty"), Copied(d).id = Copied(e).id
  PROVE  d = e
<1>1. d \in spelled /\ e \in spelled /\ d.symbol = "dirty" /\ e.symbol = "dirty"
  BY DEF Of
<1>2. SUFFICES SameSlot(d, e) \/ d.id = e.id
  BY <1>1, OneRowPerSlot DEF RowsInvariant, UniqueIds
<1>3. CASE \E c \in Of("canonical") : Copied(d).id = c.id
  <2>1. PICK c \in Of("canonical") : Copied(d).id = c.id
    BY <1>3
  <2>2. SameSlot(c, d) /\ SameSlot(c, e)
    BY <2>1, CopyIds DEF Of
  <2>. QED  BY <2>2 DEF SameSlot
<1>4. CASE \A c \in Of("canonical") : Copied(d).id # c.id
  <2>1. Copied(d).id = NewId(d) /\ Copied(e).id = NewId(e)
    BY <1>4, CopiedRow
  <2>2. d.id \in Int /\ e.id \in Int
    BY <1>1, RowFields DEF RowsInvariant
  <2>3. -d.id = -e.id
    BY <2>1 DEF NewId
  <2>4. \A a, b \in Int : -a = -b => a = b
    OBVIOUS
  <2>. QED  BY <2>2, <2>3, <2>4
<1>. QED  BY <1>3, <1>4

\* A row of the table that the copies make is a row that stayed, or a copy.
LEMMA AfterCopyRow ==
  ASSUME NEW r \in AfterCopy
  PROVE  \/ r \in spelled /\ (r.symbol = "canonical" => \A d \in Of("dirty") : ~SameSlot(r, d))
         \/ \E d \in Of("dirty") : r = Copied(d)
BY DEF AfterCopy, Of

LEMMA AfterCopyRows ==
  ASSUME RowsInvariant
  PROVE  AfterCopy \subseteq TableRow /\ UniqueIds(AfterCopy) /\ CopiesMatch(AfterCopy)
<1>1. AfterCopy \subseteq TableRow
  BY CopiedRow DEF AfterCopy, RowsInvariant
<1>2. ASSUME NEW q \in AfterCopy, NEW r \in AfterCopy, q.id = r.id
      PROVE  q = r
  <2>1. CASE q \in spelled /\ r \in spelled
    BY <1>2, <2>1 DEF RowsInvariant, UniqueIds
  <2>2. ASSUME NEW x \in AfterCopy, NEW d \in Of("dirty"), x.id = Copied(d).id, x \in spelled
        PROVE  x = Copied(d)
    <3>1. x.symbol = "canonical" /\ SameSlot(x, d)
      BY <2>2, CopyIds
    <3>. QED  BY <2>2, <3>1, AfterCopyRow, CopiesDiffer
  <2>3. CASE \E d \in Of("dirty") : q = Copied(d)
    BY <1>2, <2>2, <2>3, AfterCopyRow, CopiesDiffer
  <2>4. CASE \E d \in Of("dirty") : r = Copied(d)
    BY <1>2, <2>2, <2>4, AfterCopyRow, CopiesDiffer
  <2>. QED  BY <2>1, <2>3, <2>4, AfterCopyRow
<1>3. ASSUME NEW d \in AfterCopy, d.symbol = "dirty"
      PROVE  d.id > 0 /\ \A r \in AfterCopy : r.id = NewId(d) => r.symbol = "canonical" /\ SameSlot(r, d)
  <2>1. d \in Of("dirty") /\ d \in spelled /\ d.id > 0
    BY <1>3, AfterCopyRow, CopiedRow DEF Of, RowsInvariant, CopiesMatch
  <2>2. ASSUME NEW r \in AfterCopy, r.id = NewId(d)
        PROVE  r.symbol = "canonical" /\ SameSlot(r, d)
    <3>1. CASE r \in spelled
      BY <1>3, <2>1, <2>2, <3>1 DEF RowsInvariant, CopiesMatch
    <3>2. CASE \E e \in Of("dirty") : r = Copied(e)
      <4>1. PICK e \in Of("dirty") : r = Copied(e)
        BY <3>2
      <4>2. r.symbol = "canonical" /\ SameSlot(r, e)
        BY <4>1, CopiedRow
      <4>3. CASE \E c \in Of("canonical") : r.id = c.id
        <5>1. PICK c \in Of("canonical") : r.id = c.id
          BY <4>3
        <5>2. SameSlot(c, d)
          BY <2>1, <2>2, <5>1 DEF Of, RowsInvariant, CopiesMatch
        <5>3. SameSlot(c, e)
          BY <4>1, <5>1, CopyIds DEF Of
        <5>. QED  BY <4>2, <5>2, <5>3 DEF SameSlot
      <4>4. CASE \A c \in Of("canonical") : r.id # c.id
        <5>1. r.id = NewId(e)
          BY <4>1, <4>4, CopiedRow
        <5>2. e.id \in Int /\ d.id \in Int
          BY <2>1, RowFields DEF Of, RowsInvariant
        <5>3. e = d
          BY <2>1, <2>2, <5>1, <5>2 DEF Of, NewId, RowsInvariant, UniqueIds
        <5>. QED  BY <4>2, <5>3
      <4>. QED  BY <4>3, <4>4
    <3>. QED  BY <3>1, <3>2, AfterCopyRow
  <2>. QED  BY <2>1, <2>2
<1>. QED  BY <1>1, <1>2, <1>3 DEF UniqueIds, CopiesMatch

\* What a table has, a part of it has.
LEMMA PartOfTable ==
  ASSUME NEW rs, rs \subseteq TableRow, UniqueIds(rs), IdentityHolds(rs), CopiesMatch(rs),
         NEW qs, qs \subseteq rs
  PROVE  qs \subseteq TableRow /\ UniqueIds(qs) /\ IdentityHolds(qs) /\ CopiesMatch(qs)
BY DEF UniqueIds, IdentityHolds, CopiesMatch

----------------------------------------------------------------------------
(* The merge                                                               *)

\* What goes is a row of the old spelling; what the copies make stays.
LEMMA MergedRows ==
  ASSUME RowsInvariant, NEW d \in Of("dirty")
  PROVE  /\ Copied(d) \in AfterCopy \ Gone
         /\ d \in Blocked => d \in AfterCopy \ Gone
<1>1. Copied(d) \in AfterCopy /\ Copied(d).symbol = "canonical"
  BY CopiedRow DEF AfterCopy
<1>2. \A e \in Gone : e.symbol = "dirty"
  BY DEF Gone, Of
<1>3. d \in AfterCopy
  BY DEF AfterCopy, Of
<1>. QED  BY <1>1, <1>2, <1>3 DEF Gone

\* A canonical row stays, or its copy is there under its id, at its date and of its type.
LEMMA CanonicalStays ==
  ASSUME RowsInvariant, NEW r \in Of("canonical")
  PROVE  \E x \in AfterCopy \ Gone : x.id = r.id /\ SameSlot(x, r)
<1>1. CASE \E d \in Of("dirty") : SameSlot(d, r)
  <2>1. PICK d \in Of("dirty") : SameSlot(d, r)
    BY <1>1
  <2>2. SameSlot(r, d)
    BY <2>1 DEF SameSlot
  <2>3. Copied(d).id = r.id
    BY <2>2, CopyTakesPlace
  <2>4. SameSlot(Copied(d), r)
    BY <2>1, CopiedRow DEF SameSlot
  <2>. QED  BY <2>3, <2>4, MergedRows
<1>2. CASE \A d \in Of("dirty") : ~SameSlot(d, r)
  <2>1. \A d \in Of("dirty") : ~SameSlot(r, d)
    BY <1>2 DEF SameSlot
  <2>2. r \in AfterCopy /\ r \notin Gone
    BY <2>1 DEF AfterCopy, Gone, Of
  <2>3. SameSlot(r, r)
    BY DEF SameSlot
  <2>. QED  BY <2>2, <2>3
<1>. QED  BY <1>1, <1>2

\* A snapshot of a row is, after the merge, of a row at the same date and of the same type that
\* the merge leaves: of the row's place if the row is canonical, of its copy if it moves, and of
\* the row itself if its key is taken there.
LEMMA SnapshotFollows ==
  ASSUME RowsInvariant, NEW s \in attached, s \in Snapshot, NEW r \in spelled, r.id = s.row
  PROVE  /\ \E x \in AfterCopy \ Gone : x.id = Moved(s).row /\ SameSlot(x, r)
         /\ Moved(s) \in Snapshot /\ Moved(s).key = s.key /\ Moved(s).of = s.of
<1>. DEFINE owner == {d \in Of("dirty") : d.id = s.row /\ ~Collides(s, d)}
<1>1. CASE owner = {}
  <2>1. Moved(s) = s
    BY <1>1 DEF Moved
  <2>2. CASE r \in Of("canonical")
    BY <2>1, <2>2, CanonicalStays
  <2>3. CASE r \in Of("dirty")
    <3>1. r \in Blocked
      BY <1>1, <2>3 DEF Blocked
    <3>2. SameSlot(r, r)
      BY DEF SameSlot
    <3>. QED  BY <2>1, <2>3, <3>1, <3>2, MergedRows
  <2>4. r.symbol \in {"canonical", "dirty"}
    BY RowFields DEF RowsInvariant
  <2>. QED  BY <2>2, <2>3, <2>4 DEF Of
<1>2. CASE owner # {}
  <2>1. \A d \in owner : d = r
    BY DEF Of, RowsInvariant, UniqueIds
  <2>2. r \in Of("dirty") /\ (CHOOSE d \in owner : TRUE) = r
    BY <1>2, <2>1
  <2>3. Moved(s) = [s EXCEPT !.row = Kept(r)]
    BY <1>2, <2>2 DEF Moved
  <2>4. Kept(r) \in Int
    BY <2>2, CopiedRow, RowFields DEF Kept
  <2>5. Moved(s).row = Kept(r) /\ Moved(s) \in Snapshot /\ Moved(s).key = s.key /\ Moved(s).of = s.of
    BY <2>3, <2>4 DEF Snapshot
  <2>. QED  BY <2>2, <2>5, CopiedRow, MergedRows DEF Kept
<1>. QED  BY <1>1, <1>2

\* No snapshot is of a row that goes.
LEMMA NoneOfTheGone ==
  ASSUME RowsInvariant, NEW s \in attached, s \in Snapshot, NEW d \in Gone
  PROVE  Moved(s).row # d.id
<1>1. d \in Of("dirty") /\ d \notin Blocked /\ d \in spelled /\ d.symbol = "dirty"
  BY DEF Gone, Of
<1>. DEFINE owner == {e \in Of("dirty") : e.id = s.row /\ ~Collides(s, e)}
<1>2. CASE owner = {}
  <2>1. Moved(s) = s
    BY <1>2 DEF Moved
  <2>. QED  BY <1>1, <1>2, <2>1 DEF Blocked
<1>3. CASE owner # {}
  <2>1. PICK e \in Of("dirty") : e = CHOOSE x \in owner : TRUE
    BY <1>3
  <2>2. Moved(s) = [s EXCEPT !.row = Kept(e)]
    BY <1>3, <2>1 DEF Moved
  <2>3. Moved(s).row = Copied(e).id
    BY <2>2 DEF Snapshot, Kept
  <2>. QED  BY <1>1, <2>3, CopyIds
<1>. QED  BY <1>2, <1>3

LEMMA MergeKeeps ==
  ASSUME SpellingsInvariant, Merge
  PROVE  SpellingsInvariant'
<1>1. CASE UNCHANGED <<spelled, attached>>
  <2>1. UNCHANGED <<spelled, attached, history>>
    BY <1>1 DEF Merge
  <2>. QED  BY <2>1 DEF SpellingsInvariant, RowsInvariant, SnapshotsInvariant, HistorySurvivesSpelling
<1>2. CASE ~UNCHANGED <<spelled, attached>>
  <2>1. /\ IdentityHolds(AfterCopy) /\ spelled' = AfterCopy \ Gone
        /\ attached' = {s \in {Moved(s) : s \in attached} : \A d \in Gone : s.row # d.id}
        /\ history' = history
    BY <1>2 DEF Merge
  <2>2. RowsInvariant'
    <3>. DEFINE q == AfterCopy \ Gone
    <3>1. q \subseteq TableRow /\ UniqueIds(q) /\ IdentityHolds(q) /\ CopiesMatch(q)
      BY <2>1, AfterCopyRows, PartOfTable DEF SpellingsInvariant
    <3>2. spelled' = q
      BY <2>1
    <3>. HIDE DEF q
    <3>. QED  BY <3>1, <3>2 DEF RowsInvariant
  <2>3. attached' = {Moved(s) : s \in attached}
    BY <2>1, NoneOfTheGone DEF SpellingsInvariant, SnapshotsInvariant
  <2>4. \A s \in attached, r \in spelled : r.id = s.row =>
          /\ \E x \in spelled' : x.id = Moved(s).row /\ SameSlot(x, r)
          /\ Moved(s) \in attached' /\ Moved(s) \in Snapshot
          /\ Moved(s).key = s.key /\ Moved(s).of = s.of
    BY <2>1, <2>3, SnapshotFollows DEF SpellingsInvariant, SnapshotsInvariant
  <2>5. SnapshotsInvariant'
    BY <2>3, <2>4 DEF SpellingsInvariant, SnapshotsInvariant
  <2>6. HistorySurvivesSpelling'
    <3>1. SUFFICES ASSUME NEW h \in history PROVE h \in SlotsTaken(attached', spelled')
      BY <2>1 DEF HistorySurvivesSpelling
    <3>2. PICK s \in attached, r \in spelled : r.id = s.row /\ h = SlotOf(s, r)
      BY DEF SpellingsInvariant, HistorySurvivesSpelling, SlotsTaken
    <3>3. PICK x \in spelled' : x.id = Moved(s).row /\ SameSlot(x, r)
      BY <2>4, <3>2
    <3>4. h = SlotOf(Moved(s), x) /\ Moved(s) \in attached'
      BY <2>4, <3>2, <3>3 DEF SlotOf, SameSlot
    <3>. QED  BY <3>3, <3>4 DEF SlotsTaken
  <2>. QED  BY <2>2, <2>5, <2>6 DEF SpellingsInvariant
<1>. QED  BY <1>1, <1>2

----------------------------------------------------------------------------
(* Providers                                                               *)

\* A figure changes neither the id nor the symbol, the date, the type or the period of its row.
LEMMA FigureKeeps ==
  ASSUME SpellingsInvariant, NEW r \in spelled, NEW figure \in Figures, NEW currency \in Currencies,
         WriteFigure(r, figure, currency)
  PROVE  SpellingsInvariant'
<1>. DEFINE w == [r EXCEPT !.act = figure, !.currency = currency]
            q == (spelled \ {r}) \cup {w}
<1>1. /\ r.symbol = "canonical" /\ spelled' = q /\ attached' = attached /\ history' = history
  BY DEF WriteFigure
<1>2. r \in TableRow
  BY DEF SpellingsInvariant, RowsInvariant
<1>3. w \in TableRow /\ w.id = r.id /\ w.symbol = r.symbol /\ w.date = r.date /\ w.type = r.type
      /\ w.period = r.period /\ w.is_predicted = r.is_predicted
  BY <1>2 DEF TableRow
<1>. HIDE DEF w
<1>4. \A x \in q : /\ x \in TableRow
                   /\ \E y \in spelled : /\ y.id = x.id /\ y.symbol = x.symbol /\ y.date = x.date
                                         /\ y.type = x.type /\ y.period = x.period
                                         /\ y.is_predicted = x.is_predicted
                                         /\ (x = w /\ y = r) \/ (x = y /\ y # r)
  BY <1>2, <1>3 DEF SpellingsInvariant, RowsInvariant
<1>5. q \subseteq TableRow /\ UniqueIds(q) /\ IdentityHolds(q) /\ CopiesMatch(q)
  <2>1. q \subseteq TableRow
    BY <1>4
  <2>2. UniqueIds(q)
    BY <1>4 DEF UniqueIds, SpellingsInvariant, RowsInvariant
  <2>3. IdentityHolds(q)
    <3>1. SUFFICES ASSUME NEW x \in q, NEW z \in q, x.symbol = z.symbol, x # z
                   PROVE  ~SameSlot(x, z) /\ (x.is_predicted \/ z.is_predicted \/ x.period # z.period)
      BY DEF IdentityHolds
    <3>2. PICK y \in spelled : /\ y.symbol = x.symbol /\ y.date = x.date /\ y.type = x.type
                               /\ y.period = x.period /\ y.is_predicted = x.is_predicted
                               /\ (x = w /\ y = r) \/ (x = y /\ y # r)
      BY <1>4
    <3>3. PICK v \in spelled : /\ v.symbol = z.symbol /\ v.date = z.date /\ v.type = z.type
                               /\ v.period = z.period /\ v.is_predicted = z.is_predicted
                               /\ (z = w /\ v = r) \/ (z = v /\ v # r)
      BY <1>4
    <3>4. y # v
      BY <3>1, <3>2, <3>3
    <3>5. ~SameSlot(y, v) /\ (y.is_predicted \/ v.is_predicted \/ y.period # v.period)
      BY <3>1, <3>2, <3>3, <3>4 DEF SpellingsInvariant, RowsInvariant, IdentityHolds
    <3>. QED  BY <3>2, <3>3, <3>5 DEF SameSlot
  <2>4. CopiesMatch(q)
    BY <1>4 DEF CopiesMatch, SameSlot, NewId, SpellingsInvariant, RowsInvariant
  <2>. QED  BY <2>1, <2>2, <2>3, <2>4
<1>6. \A y \in spelled : \E x \in q : x.id = y.id /\ x.date = y.date /\ x.type = y.type
  BY <1>3
<1>. HIDE DEF q
<1>7. RowsInvariant'
  BY <1>1, <1>5 DEF RowsInvariant
<1>8. SnapshotsInvariant'
  BY <1>1, <1>6 DEF SpellingsInvariant, SnapshotsInvariant
<1>9. HistorySurvivesSpelling'
  BY <1>1, <1>6 DEF SpellingsInvariant, HistorySurvivesSpelling, SlotsTaken, SlotOf
<1>. QED  BY <1>7, <1>8, <1>9 DEF SpellingsInvariant

LEMMA SnapshotKeeps ==
  ASSUME SpellingsInvariant, NEW r \in spelled, NEW key \in SnapshotKeys, TakeSnapshot(r, key)
  PROVE  SpellingsInvariant'
<1>. DEFINE t == [row |-> r.id, key |-> key, of |-> r.id]
<1>1. /\ spelled' = spelled /\ attached' = attached \cup {t}
      /\ history' = history \cup {SlotOf(t, r)}
  BY DEF TakeSnapshot, SlotOf
<1>2. t \in Snapshot /\ t.row = r.id
  BY RowFields DEF Snapshot, SpellingsInvariant, RowsInvariant
<1>. HIDE DEF t
<1>3. RowsInvariant'
  BY <1>1 DEF SpellingsInvariant, RowsInvariant
<1>4. SnapshotsInvariant'
  BY <1>1, <1>2 DEF SpellingsInvariant, SnapshotsInvariant
<1>5. HistorySurvivesSpelling'
  BY <1>1, <1>2 DEF SpellingsInvariant, HistorySurvivesSpelling, SlotsTaken
<1>. QED  BY <1>3, <1>4, <1>5 DEF SpellingsInvariant

----------------------------------------------------------------------------
(* The specification                                                       *)

LEMMA SpellingsStart ==
  ASSUME SpellingsInit
  PROVE  SpellingsInvariant
<1>1. spelled \subseteq LegacyRow /\ UniqueIds(spelled) /\ IdentityHolds(spelled)
  BY SpellingsAssumption DEF SpellingsInit, UniqueIds
<1>2. spelled \subseteq TableRow /\ \A r \in spelled : r.id \in Int /\ r.id > 0
  BY <1>1 DEF LegacyRow, TableRow, Spelling
<1>3. CopiesMatch(spelled)
  BY <1>2 DEF CopiesMatch, NewId
<1>4. SnapshotsInvariant
  BY <1>2 DEF SpellingsInit, SnapshotsInvariant, Snapshot
<1>. QED  BY <1>1, <1>2, <1>3, <1>4
     DEF SpellingsInvariant, RowsInvariant, HistorySurvivesSpelling, SpellingsInit

LEMMA SpellingsStep ==
  ASSUME SpellingsInvariant, [SpellingsNext]_spellingVars
  PROVE  SpellingsInvariant'
<1>1. CASE Merge
  BY <1>1, MergeKeeps
<1>2. CASE Provide
  BY <1>2, FigureKeeps, SnapshotKeeps DEF Provide
<1>3. CASE UNCHANGED spellingVars
  BY <1>3 DEF spellingVars, SpellingsInvariant, RowsInvariant, SnapshotsInvariant, HistorySurvivesSpelling
<1>. QED  BY <1>1, <1>2, <1>3 DEF SpellingsNext

\* The inductive invariant holds of every reachable table.
THEOREM SpellingsInvariance == SpellingsSpec => []SpellingsInvariant
<1>. QED  BY SpellingsStart, SpellingsStep, PTL DEF SpellingsSpec

\* Every variable keeps its type: no two rows share an id, and no snapshot is left without its row.
THEOREM SpellingsTypes == SpellingsSpec => []SpellingsTypeOK
<1>. DEFINE Flag == aborted \in BOOLEAN
            Counters == merges \in 0 .. MaxMerges /\ writes \in 0 .. MaxWrites
<1>1. SpellingsInit => Flag /\ Counters
  <2>1. SpellingsInit => aborted = FALSE /\ merges = 0 /\ writes = 0
    BY DEF SpellingsInit
  <2>2. merges = 0 /\ writes = 0 => Counters
    BY SpellingsAssumption
  <2>. QED  BY <2>1, <2>2
<1>2. Flag /\ Counters /\ [SpellingsNext]_spellingVars => Flag' /\ Counters'
  <2>. SUFFICES ASSUME Flag, Counters, [SpellingsNext]_spellingVars
                PROVE  Flag' /\ Counters'
    OBVIOUS
  <2>1. CASE Merge
    <3>1. (aborted' = TRUE \/ aborted' = FALSE) /\ merges < MaxMerges /\ merges' = merges + 1 /\ writes' = writes
      BY <2>1 DEF Merge
    <3>2. Counters'
      BY <3>1, SpellingsAssumption
    <3>3. Flag'
      BY <3>1
    <3>. QED  BY <3>2, <3>3
  <2>2. CASE Provide
    <3>1. /\ aborted' = aborted /\ merges' = merges
          /\ writes < MaxWrites /\ writes' = writes + 1
      BY <2>2 DEF Provide, WriteFigure, TakeSnapshot
    <3>2. Counters'
      BY <3>1, SpellingsAssumption
    <3>. QED  BY <3>1, <3>2
  <2>3. CASE UNCHANGED spellingVars
    BY <2>3 DEF spellingVars
  <2>. QED  BY <2>1, <2>2, <2>3 DEF SpellingsNext
<1>3. SpellingsInvariant /\ Flag /\ Counters => SpellingsTypeOK
  <2>. SUFFICES ASSUME SpellingsInvariant, Flag, Counters PROVE SpellingsTypeOK
    OBVIOUS
  <2>1. \A r \in spelled : r.symbol \in Spelling /\ r.act \in Figures \cup {NoFigure}
                           /\ r.currency \in Currencies \cup {NoFigure}
    BY RowFields DEF SpellingsInvariant, RowsInvariant, Spelling
  <2>2. \A s \in attached : s.row \in {r.id : r \in spelled} /\ s.key \in SnapshotKeys
    BY DEF SpellingsInvariant, SnapshotsInvariant, Snapshot
  <2>. QED  BY <2>1, <2>2 DEF SpellingsTypeOK, SpellingsInvariant, RowsInvariant, UniqueIds
<1>. HIDE DEF Counters, Flag
<1>. QED  BY <1>1, <1>2, <1>3, SpellingsInvariance, PTL DEF SpellingsSpec

\* Whatever merges, refused merges and provider runs there were, every estimate snapshot ever
\* taken is still there at its date and of its type (merge_symbol_onto_canonical moves it, or
\* keeps its row).
THEOREM HistorySurvives == SpellingsSpec => []HistorySurvivesSpelling
<1>1. SpellingsInvariant => HistorySurvivesSpelling
  BY DEF SpellingsInvariant
<1>. QED  BY <1>1, SpellingsInvariance, PTL

----------------------------------------------------------------------------
(* Reconcile: rows in the order of authority                               *)

Rows(rs) == rs \subseteq StoredRow /\ IsFiniteSet(rs) /\ UniqueIds(rs)

LEMMA StoredFields ==
  ASSUME NEW r \in StoredRow
  PROVE  /\ r.id \in Nat \ {0} /\ r.date \in Int /\ r.type \in ReportTypes /\ r.period \in Nat
         /\ r.act \in OldFigures /\ r.is_predicted \in BOOLEAN /\ r.source \in STRING
BY DEF StoredRow

\* A row with another figure, type or period is a row.
LEMMA FigureSet ==
  ASSUME NEW r \in StoredRow, NEW act \in OldFigures
  PROVE  /\ [r EXCEPT !.act = act] \in StoredRow
         /\ [r EXCEPT !.act = act].id = r.id /\ [r EXCEPT !.act = act].date = r.date
         /\ [r EXCEPT !.act = act].type = r.type /\ [r EXCEPT !.act = act].act = act
BY DEF StoredRow

LEMMA TypeSet ==
  ASSUME NEW r \in StoredRow, NEW type \in ReportTypes
  PROVE  /\ [r EXCEPT !.type = type] \in StoredRow
         /\ [r EXCEPT !.type = type].id = r.id /\ [r EXCEPT !.type = type].date = r.date
         /\ [r EXCEPT !.type = type].act = r.act
BY DEF StoredRow

LEMMA PeriodSet ==
  ASSUME NEW r \in StoredRow, NEW period \in Nat
  PROVE  /\ [r EXCEPT !.period = period] \in StoredRow
         /\ [r EXCEPT !.period = period].id = r.id /\ [r EXCEPT !.period = period].act = r.act
         /\ [r EXCEPT !.period = period].date = r.date /\ [r EXCEPT !.period = period].type = r.type
         /\ [r EXCEPT !.period = period].is_predicted = r.is_predicted
         /\ [r EXCEPT !.period = period].period = period
BY DEF StoredRow

LEMMA AheadIsStrict ==
  ASSUME NEW q \in StoredRow, NEW r \in StoredRow, Ahead(q, r)
  PROVE  ~ Ahead(r, q)
<1>1. q.date \in Int /\ r.date \in Int
  BY StoredFields
<1>2. q.date > r.date => ~ (r.date > q.date)
  BY <1>1
<1>. QED  BY <1>2 DEF Ahead

LEMMA AheadIsTransitive ==
  ASSUME NEW q \in StoredRow, NEW r \in StoredRow, NEW s \in StoredRow, Ahead(q, r), Ahead(r, s)
  PROVE  Ahead(q, s)
<1>1. q.date \in Int /\ r.date \in Int /\ s.date \in Int
  BY StoredFields
<1>2. q.date > r.date /\ r.date > s.date => q.date > s.date
  BY <1>1
<1>. QED  BY <1>2 DEF Ahead

\* Of some rows, one has none ahead of it.
LEMMA SomeRowLeads ==
  ASSUME NEW rs \in SUBSET StoredRow, IsFiniteSet(rs), rs # {}
  PROVE  Leading(rs) # {}
<1>. DEFINE led == {q \in SUBSET rs : q # {} /\ Leading(q) = {}}
<1>1. SUFFICES ASSUME led # {} PROVE FALSE
  OBVIOUS
<1>2. IsWellFoundedOn(StrictSubsetOrdering(rs), SUBSET rs)
  <2>1. FiniteSubsetsOf(rs) = SUBSET rs
    BY FS_FiniteSubsetsOfFinite
  <2>2. IsWellFoundedOn(StrictSubsetOrdering(rs), FiniteSubsetsOf(rs))
    BY FS_StrictSubsetOrderingWellFounded
  <2>. QED  BY <2>1, <2>2
<1>3. PICK q \in led : \A p \in led : ~ (<<p, q>> \in StrictSubsetOrdering(rs))
  <2>. HIDE DEF led
  <2>1. led \subseteq SUBSET rs
    BY DEF led
  <2>. QED  BY <1>1, <1>2, <2>1, WFMin
<1>4. PICK r \in q : TRUE
  OBVIOUS
<1>5. q \ {r} \subseteq q /\ q \ {r} # q /\ q \subseteq rs
  OBVIOUS
<1>6. q \ {r} \notin led
  BY <1>3, <1>5 DEF StrictSubsetOrdering
<1>7. CASE q \ {r} = {}
  <2>1. \A s \in q : s = r
    BY <1>7
  <2>2. ~ Ahead(r, r)
    BY <1>4, <1>5, AheadIsStrict
  <2>. QED  BY <1>4, <2>1, <2>2 DEF Leading
<1>8. CASE q \ {r} # {}
  <2>1. PICK m \in q \ {r} : \A s \in q \ {r} : ~ Ahead(s, m)
    BY <1>5, <1>6, <1>8 DEF Leading
  <2>2. CASE Ahead(r, m)
    <3>1. \A s \in q \ {r} : ~ Ahead(s, r)
      BY <1>4, <1>5, <2>1, <2>2, AheadIsTransitive
    <3>2. ~ Ahead(r, r)
      BY <1>4, <1>5, AheadIsStrict
    <3>. QED  BY <1>4, <3>1, <3>2 DEF Leading
  <2>3. CASE ~ Ahead(r, m)
    BY <2>1, <2>3 DEF Leading
  <2>. QED  BY <2>2, <2>3
<1>. QED  BY <1>7, <1>8

----------------------------------------------------------------------------
(* Reconcile: the invariant                                                *)

\* Snapshots have an id; of their rows and instants nothing is said.
Snaps(ss) == \E os, ats : ss \subseteq [id : Nat, of : os, at : ats]

\* Each script has a backup of rows.
Backups(b) == \E bs : b \in [fiscal : bs, same_date : bs, labels : bs, types : bs]

Merging == job # Idle /\ job.kind # "types"
Writing == job # Idle /\ job.pc # "planned"

JobTypes ==
  job # Idle =>
    /\ \E ps, ss, bs : job \in [kind : {"fiscal", "same_date", "types"}, pc : {"planned", "carry", "remove"},
                                plans : ps, planned : Nat, carried : Nat,
                                before : [stored : SUBSET StoredRow, snaps : ss, backup : bs]]
    /\ job.planned <= syncs /\ job.carried <= syncs
    /\ Rows(job.before.stored) /\ Snaps(job.before.snaps) /\ Backups(job.before.backup)
    /\ job.kind = "types" => job.pc = "planned"
    /\ job.kind = "fiscal" => job.pc # "planned"

TablesTyped == Rows(stored) /\ Snaps(snaps) /\ Backups(backup) /\ calendar \in Answers /\ syncs \in Nat

\* A merge has plans while it writes; none of them removes the row it keeps.
PlansAgree ==
  Merging =>
    /\ Writing => job.plans # {}
    /\ \A p \in job.plans : p.dropped \subseteq StoredRow /\ p.survivor.id \notin Ids(p.dropped)

\* A row whose type is about to change has a type at its date.
TypesKnown ==
  job # Idle /\ job.kind = "types" =>
    \A p \in job.plans : /\ p \in StoredRow /\ TypeAt(p.date) # {}
                         /\ \A r \in stored : r.id = p.id => r.date = p.date

\* The plans a merge has not come to.
Pending == job.plans \ (IF job.pc = "remove" THEN {Plan} ELSE {})

\* They have survivors of their own, whose figures are those that were planned with, or a sync's.
PlansCurrent ==
  job # Idle /\ job.kind = "same_date" =>
    /\ \A p, q \in job.plans : p.survivor.id = q.survivor.id => p = q
    /\ \A p \in Pending, r \in stored :
          r.id = p.survivor.id => r.act = p.survivor.act \/ syncs > job.planned

\* What a rollback restores has every row and every snapshot there is.
NothingNew ==
  Writing => Ids(stored) \subseteq Ids(job.before.stored) /\ Ids(snaps) \subseteq Ids(job.before.snaps)

\* A row about to be removed is in the backup, and its snapshots are those of syncs since.
ReadyToRemove ==
  job # Idle /\ job.pc = "remove" =>
    /\ \A s \in snaps : s.of \in Ids(Plan.dropped) => s.id >= 100 + job.carried
    /\ \A r \in stored : r.id \in Ids(Plan.dropped) =>
         \E b \in backup[job.kind] : b.id = r.id /\ (b.act = r.act \/ syncs > job.carried)

RepairInvariant ==
  TablesTyped /\ JobTypes /\ PlansAgree /\ TypesKnown /\ PlansCurrent /\ NothingNew /\ ReadyToRemove

----------------------------------------------------------------------------
(* Reconcile: sets of rows and snapshots                                   *)

LEMMA PartOfRows ==
  ASSUME NEW rs, Rows(rs), NEW qs, qs \subseteq rs
  PROVE  Rows(qs) /\ Ids(qs) \subseteq Ids(rs)
<1>1. IsFiniteSet(qs)
  BY FS_Subset DEF Rows
<1>. QED  BY <1>1 DEF Rows, UniqueIds, Ids

\* Rows that are changed but for their ids.
LEMMA RowsChanged ==
  ASSUME NEW rs, Rows(rs), NEW f, f \in [rs -> StoredRow], \A r \in rs : f[r].id = r.id,
         NEW qs, qs = {f[r] : r \in rs}
  PROVE  Rows(qs) /\ Ids(qs) = Ids(rs)
<1>1. f \in Surjection(rs, qs)
  BY DEF Surjection
<1>2. IsFiniteSet(qs)
  BY <1>1, FS_Surjection DEF Rows
<1>3. qs \subseteq StoredRow
  OBVIOUS
<1>4. UniqueIds(qs)
  BY DEF Rows, UniqueIds
<1>5. Ids(qs) = Ids(rs)
  BY DEF Ids
<1>. QED  BY <1>2, <1>3, <1>4, <1>5 DEF Rows

\* The snapshots of removed rows end up with the row that stays, and all are there.
LEMMA RepointedSnaps ==
  ASSUME NEW ss, Snaps(ss), NEW survivor, NEW dropped, survivor \notin dropped
  PROVE  LET moved == Repointed(ss, survivor, dropped) IN
         /\ Snaps(moved) /\ Ids(moved) = Ids(ss)
         /\ \A s \in moved : s.of \notin dropped /\ (s.of = survivor \/ s \in ss)
<1>1. PICK os, ats : ss \subseteq [id : Nat, of : os, at : ats]
  BY DEF Snaps
<1>2. PICK free, clashing : /\ clashing \subseteq {s \in ss : s.of \in dropped}
        /\ Repointed(ss, survivor, dropped)
             = (ss \ {s \in ss : s.of \in dropped})
               \cup {[s EXCEPT !.of = survivor] : s \in {s \in ss : s.of \in dropped} \ clashing}
               \cup {[s EXCEPT !.of = survivor, !.at = free[s]] : s \in clashing}
  BY DEF Repointed
<1>. DEFINE shifts == {free[s] : s \in ss}
            type == [id : Nat, of : os \cup {survivor}, at : ats \cup shifts]
<1>3. \A s \in ss : /\ [s EXCEPT !.of = survivor] \in type
                    /\ [s EXCEPT !.of = survivor].id = s.id /\ [s EXCEPT !.of = survivor].of = survivor
  BY <1>1
<1>4. \A s \in ss : /\ [s EXCEPT !.of = survivor, !.at = free[s]] \in type
                    /\ [s EXCEPT !.of = survivor, !.at = free[s]].id = s.id
                    /\ [s EXCEPT !.of = survivor, !.at = free[s]].of = survivor
  BY <1>1
<1>5. ss \subseteq type
  BY <1>1
<1>. DEFINE moved == Repointed(ss, survivor, dropped)
<1>6. moved \subseteq type
  <2>. HIDE DEF type
  <2>. QED  BY <1>2, <1>3, <1>4, <1>5
<1>7. Ids(moved) = Ids(ss)
  <2>1. \A m \in moved : \E s \in ss : s.id = m.id
    BY <1>2, <1>3, <1>4
  <2>2. ASSUME NEW s \in ss PROVE \E m \in moved : m.id = s.id
    <3>1. CASE s \in clashing
      BY <1>2, <1>4, <3>1
    <3>2. CASE s \notin clashing
      BY <1>2, <1>3, <3>2
    <3>. QED  BY <3>1, <3>2
  <2>. HIDE DEF moved
  <2>. QED  BY <2>1, <2>2 DEF Ids
<1>8. \A s \in moved : s.of \notin dropped /\ (s.of = survivor \/ s \in ss)
  BY <1>2, <1>3, <1>4
<1>9. Snaps(moved)
  BY <1>6 DEF Snaps
<1>. QED  BY <1>7, <1>8, <1>9

\* The pipeline's figure for one row.
Figured(rs, id) == {IF s.id = id THEN [s EXCEPT !.act = "new"] ELSE s : s \in rs}

LEMMA RowsFigured ==
  ASSUME NEW rs, Rows(rs), NEW id, NEW qs, qs = Figured(rs, id)
  PROVE  /\ Rows(qs) /\ Ids(qs) = Ids(rs)
         /\ \A q \in qs : \E s \in rs : q.id = s.id /\ q.date = s.date /\ q.type = s.type
<1>. DEFINE f == [s \in rs |-> IF s.id = id THEN [s EXCEPT !.act = "new"] ELSE s]
<1>1. ASSUME NEW s \in rs
      PROVE  /\ [s EXCEPT !.act = "new"] \in StoredRow /\ [s EXCEPT !.act = "new"].id = s.id
             /\ [s EXCEPT !.act = "new"].date = s.date /\ [s EXCEPT !.act = "new"].type = s.type
  <2>1. s \in StoredRow
    BY DEF Rows
  <2>2. "new" \in OldFigures
    BY DEF OldFigures
  <2>. QED  BY <2>1, <2>2, FigureSet
<1>2. \A s \in rs : f[s] \in StoredRow /\ f[s].id = s.id /\ f[s].date = s.date /\ f[s].type = s.type
  BY <1>1 DEF Rows
<1>3. f \in [rs -> StoredRow] /\ qs = {f[s] : s \in rs}
  BY <1>2 DEF Figured
<1>. HIDE DEF f
<1>. QED  BY <1>2, <1>3, RowsChanged

----------------------------------------------------------------------------
(* Reconcile: scripts that start                                           *)

LEMMA JobFields ==
  ASSUME JobTypes, job # Idle
  PROVE  /\ job.kind \in {"fiscal", "same_date", "types"} /\ job.pc \in {"planned", "carry", "remove"}
         /\ job.planned \in Nat /\ job.carried \in Nat
BY DEF JobTypes

LEMMA StartedTypes ==
  ASSUME TablesTyped, NEW kind \in {"fiscal", "same_date", "types"}, NEW pc \in {"planned", "carry"},
         kind = "types" => pc = "planned", kind = "fiscal" => pc # "planned", NEW plans,
         job' = Started(kind, pc, plans), UNCHANGED <<stored, snaps, backup, calendar, syncs>>
  PROVE  /\ TablesTyped' /\ JobTypes' /\ NothingNew' /\ ReadyToRemove'
         /\ job' # Idle /\ job'.kind = kind /\ job'.pc = pc /\ job'.plans = plans /\ job'.planned = syncs
<1>1. TablesTyped'
  BY DEF TablesTyped
<1>2. /\ job'.kind = kind /\ job'.pc = pc /\ job'.plans = plans /\ job'.planned = syncs /\ job'.carried = syncs
      /\ job'.before = [stored |-> stored, snaps |-> snaps, backup |-> backup]
  BY DEF Started
<1>3. job' # Idle
  BY <1>2 DEF Idle
<1>4. JobTypes'
  <2>1. [stored |-> stored, snaps |-> snaps, backup |-> backup]
          \in [stored : SUBSET StoredRow, snaps : {snaps}, backup : {backup}]
    BY DEF TablesTyped, Rows
  <2>2. job' \in [kind : {"fiscal", "same_date", "types"}, pc : {"planned", "carry", "remove"},
                  plans : {plans}, planned : Nat, carried : Nat,
                  before : [stored : SUBSET StoredRow, snaps : {snaps}, backup : {backup}]]
    BY <2>1 DEF Started, TablesTyped
  <2>3. /\ job'.planned <= syncs' /\ job'.carried <= syncs'
        /\ Rows(job'.before.stored) /\ Snaps(job'.before.snaps) /\ Backups(job'.before.backup)
    BY <1>2 DEF TablesTyped
  <2>. QED  BY <1>2, <2>2, <2>3 DEF JobTypes
<1>5. NothingNew'
  BY <1>2 DEF NothingNew
<1>6. ReadyToRemove'
  BY <1>2 DEF ReadyToRemove
<1>. QED  BY <1>1, <1>2, <1>3, <1>4, <1>5, <1>6

LEMMA FiscalPlan ==
  ASSUME Rows(stored), NEW p \in FiscalPlans
  PROVE  p.dropped \subseteq StoredRow /\ p.survivor.id \notin Ids(p.dropped)
<1>1. PICK k \in PeriodsOf(Confirmed(stored)) :
        LET group == {r \in Confirmed(stored) : r.period = k}
            shown == Only(Leading(group)) IN
        p = [survivor |-> shown, dropped |-> group \ {shown}]
  BY DEF FiscalPlans
<1>. DEFINE group == {r \in Confirmed(stored) : r.period = k}
            shown == Only(Leading(group))
<1>2. group \subseteq stored /\ group # {}
  BY DEF Confirmed, PeriodsOf
<1>3. Rows(group)
  BY <1>2, PartOfRows
<1>. HIDE DEF group
<1>4. Leading(group) # {} /\ Leading(group) \subseteq group
  BY <1>2, <1>3, SomeRowLeads DEF Rows, Leading
<1>5. shown \in group
  BY <1>4 DEF Only
<1>. HIDE DEF shown
<1>6. p.survivor = shown /\ p.dropped = group \ {shown}
  BY <1>1 DEF shown, group
<1>. QED  BY <1>3, <1>5, <1>6 DEF Rows, UniqueIds, Ids

LEMMA StartFiscalKeeps ==
  ASSUME RepairInvariant, StartFiscalMerge
  PROVE  RepairInvariant'
<1>1. /\ job' = Started("fiscal", "carry", FiscalPlans) /\ FiscalPlans # {}
      /\ UNCHANGED <<stored, snaps, backup, calendar, syncs>>
  BY DEF StartFiscalMerge
<1>2. /\ TablesTyped' /\ JobTypes' /\ NothingNew' /\ ReadyToRemove'
      /\ job'.kind = "fiscal" /\ job'.plans = FiscalPlans
  BY <1>1, StartedTypes DEF RepairInvariant
<1>3. PlansAgree'
  BY <1>1, <1>2, FiscalPlan DEF PlansAgree, RepairInvariant, TablesTyped
<1>4. TypesKnown' /\ PlansCurrent'
  BY <1>2 DEF TypesKnown, PlansCurrent
<1>. QED  BY <1>2, <1>3, <1>4 DEF RepairInvariant

\* A plan of the same-date merge is of a date, one of whose releases stays.
LEMMA SameDatePlan ==
  ASSUME Rows(stored), NEW p \in SameDatePlans
  PROVE  \E d : /\ p.survivor \in stored /\ p.survivor.date = d /\ ~ Disclosing(p.survivor)
                /\ p.dropped = {r \in stored : r.date = d /\ Disclosing(r)}
                /\ p = [survivor |-> Only({r \in stored : r.date = d /\ ~ Disclosing(r)}),
                        dropped |-> {r \in stored : r.date = d /\ Disclosing(r)}]
<1>1. PICK q \in stored : ~ Disclosing(q)
        /\ p = [survivor |-> Only({r \in {s \in stored : s.date = q.date} : ~ Disclosing(r)}),
                dropped |-> {r \in {s \in stored : s.date = q.date} : Disclosing(r)}]
  BY DEF SameDatePlans, Confirmed
<1>. DEFINE kept == {r \in stored : r.date = q.date /\ ~ Disclosing(r)}
            gone == {r \in stored : r.date = q.date /\ Disclosing(r)}
<1>2. /\ {r \in {s \in stored : s.date = q.date} : ~ Disclosing(r)} = kept
      /\ {r \in {s \in stored : s.date = q.date} : Disclosing(r)} = gone
  OBVIOUS
<1>3. q \in kept
  BY <1>1
<1>4. Only(kept) \in kept
  BY <1>3 DEF Only
<1>5. p = [survivor |-> Only(kept), dropped |-> gone]
  BY <1>1, <1>2
<1>6. p.survivor \in kept /\ p.dropped = gone
  BY <1>4, <1>5
<1>. QED  BY <1>5, <1>6

LEMMA StartSameDateKeeps ==
  ASSUME RepairInvariant, StartSameDateMerge
  PROVE  RepairInvariant'
<1>1. /\ job' = Started("same_date", "planned", SameDatePlans)
      /\ UNCHANGED <<stored, snaps, backup, calendar, syncs>>
  BY DEF StartSameDateMerge
<1>2. /\ TablesTyped' /\ JobTypes' /\ NothingNew' /\ ReadyToRemove'
      /\ job'.kind = "same_date" /\ job'.plans = SameDatePlans /\ job'.pc = "planned"
  BY <1>1, StartedTypes DEF RepairInvariant
<1>3. Rows(stored)
  BY DEF RepairInvariant, TablesTyped
<1>4. ASSUME NEW p \in SameDatePlans
      PROVE  p.dropped \subseteq StoredRow /\ p.survivor.id \notin Ids(p.dropped) /\ p.survivor \in stored
  <2>1. PICK d : /\ p.survivor \in stored /\ ~ Disclosing(p.survivor)
                 /\ p.dropped = {r \in stored : r.date = d /\ Disclosing(r)}
    BY <1>3, SameDatePlan
  <2>. QED  BY <1>3, <2>1 DEF Rows, UniqueIds, Ids
<1>5. ASSUME NEW p \in SameDatePlans, NEW q \in SameDatePlans, p.survivor.id = q.survivor.id
      PROVE  p = q
  <2>1. p.survivor = q.survivor
    BY <1>3, <1>4, <1>5 DEF Rows, UniqueIds
  <2>2. PICK d : /\ p.survivor.date = d
                 /\ p = [survivor |-> Only({r \in stored : r.date = d /\ ~ Disclosing(r)}),
                         dropped |-> {r \in stored : r.date = d /\ Disclosing(r)}]
    BY <1>3, SameDatePlan
  <2>3. PICK e : /\ q.survivor.date = e
                 /\ q = [survivor |-> Only({r \in stored : r.date = e /\ ~ Disclosing(r)}),
                         dropped |-> {r \in stored : r.date = e /\ Disclosing(r)}]
    BY <1>3, SameDatePlan
  <2>4. d = e
    BY <2>1, <2>2, <2>3
  <2>. QED  BY <2>2, <2>3, <2>4
<1>6. PlansAgree'
  BY <1>2, <1>4 DEF PlansAgree, Writing
<1>7. PlansCurrent'
  <2>1. Pending' \subseteq SameDatePlans
    BY <1>2 DEF Pending
  <2>2. \A p \in SameDatePlans, r \in stored : r.id = p.survivor.id => r.act = p.survivor.act
    BY <1>3, <1>4 DEF Rows, UniqueIds
  <2>. QED  BY <1>1, <1>2, <1>5, <2>1, <2>2 DEF PlansCurrent
<1>8. TypesKnown'
  BY <1>2 DEF TypesKnown
<1>. QED  BY <1>2, <1>6, <1>7, <1>8 DEF RepairInvariant

LEMMA StartTypesKeeps ==
  ASSUME RepairInvariant, StartTypes
  PROVE  RepairInvariant'
<1>1. /\ job' = Started("types", "planned", Retypes)
      /\ UNCHANGED <<stored, snaps, backup, calendar, syncs>>
  BY DEF StartTypes
<1>2. /\ TablesTyped' /\ JobTypes' /\ NothingNew' /\ ReadyToRemove'
      /\ job'.kind = "types" /\ job'.plans = Retypes
  BY <1>1, StartedTypes DEF RepairInvariant
<1>3. TypesKnown'
  <2>1. \A p \in Retypes : p \in stored /\ TypeAt(p.date) # {}
    BY DEF Retypes, Confirmed
  <2>2. \A d : TypeAt(d)' = TypeAt(d)
    BY <1>1 DEF TypeAt
  <2>. QED  BY <1>1, <1>2, <2>1, <2>2 DEF TypesKnown, RepairInvariant, TablesTyped, Rows, UniqueIds
<1>4. PlansAgree' /\ PlansCurrent'
  BY <1>2 DEF PlansAgree, PlansCurrent, Merging
<1>. QED  BY <1>2, <1>3, <1>4 DEF RepairInvariant

----------------------------------------------------------------------------
(* Reconcile: steps of a script                                            *)

\* Between scripts nothing but the tables matters.
LEMMA IdleKeeps ==
  ASSUME job' = Idle, TablesTyped'
  PROVE  RepairInvariant'
BY DEF RepairInvariant, JobTypes, PlansAgree, Merging, Writing, TypesKnown, PlansCurrent, NothingNew, ReadyToRemove

LEMMA BackupsGrow ==
  ASSUME NEW b, Backups(b), NEW kind \in {"fiscal", "same_date", "labels", "types"}, NEW rs,
         NEW c, c = [b EXCEPT ![kind] = rs]
  PROVE  Backups(c) /\ c[kind] = rs
<1>1. PICK bs : b \in [fiscal : bs, same_date : bs, labels : bs, types : bs]
  BY DEF Backups
<1>2. c \in [fiscal : bs \cup {rs}, same_date : bs \cup {rs}, labels : bs \cup {rs}, types : bs \cup {rs}]
  BY <1>1
<1>3. c[kind] = rs
  BY <1>1
<1>. QED  BY <1>2, <1>3 DEF Backups

LEMMA BeginKeeps ==
  ASSUME RepairInvariant, BeginSameDateMerge
  PROVE  RepairInvariant'
<1>1. /\ job.kind = "same_date" /\ job.pc = "planned" /\ backup' = [backup EXCEPT !.same_date = {}]
      /\ UNCHANGED <<stored, snaps, calendar, syncs>>
  BY DEF BeginSameDateMerge
<1>2. job # Idle
  BY <1>1 DEF Idle
<1>3. TablesTyped'
  BY <1>1, BackupsGrow DEF RepairInvariant, TablesTyped
<1>4. CASE job.plans = {}
  <2>1. job' = Idle
    BY <1>4 DEF BeginSameDateMerge
  <2>. QED  BY <1>3, <2>1, IdleKeeps
<1>5. CASE job.plans # {}
  <2>. DEFINE now == [stored |-> stored, snaps |-> snaps, backup |-> backup]
  <2>1. job' = [job EXCEPT !.pc = "carry", !.before = now]
    BY <1>5 DEF BeginSameDateMerge
  <2>2. PICK ps, ss, bs : job \in [kind : {"fiscal", "same_date", "types"}, pc : {"planned", "carry", "remove"},
                                   plans : ps, planned : Nat, carried : Nat,
                                   before : [stored : SUBSET StoredRow, snaps : ss, backup : bs]]
    BY <1>2 DEF RepairInvariant, JobTypes
  <2>3. now \in [stored : SUBSET StoredRow, snaps : ss \cup {snaps}, backup : bs \cup {backup}]
    BY DEF RepairInvariant, TablesTyped, Rows
  <2>4. /\ now.stored = stored /\ now.snaps = snaps /\ now.backup = backup
    OBVIOUS
  <2>. HIDE DEF now
  <2>5. /\ job' \in [kind : {"fiscal", "same_date", "types"}, pc : {"planned", "carry", "remove"},
                     plans : ps, planned : Nat, carried : Nat,
                     before : [stored : SUBSET StoredRow, snaps : ss \cup {snaps}, backup : bs \cup {backup}]]
        /\ job'.kind = "same_date" /\ job'.pc = "carry" /\ job'.plans = job.plans
        /\ job'.planned = job.planned /\ job'.carried = job.carried /\ job'.before = now
    <3>1. job \in [kind : {"fiscal", "same_date", "types"}, pc : {"planned", "carry", "remove"},
                   plans : ps, planned : Nat, carried : Nat,
                   before : [stored : SUBSET StoredRow, snaps : ss \cup {snaps}, backup : bs \cup {backup}]]
      BY <2>2
    <3>. QED  BY <1>1, <2>1, <2>3, <3>1
  <2>6. JobTypes'
    <3>1. job'.planned <= syncs' /\ job'.carried <= syncs'
      BY <1>1, <1>2, <2>5 DEF JobTypes, RepairInvariant
    <3>2. Rows(job'.before.stored) /\ Snaps(job'.before.snaps) /\ Backups(job'.before.backup)
      BY <2>4, <2>5 DEF RepairInvariant, TablesTyped
    <3>. QED  BY <2>5, <3>1, <3>2 DEF JobTypes
  <2>7. PlansAgree'
    BY <1>1, <1>2, <1>5, <2>5 DEF PlansAgree, Merging, RepairInvariant
  <2>8. PlansCurrent'
    BY <1>1, <1>2, <2>5 DEF PlansCurrent, Pending, RepairInvariant
  <2>9. TypesKnown' /\ NothingNew' /\ ReadyToRemove'
    BY <1>1, <2>4, <2>5 DEF TypesKnown, NothingNew, ReadyToRemove
  <2>. QED  BY <1>3, <2>6, <2>7, <2>8, <2>9 DEF RepairInvariant
<1>. QED  BY <1>4, <1>5

\* A merge that writes has a plan to carry out.
LEMMA PlanAtHand ==
  ASSUME RepairInvariant, job # Idle, job.pc \in {"carry", "remove"}
  PROVE  /\ job.kind \in {"fiscal", "same_date"} /\ Plan \in job.plans
         /\ Plan.dropped \subseteq StoredRow /\ Plan.survivor.id \notin Ids(Plan.dropped)
<1>1. job.kind \in {"fiscal", "same_date"}
  BY DEF RepairInvariant, JobTypes
<1>2. job.plans # {}
  BY <1>1 DEF RepairInvariant, PlansAgree, Merging, Writing
<1>3. Plan \in job.plans
  BY <1>2 DEF Plan, Only
<1>. QED  BY <1>1, <1>3 DEF RepairInvariant, PlansAgree, Merging

\* A row that is filled in stays the row it is.
LEMMA FilledRow ==
  ASSUME NEW r \in StoredRow, NEW plan, plan.dropped \subseteq StoredRow
  PROVE  /\ Filled(r, plan) \in StoredRow /\ Filled(r, plan).id = r.id
         /\ Filled(r, plan).date = r.date /\ Filled(r, plan).type = r.type
<1>. DEFINE given == {d \in plan.dropped : Reported(d)}
<1>1. CASE r.id = plan.survivor.id /\ ~ Reported(plan.survivor) /\ given # {}
  <2>1. Only(given) \in StoredRow
    BY <1>1 DEF Only
  <2>2. Only(given).act \in OldFigures
    BY <2>1, StoredFields
  <2>3. Filled(r, plan) = [r EXCEPT !.act = Only(given).act]
    BY <1>1 DEF Filled
  <2>. QED  BY <2>2, <2>3, FigureSet
<1>2. CASE ~ (r.id = plan.survivor.id /\ ~ Reported(plan.survivor) /\ given # {})
  BY <1>2 DEF Filled
<1>. QED  BY <1>1, <1>2

\* The merge fills in the row that stays, and no other.
LEMMA FilledRows ==
  ASSUME NEW rs, Rows(rs), NEW plan, plan.dropped \subseteq StoredRow,
         NEW qs, qs = {Filled(r, plan) : r \in rs}
  PROVE  /\ Rows(qs) /\ Ids(qs) = Ids(rs)
         /\ \A r \in rs : Filled(r, plan).id = r.id
         /\ \A r \in rs : r.id # plan.survivor.id => Filled(r, plan) = r
<1>. DEFINE f == [r \in rs |-> Filled(r, plan)]
<1>1. \A r \in rs : /\ Filled(r, plan) \in StoredRow /\ Filled(r, plan).id = r.id
                    /\ Filled(r, plan).date = r.date /\ Filled(r, plan).type = r.type
  BY FilledRow DEF Rows
<1>2. \A r \in rs : r.id # plan.survivor.id => Filled(r, plan) = r
  BY DEF Filled
<1>3. /\ f \in [rs -> StoredRow] /\ qs = {f[r] : r \in rs}
      /\ \A r \in rs : f[r].id = r.id
  BY <1>1
<1>. HIDE DEF f
<1>4. Rows(qs) /\ Ids(qs) = Ids(rs)
  BY ONLY Rows(rs), <1>3, RowsChanged
<1>. QED  BY <1>1, <1>2, <1>4

\* What the first half of a merge's group does, if no key is in its way.
LEMMA Carried ==
  ASSUME RepairInvariant, Carry, Legal(stored, Repointed(snaps, Plan.survivor.id, Ids(Plan.dropped)))
  PROVE  /\ job # Idle /\ job.pc = "carry" /\ job' # Idle /\ job'.pc = "remove"
         /\ job'.kind = job.kind /\ job'.plans = job.plans /\ job'.planned = job.planned
         /\ job'.carried = syncs /\ job'.before = job.before /\ Plan' = Plan
         /\ JobTypes' /\ TablesTyped' /\ Ids(stored') = Ids(stored) /\ Ids(snaps') = Ids(snaps)
         /\ \A s \in snaps' : s.of \notin Ids(Plan.dropped) /\ (s.of = Plan.survivor.id \/ s \in snaps)
         /\ \A s \in stored' : \E r \in stored : s.id = r.id /\ s.date = r.date /\ s.type = r.type
         /\ backup'[job.kind] = backup[job.kind] \cup BackedUp(Plan)
         /\ \A s \in stored' : \/ s \in stored
                               \/ job.kind = "same_date" /\ \E r \in stored : s = Filled(r, Plan)
         /\ \A s \in stored' : s.id # Plan.survivor.id => s \in stored
         /\ UNCHANGED <<calendar, syncs>>
<1>. DEFINE survivor == Plan.survivor.id
            dropped == Ids(Plan.dropped)
            moved == Repointed(snaps, survivor, dropped)
<1>1. /\ job # Idle /\ job.pc = "carry" /\ UNCHANGED <<calendar, syncs>>
      /\ backup' = [backup EXCEPT ![job.kind] = @ \cup BackedUp(Plan)]
      /\ stored' = IF job.kind = "same_date" THEN {Filled(r, Plan) : r \in stored} ELSE stored
      /\ snaps' = moved
      /\ job' = [job EXCEPT !.pc = "remove", !.carried = syncs]
  BY DEF Carry
<1>2. /\ job.kind \in {"fiscal", "same_date"} /\ Plan.dropped \subseteq StoredRow
      /\ survivor \notin dropped
  BY <1>1, PlanAtHand
<1>3. PICK ps, ss, bs : job \in [kind : {"fiscal", "same_date", "types"}, pc : {"planned", "carry", "remove"},
                                 plans : ps, planned : Nat, carried : Nat,
                                 before : [stored : SUBSET StoredRow, snaps : ss, backup : bs]]
  BY <1>1 DEF RepairInvariant, JobTypes
<1>4. /\ job' \in [kind : {"fiscal", "same_date", "types"}, pc : {"planned", "carry", "remove"},
                   plans : ps, planned : Nat, carried : Nat,
                   before : [stored : SUBSET StoredRow, snaps : ss, backup : bs]]
      /\ job'.pc = "remove" /\ job'.kind = job.kind /\ job'.plans = job.plans
      /\ job'.planned = job.planned /\ job'.carried = syncs /\ job'.before = job.before
  <2>1. syncs \in Nat
    BY DEF RepairInvariant, TablesTyped
  <2>. DEFINE types == [stored : SUBSET StoredRow, snaps : ss, backup : bs]
  <2>. HIDE DEF types
  <2>. QED  BY <1>1, <1>3, <2>1 DEF types
<1>5. job' # Idle
  BY <1>4 DEF Idle
<1>6. Plan' = Plan
  BY <1>4 DEF Plan
<1>7. JobTypes'
  <2>1. job'.planned <= syncs' /\ job'.carried <= syncs'
    BY <1>1, <1>4 DEF RepairInvariant, JobTypes, TablesTyped
  <2>2. Rows(job'.before.stored) /\ Snaps(job'.before.snaps) /\ Backups(job'.before.backup)
    BY <1>1, <1>4 DEF RepairInvariant, JobTypes
  <2>. QED  BY <1>2, <1>4, <2>1, <2>2 DEF JobTypes
<1>8. /\ Snaps(snaps') /\ Ids(snaps') = Ids(snaps)
      /\ \A s \in snaps' : s.of \notin dropped /\ (s.of = survivor \/ s \in snaps)
  <2>. HIDE DEF survivor, dropped
  <2>1. Snaps(snaps)
    BY DEF RepairInvariant, TablesTyped
  <2>. QED  BY <1>1, <1>2, <2>1, RepointedSnaps
<1>9. Backups(backup') /\ backup'[job.kind] = backup[job.kind] \cup BackedUp(Plan)
  <2>. DEFINE both == backup[job.kind] \cup BackedUp(Plan)
  <2>1. backup' = [backup EXCEPT ![job.kind] = both] /\ Backups(backup)
    BY <1>1 DEF RepairInvariant, TablesTyped
  <2>2. job.kind \in {"fiscal", "same_date", "labels", "types"}
    BY <1>2
  <2>. HIDE DEF both
  <2>3. PICK bts : backup \in [fiscal : bts, same_date : bts, labels : bts, types : bts]
    BY <2>1 DEF Backups
  <2>4. backup' \in [fiscal : bts \cup {both}, same_date : bts \cup {both}, labels : bts \cup {both},
                     types : bts \cup {both}]
    BY <2>1, <2>2, <2>3
  <2>5. backup'[job.kind] = both
    BY <2>1, <2>2, <2>3
  <2>. QED  BY <2>4, <2>5 DEF both, Backups
<1>10. /\ Rows(stored') /\ Ids(stored') = Ids(stored)
       /\ \A s \in stored' : \E r \in stored : s.id = r.id /\ s.date = r.date /\ s.type = r.type
       /\ \A s \in stored' : \/ s \in stored
                             \/ job.kind = "same_date" /\ \E r \in stored : s = Filled(r, Plan)
       /\ \A s \in stored' : s.id # survivor => s \in stored
  <2>1. Rows(stored)
    BY DEF RepairInvariant, TablesTyped
  <2>2. CASE job.kind = "same_date"
    <3>1. stored' = {Filled(r, Plan) : r \in stored}
      BY <1>1, <2>2
    <3>2. /\ Rows(stored') /\ Ids(stored') = Ids(stored)
          /\ \A r \in stored : Filled(r, Plan).id = r.id
          /\ \A r \in stored : r.id # survivor => Filled(r, Plan) = r
      BY <1>2, <2>1, <3>1, FilledRows
    <3>3. \A r \in stored : Filled(r, Plan).date = r.date /\ Filled(r, Plan).type = r.type
      BY <1>2, <2>1, FilledRow DEF Rows
    <3>. QED  BY <2>2, <3>1, <3>2, <3>3
  <2>3. CASE job.kind # "same_date"
    BY <1>1, <2>1, <2>3
  <2>. QED  BY <2>2, <2>3
<1>11. TablesTyped'
  BY <1>1, <1>8, <1>9, <1>10 DEF RepairInvariant, TablesTyped
<1>. QED  BY <1>1, <1>4, <1>5, <1>6, <1>7, <1>8, <1>9, <1>10, <1>11

LEMMA CarryKeeps ==
  ASSUME RepairInvariant, Carry
  PROVE  RepairInvariant'
<1>1. CASE Legal(stored, Repointed(snaps, Plan.survivor.id, Ids(Plan.dropped)))
  <2>1. /\ job # Idle /\ job.pc = "carry" /\ job' # Idle /\ job'.pc = "remove"
        /\ job'.kind = job.kind /\ job'.plans = job.plans /\ job'.planned = job.planned
        /\ job'.carried = syncs /\ job'.before = job.before /\ Plan' = Plan
        /\ JobTypes' /\ TablesTyped' /\ Ids(stored') = Ids(stored) /\ Ids(snaps') = Ids(snaps)
    BY <1>1, Carried
  <2>2. /\ \A s \in snaps' : s.of \notin Ids(Plan.dropped)
        /\ backup'[job.kind] = backup[job.kind] \cup BackedUp(Plan)
        /\ \A s \in stored' : s.id # Plan.survivor.id => s \in stored
        /\ UNCHANGED <<calendar, syncs>>
    BY <1>1, Carried
  <2>3. /\ job.kind \in {"fiscal", "same_date"} /\ Plan \in job.plans
        /\ Plan.survivor.id \notin Ids(Plan.dropped)
    BY <2>1, PlanAtHand
  <2>4. PlansAgree'
    BY <2>1, <2>3 DEF RepairInvariant, PlansAgree, Merging, Writing
  <2>5. TypesKnown'
    BY <2>1, <2>3 DEF TypesKnown
  <2>6. PlansCurrent'
    <3>1. Pending' = job.plans \ {Plan} /\ Pending = job.plans
      BY <2>1 DEF Pending
    <3>. QED  BY <2>1, <2>2, <2>3, <3>1 DEF RepairInvariant, PlansCurrent
  <2>7. NothingNew'
    BY <2>1 DEF RepairInvariant, NothingNew, Writing
  <2>8. ReadyToRemove'
    <3>1. ASSUME NEW r \in stored', r.id \in Ids(Plan.dropped)
          PROVE  \E b \in backup'[job.kind] : b.id = r.id /\ b.act = r.act
      <4>1. r \in stored
        BY <2>2, <2>3, <3>1
      <4>2. r \in BackedUp(Plan)
        BY <3>1, <4>1 DEF BackedUp
      <4>. QED  BY <2>2, <4>2
    <3>. QED  BY <2>1, <2>2, <3>1 DEF ReadyToRemove
  <2>. QED  BY <2>1, <2>4, <2>5, <2>6, <2>7, <2>8 DEF RepairInvariant
<1>2. CASE ~ Legal(stored, Repointed(snaps, Plan.survivor.id, Ids(Plan.dropped)))
  <2>1. /\ job # Idle /\ stored' = job.before.stored /\ snaps' = job.before.snaps
        /\ backup' = job.before.backup /\ job' = Idle /\ UNCHANGED <<calendar, syncs>>
    BY <1>2 DEF Carry
  <2>2. TablesTyped'
    BY <2>1 DEF RepairInvariant, TablesTyped, JobTypes
  <2>. QED  BY <2>1, <2>2, IdleKeeps
<1>. QED  BY <1>1, <1>2

LEMMA RemoveKeeps ==
  ASSUME RepairInvariant, RemoveDropped
  PROVE  RepairInvariant'
<1>. DEFINE gone == {r \in stored : r.id \in Ids(Plan.dropped) /\ (job.kind = "fiscal" => ~ r.is_predicted)}
<1>1. /\ job # Idle /\ job.pc = "remove" /\ UNCHANGED <<backup, calendar, syncs>>
      /\ stored' = stored \ gone /\ snaps' = {s \in snaps : s.of \notin Ids(gone)}
  BY DEF RemoveDropped
<1>2. job.kind \in {"fiscal", "same_date"} /\ Plan \in job.plans
  BY <1>1, PlanAtHand
<1>3. stored' \subseteq stored /\ snaps' \subseteq snaps
  BY <1>1
<1>. HIDE DEF gone
<1>4. TablesTyped' /\ Ids(stored') \subseteq Ids(stored) /\ Ids(snaps') \subseteq Ids(snaps)
  <2>1. Rows(stored') /\ Ids(stored') \subseteq Ids(stored)
    BY <1>3, PartOfRows DEF RepairInvariant, TablesTyped
  <2>2. Snaps(snaps')
    BY <1>3 DEF RepairInvariant, TablesTyped, Snaps
  <2>3. Ids(snaps') \subseteq Ids(snaps)
    BY <1>3 DEF Ids
  <2>. QED  BY <1>1, <2>1, <2>2, <2>3 DEF RepairInvariant, TablesTyped
<1>5. CASE job.plans = {Plan}
  <2>1. job' = Idle
    BY <1>5 DEF RemoveDropped
  <2>. QED  BY <1>4, <2>1, IdleKeeps
<1>6. CASE job.plans # {Plan}
  <2>1. job' = [job EXCEPT !.pc = "carry", !.plans = @ \ {Plan}]
    BY <1>6 DEF RemoveDropped
  <2>2. PICK ps, ss, bs : job \in [kind : {"fiscal", "same_date", "types"}, pc : {"planned", "carry", "remove"},
                                   plans : ps, planned : Nat, carried : Nat,
                                   before : [stored : SUBSET StoredRow, snaps : ss, backup : bs]]
    BY <1>1 DEF RepairInvariant, JobTypes
  <2>3. /\ job' \in [kind : {"fiscal", "same_date", "types"}, pc : {"planned", "carry", "remove"},
                     plans : ps \cup {job.plans \ {Plan}}, planned : Nat, carried : Nat,
                     before : [stored : SUBSET StoredRow, snaps : ss, backup : bs]]
        /\ job'.pc = "carry" /\ job'.kind = job.kind /\ job'.plans = job.plans \ {Plan}
        /\ job'.planned = job.planned /\ job'.carried = job.carried /\ job'.before = job.before
    <3>. DEFINE types == [stored : SUBSET StoredRow, snaps : ss, backup : bs]
    <3>1. job \in [kind : {"fiscal", "same_date", "types"}, pc : {"planned", "carry", "remove"},
                   plans : ps \cup {job.plans \ {Plan}}, planned : Nat, carried : Nat, before : types]
      BY <2>2
    <3>. HIDE DEF types
    <3>2. /\ job' \in [kind : {"fiscal", "same_date", "types"}, pc : {"planned", "carry", "remove"},
                     plans : ps \cup {job.plans \ {Plan}}, planned : Nat, carried : Nat, before : types]
          /\ job'.pc = "carry" /\ job'.kind = job.kind /\ job'.plans = job.plans \ {Plan}
          /\ job'.planned = job.planned /\ job'.carried = job.carried /\ job'.before = job.before
      BY <2>1, <3>1
    <3>. QED  BY <3>2 DEF types
  <2>4. job' # Idle
    BY <2>3 DEF Idle
  <2>5. JobTypes'
    <3>1. job'.planned <= syncs' /\ job'.carried <= syncs'
      BY <1>1, <2>3 DEF RepairInvariant, JobTypes
    <3>2. Rows(job'.before.stored) /\ Snaps(job'.before.snaps) /\ Backups(job'.before.backup)
      BY <1>1, <2>3 DEF RepairInvariant, JobTypes
    <3>. QED  BY <1>2, <2>3, <3>1, <3>2 DEF JobTypes
  <2>6. PlansAgree'
    BY <1>1, <1>2, <1>6, <2>3 DEF RepairInvariant, PlansAgree, Merging
  <2>7. TypesKnown' /\ ReadyToRemove'
    BY <1>2, <2>3 DEF TypesKnown, ReadyToRemove
  <2>8. PlansCurrent'
    <3>1. Pending' = job.plans \ {Plan} /\ Pending = job.plans \ {Plan}
      BY <1>1, <2>3 DEF Pending
    <3>. QED  BY <1>1, <1>3, <2>3, <3>1 DEF RepairInvariant, PlansCurrent
  <2>9. NothingNew'
    BY <1>1, <1>4, <2>3 DEF RepairInvariant, NothingNew, Writing
  <2>. QED  BY <1>4, <2>5, <2>6, <2>7, <2>8, <2>9 DEF RepairInvariant
<1>. QED  BY <1>5, <1>6

LEMMA RelabelKeeps ==
  ASSUME RepairInvariant, Relabel
  PROVE  /\ RepairInvariant' /\ Ids(stored') = Ids(stored) /\ Rows(stored)
         /\ \A s \in stored' : \/ s \in stored \ Winners
                               \/ \E r \in Winners : /\ r \in stored /\ s.id = r.id /\ s.act = r.act
                                                     /\ s.date = r.date /\ s.type = r.type
                                                     /\ s.is_predicted = r.is_predicted
                                                     /\ s.period = Proposed(r)
<1>. DEFINE f == [r \in stored |-> IF r \in Winners THEN [r EXCEPT !.period = Proposed(r)] ELSE r]
<1>1. /\ job = Idle /\ job' = job /\ UNCHANGED <<snaps, calendar, syncs>>
      /\ backup' = [backup EXCEPT !.labels = @ \cup Winners]
      /\ stored' = (stored \ Winners) \cup {[r EXCEPT !.period = Proposed(r)] : r \in Winners}
  BY DEF Relabel, MayStart
<1>2. Rows(stored) /\ calendar \in Answers
  BY DEF RepairInvariant, TablesTyped
<1>3. Winners \subseteq stored
  BY DEF Winners, Eligible, Proposals, Confirmed
<1>4. ASSUME NEW r \in stored
      PROVE  Proposed(r) \in Nat
  <2>. DEFINE other == {e.period : e \in NearestRelease(r)} \ {r.period}
  <2>1. other \subseteq Nat
    BY <1>2, ReconcileAssumption DEF NearestRelease, Releases
  <2>2. r.period \in Nat
    BY <1>2, StoredFields DEF Rows
  <2>3. other # {} => Only(other) \in other
    BY DEF Only
  <2>4. Proposed(r) = IF other # {} THEN Only(other) ELSE IF Bracketed(r) THEN 2 ELSE r.period
    BY DEF Proposed
  <2>. HIDE DEF other
  <2>5. CASE other # {}
    BY <2>1, <2>3, <2>4, <2>5
  <2>6. CASE other = {} /\ Bracketed(r)
    BY <2>4, <2>6
  <2>7. CASE other = {} /\ ~ Bracketed(r)
    BY <2>2, <2>4, <2>7
  <2>. QED  BY <2>5, <2>6, <2>7
<1>5. ASSUME NEW r \in stored
      PROVE  LET w == [r EXCEPT !.period = Proposed(r)] IN
             /\ w \in StoredRow /\ w.id = r.id /\ w.act = r.act /\ w.is_predicted = r.is_predicted
             /\ w.date = r.date /\ w.type = r.type /\ w.period = Proposed(r)
  BY <1>2, <1>4, PeriodSet DEF Rows
<1>6. f \in [stored -> StoredRow] /\ \A r \in stored : f[r].id = r.id
  <2>1. ASSUME NEW r \in stored
        PROVE  f[r] \in StoredRow /\ f[r].id = r.id
    <3>1. CASE r \in Winners
      BY <1>5, <3>1
    <3>2. CASE r \notin Winners
      BY <1>2, <3>2 DEF Rows
    <3>. QED  BY <3>1, <3>2
  <2>. QED  BY <2>1
<1>7. stored' = {f[r] : r \in stored}
  BY <1>1, <1>3
<1>8. Rows(stored') /\ Ids(stored') = Ids(stored)
  <2>. HIDE DEF f
  <2>. QED  BY ONLY <1>2, <1>6, <1>7, RowsChanged
<1>9. \A s \in stored' : \/ s \in stored \ Winners
                         \/ \E r \in Winners : /\ r \in stored /\ s.id = r.id /\ s.act = r.act
                                               /\ s.date = r.date /\ s.type = r.type
                                               /\ s.is_predicted = r.is_predicted
                                               /\ s.period = Proposed(r)
  <2>1. ASSUME NEW s \in stored', s \notin stored \ Winners
        PROVE  \E r \in Winners : s = [r EXCEPT !.period = Proposed(r)]
    BY <1>1, <2>1
  <2>2. ASSUME NEW s \in stored', s \notin stored \ Winners
        PROVE  \E r \in Winners : /\ r \in stored /\ s.id = r.id /\ s.act = r.act
                                  /\ s.date = r.date /\ s.type = r.type
                                  /\ s.is_predicted = r.is_predicted /\ s.period = Proposed(r)
    <3>1. PICK r \in Winners : s = [r EXCEPT !.period = Proposed(r)]
      BY <2>1, <2>2
    <3>2. r \in stored
      BY <1>3
    <3>. QED  BY ONLY <3>1, <3>2, <1>5
  <2>. QED  BY ONLY <2>2
<1>10. Backups(backup')
  BY <1>1, BackupsGrow DEF RepairInvariant, TablesTyped
<1>11. TablesTyped'
  BY <1>1, <1>8, <1>10 DEF RepairInvariant, TablesTyped
<1>. QED  BY <1>1, <1>2, <1>8, <1>9, <1>11, IdleKeeps

LEMMA ApplyKeeps ==
  ASSUME RepairInvariant, ApplyTypes
  PROVE  /\ RepairInvariant' /\ Ids(stored') = Ids(stored) /\ snaps' = snaps
         /\ \A s \in stored' : \E r \in stored : s.id = r.id /\ s.act = r.act
<1>. DEFINE of(r) == r.id \in Ids(job.plans)
            f == [r \in stored |-> IF of(r) THEN [r EXCEPT !.type = Only(TypeAt(r.date))] ELSE r]
            retyped == {IF of(r) THEN [r EXCEPT !.type = Only(TypeAt(r.date))] ELSE r : r \in stored}
<1>1. /\ job.kind = "types" /\ job' = Idle /\ UNCHANGED <<snaps, calendar, syncs>>
      /\ IF Legal(retyped, snaps)
           THEN stored' = retyped /\ backup' = [backup EXCEPT !.types = @ \cup {r \in stored : of(r)}]
           ELSE UNCHANGED <<stored, backup>>
  BY DEF ApplyTypes
<1>2. Rows(stored) /\ Backups(backup) /\ calendar \in Answers
  BY DEF RepairInvariant, TablesTyped
<1>3. job # Idle
  BY <1>1 DEF Idle
<1>4. ASSUME NEW r \in stored, of(r)
      PROVE  Only(TypeAt(r.date)) \in ReportTypes
  <2>1. PICK p \in job.plans : p.id = r.id
    BY <1>4 DEF Ids
  <2>2. TypeAt(r.date) # {}
    BY <1>1, <1>3, <2>1 DEF RepairInvariant, TypesKnown
  <2>3. TypeAt(r.date) \subseteq ReportTypes
    <3>1. calendar \subseteq [date : Int, type : ReportTypes, period : Nat]
      BY <1>2, ReconcileAssumption
    <3>. QED  BY <3>1 DEF TypeAt, ReportTypes
  <2>. QED  BY <2>2, <2>3 DEF Only
<1>5. ASSUME NEW r \in stored
      PROVE  f[r] \in StoredRow /\ f[r].id = r.id /\ f[r].act = r.act
  <2>1. r \in StoredRow
    BY <1>2 DEF Rows
  <2>2. CASE of(r)
    BY <1>4, <2>1, <2>2, TypeSet
  <2>3. CASE ~ of(r)
    BY <2>1, <2>3
  <2>. QED  BY <2>2, <2>3
<1>6. f \in [stored -> StoredRow] /\ retyped = {f[r] : r \in stored} /\ \A r \in stored : f[r].id = r.id
  BY <1>5
<1>7. Rows(retyped) /\ Ids(retyped) = Ids(stored)
      /\ \A s \in retyped : \E r \in stored : s.id = r.id /\ s.act = r.act
  <2>1. \A s \in retyped : \E r \in stored : s.id = r.id /\ s.act = r.act
    BY <1>5, <1>6
  <2>. HIDE DEF f, retyped
  <2>2. Rows(retyped) /\ Ids(retyped) = Ids(stored)
    BY ONLY <1>2, <1>6, RowsChanged
  <2>. QED  BY <2>1, <2>2
<1>8. /\ Rows(stored') /\ Ids(stored') = Ids(stored) /\ Backups(backup')
      /\ \A s \in stored' : \E r \in stored : s.id = r.id /\ s.act = r.act
  <2>. HIDE DEF retyped, f
  <2>1. CASE Legal(retyped, snaps)
    <3>1. Backups(backup')
      BY <1>1, <1>2, <2>1, BackupsGrow
    <3>. QED  BY <1>1, <1>7, <2>1, <3>1
  <2>2. CASE ~ Legal(retyped, snaps)
    BY <1>1, <1>2, <2>2
  <2>. QED  BY <2>1, <2>2
<1>9. TablesTyped'
  BY <1>1, <1>8 DEF RepairInvariant, TablesTyped
<1>. QED  BY <1>1, <1>8, <1>9, IdleKeeps

----------------------------------------------------------------------------
(* Reconcile: the specification                                            *)

LEMMA SyncKeeps ==
  ASSUME RepairInvariant, NEW r \in stored, SyncWrites(r)
  PROVE  RepairInvariant'
<1>. DEFINE figure(rs) == {IF s.id = r.id THEN [s EXCEPT !.act = "new"] ELSE s : s \in rs}
            snap == [id |-> 100 + syncs, of |-> r.id, at |-> (syncs + 2) * Instant]
<1>1. /\ stored' = figure(stored) /\ snaps' = snaps \cup {snap} /\ syncs' = syncs + 1
      /\ UNCHANGED <<backup, calendar>>
      /\ job' = IF job = Idle THEN job
                ELSE [job EXCEPT !.before.stored = figure(@), !.before.snaps = @ \cup {snap}]
  BY DEF SyncWrites
<1>2. syncs \in Nat /\ Rows(stored) /\ Snaps(snaps)
  BY DEF RepairInvariant, TablesTyped
<1>3. \A ss : Snaps(ss) => Snaps(ss \cup {snap}) /\ Ids(ss \cup {snap}) = Ids(ss) \cup {snap.id}
  <2>1. ASSUME NEW ss, Snaps(ss) PROVE Snaps(ss \cup {snap})
    <3>1. PICK os, ats : ss \subseteq [id : Nat, of : os, at : ats]
      BY <2>1 DEF Snaps
    <3>. DEFINE rows == os \cup {r.id}
                instants == ats \cup {(syncs + 2) * Instant}
    <3>2. ss \cup {snap} \subseteq [id : Nat, of : rows, at : instants]
      BY <1>2, <3>1
    <3>. HIDE DEF rows, instants, snap
    <3>. QED  BY <3>2 DEF Snaps
  <2>2. ASSUME NEW ss PROVE Ids(ss \cup {snap}) = Ids(ss) \cup {snap.id}
    <3>. HIDE DEF snap
    <3>. QED  BY DEF Ids
  <2>. QED  BY <2>1, <2>2
<1>4. \A rs : Rows(rs) => /\ Rows(figure(rs)) /\ Ids(figure(rs)) = Ids(rs)
                          /\ \A q \in figure(rs) : \E s \in rs : q.id = s.id /\ q.date = s.date
  <2>1. ASSUME NEW rs, Rows(rs)
        PROVE  /\ Rows(figure(rs)) /\ Ids(figure(rs)) = Ids(rs)
               /\ \A q \in figure(rs) : \E s \in rs : q.id = s.id /\ q.date = s.date
    <3>1. figure(rs) = Figured(rs, r.id)
      BY DEF Figured
    <3>. HIDE DEF figure
    <3>. QED  BY ONLY <2>1, <3>1, RowsFigured
  <2>. QED  BY <2>1
<1>5. snap.id = 100 + syncs
  OBVIOUS
<1>. HIDE DEF figure, snap
<1>6. TablesTyped'
  <2>1. Rows(stored')
    BY <1>1, <1>2, <1>4
  <2>2. Snaps(snaps')
    BY <1>1, <1>2, <1>3
  <2>3. syncs' \in Nat
    BY <1>1, <1>2
  <2>. QED  BY <1>1, <2>1, <2>2, <2>3 DEF RepairInvariant, TablesTyped
<1>7. CASE job = Idle
  BY <1>1, <1>6, <1>7, IdleKeeps
<1>8. CASE job # Idle
  <2>1. job' = [job EXCEPT !.before.stored = figure(@), !.before.snaps = @ \cup {snap}]
    BY <1>1, <1>8
  <2>2. PICK ps, ss, bs : job \in [kind : {"fiscal", "same_date", "types"}, pc : {"planned", "carry", "remove"},
                                   plans : ps, planned : Nat, carried : Nat,
                                   before : [stored : SUBSET StoredRow, snaps : ss, backup : bs]]
    BY <1>8 DEF RepairInvariant, JobTypes
  <2>. DEFINE now == [job.before EXCEPT !.stored = figure(@), !.snaps = @ \cup {snap}]
  <2>3. Rows(job.before.stored) /\ Snaps(job.before.snaps) /\ Backups(job.before.backup)
    BY <1>8 DEF RepairInvariant, JobTypes
  <2>4. /\ now \in [stored : SUBSET StoredRow, snaps : ss \cup {job.before.snaps \cup {snap}}, backup : bs]
        /\ now.stored = figure(job.before.stored) /\ now.snaps = job.before.snaps \cup {snap}
        /\ now.backup = job.before.backup
    <3>1. figure(job.before.stored) \in SUBSET StoredRow
      BY <1>4, <2>3 DEF Rows
    <3>2. job.before \in [stored : SUBSET StoredRow, snaps : ss \cup {job.before.snaps \cup {snap}}, backup : bs]
      BY <2>2
    <3>. QED  BY <3>1, <3>2
  <2>5. job' = [job EXCEPT !.before = now]
    <3>1. job.before \in [stored : SUBSET StoredRow, snaps : ss, backup : bs]
      BY <2>2
    <3>. QED  BY <2>1, <2>2, <3>1
  <2>. HIDE DEF now
  <2>6. /\ job' \in [kind : {"fiscal", "same_date", "types"}, pc : {"planned", "carry", "remove"},
                     plans : ps, planned : Nat, carried : Nat,
                     before : [stored : SUBSET StoredRow, snaps : ss \cup {job.before.snaps \cup {snap}},
                               backup : bs]]
        /\ job'.pc = job.pc /\ job'.kind = job.kind /\ job'.plans = job.plans
        /\ job'.planned = job.planned /\ job'.carried = job.carried /\ job'.before = now
    <3>. DEFINE types == [stored : SUBSET StoredRow, snaps : ss \cup {job.before.snaps \cup {snap}},
                          backup : bs]
    <3>1. job \in [kind : {"fiscal", "same_date", "types"}, pc : {"planned", "carry", "remove"},
                   plans : ps, planned : Nat, carried : Nat, before : types]
      BY <2>2
    <3>2. now \in types
      BY <2>4
    <3>. HIDE DEF types
    <3>3. /\ job' \in [kind : {"fiscal", "same_date", "types"}, pc : {"planned", "carry", "remove"},
                       plans : ps, planned : Nat, carried : Nat, before : types]
          /\ job'.pc = job.pc /\ job'.kind = job.kind /\ job'.plans = job.plans
          /\ job'.planned = job.planned /\ job'.carried = job.carried /\ job'.before = now
      BY <2>5, <3>1, <3>2
    <3>. QED  BY <3>3 DEF types
  <2>7. job' # Idle /\ Plan' = Plan /\ Pending' = Pending
    <3>1. job'.kind # "none"
      BY <2>6
    <3>. QED  BY <2>6, <3>1 DEF Idle, Plan, Pending
  <2>8. JobTypes'
    <3>1. job'.planned <= syncs' /\ job'.carried <= syncs'
      BY <1>1, <1>2, <1>8, <2>6 DEF RepairInvariant, JobTypes
    <3>2. Rows(job'.before.stored) /\ Snaps(job'.before.snaps) /\ Backups(job'.before.backup)
      BY <1>3, <1>4, <2>3, <2>4, <2>6
    <3>3. (job'.kind = "types" => job'.pc = "planned") /\ (job'.kind = "fiscal" => job'.pc # "planned")
      BY <1>8, <2>6 DEF RepairInvariant, JobTypes
    <3>. QED  BY <2>6, <3>1, <3>2, <3>3 DEF JobTypes
  <2>9. PlansAgree'
    BY <1>8, <2>6, <2>7 DEF RepairInvariant, PlansAgree, Merging, Writing
  <2>10. TypesKnown'
    <3>1. \A d : TypeAt(d)' = TypeAt(d)
      BY <1>1 DEF TypeAt
    <3>2. \A q \in stored' : \E s \in stored : q.id = s.id /\ q.date = s.date
      BY <1>1, <1>2, <1>4
    <3>. QED  BY <1>8, <2>6, <2>7, <3>1, <3>2 DEF RepairInvariant, TypesKnown
  <2>11. PlansCurrent'
    <3>1. job.planned \in Nat /\ job.planned <= syncs
      BY <1>8 DEF RepairInvariant, JobTypes
    <3>2. syncs' > job'.planned
      BY <1>1, <1>2, <2>6, <3>1
    <3>. QED  BY <1>8, <2>6, <2>7, <3>2 DEF RepairInvariant, PlansCurrent
  <2>12. NothingNew'
    <3>1. /\ Ids(stored') = Ids(stored) /\ Ids(job'.before.stored) = Ids(job.before.stored)
      BY <1>1, <1>2, <1>4, <2>3, <2>4, <2>6
    <3>2. /\ Ids(snaps') = Ids(snaps) \cup {snap.id}
          /\ Ids(job'.before.snaps) = Ids(job.before.snaps) \cup {snap.id}
      BY <1>1, <1>2, <1>3, <2>3, <2>4, <2>6
    <3>. QED  BY <1>8, <2>6, <3>1, <3>2 DEF RepairInvariant, NothingNew, Writing
  <2>13. ReadyToRemove'
    <3>. SUFFICES ASSUME job.pc = "remove" PROVE ReadyToRemove'
      BY <2>6 DEF ReadyToRemove
    <3>1. job.carried \in Nat /\ job.carried <= syncs
      BY <1>8 DEF RepairInvariant, JobTypes
    <3>2. snap.id >= 100 + job'.carried /\ syncs' > job'.carried
      BY <1>1, <1>2, <1>5, <2>6, <3>1
    <3>3. \A s \in snaps' : s.of \in Ids(Plan.dropped) => s.id >= 100 + job'.carried
      BY <1>1, <1>8, <2>6, <3>2 DEF RepairInvariant, ReadyToRemove
    <3>4. \A q \in stored' : q.id \in Ids(Plan.dropped) => \E b \in backup'[job'.kind] : b.id = q.id
      <4>1. \A q \in stored' : \E s \in stored : q.id = s.id
        BY <1>1, <1>2, <1>4
      <4>. QED  BY <1>1, <1>8, <2>6, <4>1 DEF RepairInvariant, ReadyToRemove
    <3>. QED  BY <2>7, <3>2, <3>3, <3>4 DEF ReadyToRemove
  <2>. QED  BY <1>6, <2>8, <2>9, <2>10, <2>11, <2>12, <2>13 DEF RepairInvariant
<1>. QED  BY <1>7, <1>8

LEMMA ReconcileStart ==
  ASSUME ReconcileInit
  PROVE  RepairInvariant
<1>1. Rows(stored) /\ calendar \in Answers /\ job = Idle /\ syncs = 0
  BY ReconcileAssumption DEF ReconcileInit, Rows, UniqueIds
<1>2. Ids(stored) \subseteq Nat
  BY <1>1, StoredFields DEF Rows, Ids
<1>3. PICK of \in SUBSET Ids(stored) : snaps = {[id |-> i, of |-> i, at |-> Instant] : i \in of}
  BY DEF ReconcileInit
<1>4. snaps \subseteq [id : Nat, of : Nat, at : {Instant}]
  BY <1>2, <1>3
<1>5. backup \in [fiscal : {{}}, same_date : {{}}, labels : {{}}, types : {{}}]
  BY DEF ReconcileInit
<1>6. TablesTyped
  BY <1>1, <1>4, <1>5 DEF TablesTyped, Snaps, Backups
<1>. QED  BY <1>1, <1>6
     DEF RepairInvariant, JobTypes, PlansAgree, Merging, Writing, TypesKnown, PlansCurrent, NothingNew,
         ReadyToRemove

LEMMA ReconcileStep ==
  ASSUME RepairInvariant, [ReconcileNext]_reconcileVars
  PROVE  RepairInvariant'
<1>1. CASE StartFiscalMerge
  BY <1>1, StartFiscalKeeps
<1>2. CASE StartSameDateMerge
  BY <1>2, StartSameDateKeeps
<1>3. CASE BeginSameDateMerge
  BY <1>3, BeginKeeps
<1>4. CASE Carry
  BY <1>4, CarryKeeps
<1>5. CASE RemoveDropped
  BY <1>5, RemoveKeeps
<1>6. CASE Relabel
  BY <1>6, RelabelKeeps
<1>7. CASE StartTypes
  BY <1>7, StartTypesKeeps
<1>8. CASE ApplyTypes
  BY <1>8, ApplyKeeps
<1>9. CASE \E r \in stored : SyncWrites(r)
  BY <1>9, SyncKeeps
<1>10. CASE UNCHANGED reconcileVars
  BY <1>10 DEF reconcileVars, RepairInvariant, TablesTyped, JobTypes, PlansAgree, Merging, Writing, TypesKnown,
               TypeAt, PlansCurrent, Pending, Plan, NothingNew, ReadyToRemove
<1>. QED  BY <1>1, <1>2, <1>3, <1>4, <1>5, <1>6, <1>7, <1>8, <1>9, <1>10 DEF ReconcileNext

\* What a script has planned and carried out agrees with the tables, whatever a sync wrote meanwhile.
THEOREM RepairInvariance == ReconcileSpec => []RepairInvariant
<1>. QED  BY ReconcileStart, ReconcileStep, PTL DEF ReconcileSpec

----------------------------------------------------------------------------
(* Reconcile: the keys of the rows, and the snapshots' rows                *)

Owned(ss, rs) == \A s \in ss : s.of \in Ids(rs)

\* The row a merge keeps is there, and no plan of the merge removes it.
SurvivorsStay ==
  Merging =>
    \A p \in job.plans : /\ p.survivor.id \in Ids(stored)
                         /\ \A q \in job.plans : p.survivor.id \notin Ids(q.dropped)

TablesWhole ==
  /\ Legal(stored, snaps) /\ Owned(snaps, stored) /\ SurvivorsStay
  /\ Writing => /\ Legal(job.before.stored, job.before.snaps)
                /\ Owned(job.before.snaps, job.before.stored)

RepairCounters == jobs \in 0 .. MaxJobs /\ syncs \in 0 .. MaxSyncs

\* Rows that keep id, date and type keep the key.
LEMMA KeysStay ==
  ASSUME NEW rs, KeysHold(rs), NEW qs, Rows(qs),
         \A q \in qs : \E r \in rs : q.id = r.id /\ q.date = r.date /\ q.type = r.type
  PROVE  KeysHold(qs)
<1>. SUFFICES ASSUME NEW p \in qs, NEW q \in qs, p.date = q.date, p.type = q.type
              PROVE  p = q
  BY DEF KeysHold
<1>1. PICK r \in rs : p.id = r.id /\ p.date = r.date /\ p.type = r.type
  OBVIOUS
<1>2. PICK s \in rs : q.id = s.id /\ q.date = s.date /\ q.type = s.type
  OBVIOUS
<1>3. r = s
  <2>1. r.date = s.date /\ r.type = s.type
    BY <1>1, <1>2
  <2>. QED  BY ONLY <2>1, KeysHold(rs), r \in rs, s \in rs DEF KeysHold
<1>. QED  BY <1>1, <1>2, <1>3 DEF Rows, UniqueIds

\* A script that starts has a copy of whole tables to go back to.
LEMMA StartedWhole ==
  ASSUME TablesWhole, NEW kind, NEW pc, NEW plans, job' = Started(kind, pc, plans),
         UNCHANGED <<stored, snaps>>, kind # "types" => SurvivorsStay'
  PROVE  TablesWhole'
<1>1. /\ job'.kind = kind
      /\ job'.before.stored = stored /\ job'.before.snaps = snaps
  BY DEF Started
<1>2. SurvivorsStay'
  BY <1>1 DEF SurvivorsStay, Merging
<1>. QED  BY <1>1, <1>2 DEF TablesWhole

\* The plan of one period.
Group(k) == {r \in Confirmed(stored) : r.period = k}
ShownRow(k) == Only(Leading(Group(k)))
PlanOf(k) == [survivor |-> ShownRow(k), dropped |-> Group(k) \ {ShownRow(k)}]

\* The row shown of one period is dropped for no other: the groups have nothing in common.
LEMMA StartFiscalWhole ==
  ASSUME RepairInvariant, TablesWhole, StartFiscalMerge
  PROVE  TablesWhole'
<1>1. job' = Started("fiscal", "carry", FiscalPlans) /\ UNCHANGED <<stored, snaps>>
  BY DEF StartFiscalMerge
<1>2. Rows(stored)
  BY DEF RepairInvariant, TablesTyped
<1>3. \A p \in FiscalPlans : \E k \in PeriodsOf(Confirmed(stored)) : p = PlanOf(k)
  BY DEF FiscalPlans, PlanOf, ShownRow, Group
<1>4. ASSUME NEW k \in PeriodsOf(Confirmed(stored))
      PROVE  ShownRow(k) \in stored /\ ShownRow(k).period = k
  <2>1. Group(k) # {} /\ Group(k) \subseteq {r \in stored : r.period = k}
    BY DEF Group, Confirmed, PeriodsOf
  <2>2. Rows(Group(k))
    BY <1>2, <2>1, PartOfRows
  <2>3. Leading(Group(k)) # {} /\ Leading(Group(k)) \subseteq Group(k)
    BY <2>1, <2>2, SomeRowLeads DEF Rows, Leading
  <2>4. ShownRow(k) \in Group(k)
    BY <2>3 DEF Only, ShownRow
  <2>. QED  BY <2>1, <2>4
<1>5. ASSUME NEW p \in FiscalPlans, NEW q \in FiscalPlans
      PROVE  p.survivor.id \in Ids(stored) /\ p.survivor.id \notin Ids(q.dropped)
  <2>1. PICK k \in PeriodsOf(Confirmed(stored)) : p = PlanOf(k)
    BY <1>3
  <2>2. PICK l \in PeriodsOf(Confirmed(stored)) : q = PlanOf(l)
    BY <1>3
  <2>3. p.survivor = ShownRow(k) /\ q.dropped = Group(l) \ {ShownRow(l)}
    BY <2>1, <2>2 DEF PlanOf
  <2>4. ShownRow(k) \in stored /\ ShownRow(k).period = k
    BY <1>4
  <2>5. \A r \in q.dropped : r \in stored /\ r # ShownRow(k)
    <3>1. \A r \in q.dropped : r \in stored /\ r.period = l /\ r # ShownRow(l)
      BY <2>3 DEF Group, Confirmed
    <3>2. k = l \/ k # l
      OBVIOUS
    <3>. QED  BY <2>4, <3>1, <3>2
  <2>. QED  BY <1>2, <2>3, <2>4, <2>5 DEF Rows, UniqueIds, Ids
<1>6. SurvivorsStay'
  <2>1. job'.plans = FiscalPlans
    BY <1>1 DEF Started
  <2>. QED  BY <1>1, <1>5, <2>1 DEF SurvivorsStay
<1>. QED  BY <1>1, <1>6, StartedWhole

\* A disclosure is never what a date keeps.
LEMMA StartSameDateWhole ==
  ASSUME RepairInvariant, TablesWhole, StartSameDateMerge
  PROVE  TablesWhole'
<1>1. job' = Started("same_date", "planned", SameDatePlans) /\ UNCHANGED <<stored, snaps>>
  BY DEF StartSameDateMerge
<1>2. Rows(stored)
  BY DEF RepairInvariant, TablesTyped
<1>3. ASSUME NEW p \in SameDatePlans
      PROVE  /\ p.survivor \in stored /\ ~ Disclosing(p.survivor)
             /\ \A r \in p.dropped : r \in stored /\ Disclosing(r)
  <2>1. PICK d : /\ p.survivor \in stored /\ ~ Disclosing(p.survivor)
                 /\ p.dropped = {r \in stored : r.date = d /\ Disclosing(r)}
    BY <1>2, SameDatePlan
  <2>. QED  BY <2>1
<1>4. ASSUME NEW p \in SameDatePlans, NEW q \in SameDatePlans
      PROVE  p.survivor.id \in Ids(stored) /\ p.survivor.id \notin Ids(q.dropped)
  BY <1>2, <1>3 DEF Rows, UniqueIds, Ids
<1>5. SurvivorsStay'
  <2>1. job'.plans = SameDatePlans
    BY <1>1 DEF Started
  <2>. QED  BY <1>1, <1>4, <2>1 DEF SurvivorsStay
<1>. QED  BY <1>1, <1>5, StartedWhole

LEMMA BeginWhole ==
  ASSUME RepairInvariant, TablesWhole, BeginSameDateMerge
  PROVE  TablesWhole'
<1>1. job.kind = "same_date" /\ job # Idle /\ UNCHANGED <<stored, snaps>>
  BY DEF BeginSameDateMerge, Idle
<1>2. CASE job.plans = {}
  <2>1. job' = Idle
    BY <1>2 DEF BeginSameDateMerge
  <2>. QED  BY <1>1, <2>1 DEF TablesWhole, SurvivorsStay, Merging, Writing
<1>3. CASE job.plans # {}
  <2>1. job' = [job EXCEPT !.pc = "carry", !.before = [stored |-> stored, snaps |-> snaps, backup |-> backup]]
    BY <1>3 DEF BeginSameDateMerge
  <2>2. PICK ps, ss, bs : job \in [kind : {"fiscal", "same_date", "types"}, pc : {"planned", "carry", "remove"},
                                   plans : ps, planned : Nat, carried : Nat,
                                   before : [stored : SUBSET StoredRow, snaps : ss, backup : bs]]
    BY <1>1 DEF RepairInvariant, JobTypes
  <2>3. /\ job'.plans = job.plans /\ job'.before.stored = stored /\ job'.before.snaps = snaps
    BY <2>1, <2>2
  <2>. QED  BY <1>1, <2>3 DEF TablesWhole, SurvivorsStay, Merging
<1>. QED  BY <1>2, <1>3

\* Snapshots move to a row that is there; a group that is undone leaves the tables as they were.
LEMMA CarryWhole ==
  ASSUME RepairInvariant, TablesWhole, Carry
  PROVE  TablesWhole'
<1>1. job # Idle /\ job.pc = "carry"
  BY DEF Carry
<1>2. Plan \in job.plans /\ job.kind \in {"fiscal", "same_date"}
  BY <1>1, PlanAtHand
<1>3. CASE Legal(stored, Repointed(snaps, Plan.survivor.id, Ids(Plan.dropped)))
  <2>1. /\ job'.plans = job.plans /\ job'.before = job.before /\ Ids(stored') = Ids(stored)
        /\ \A s \in snaps' : s.of = Plan.survivor.id \/ s \in snaps
        /\ \A s \in stored' : \E r \in stored : s.id = r.id /\ s.date = r.date /\ s.type = r.type
        /\ TablesTyped'
    BY <1>3, Carried
  <2>2. KeysHold(stored')
    <3>1. Rows(stored') /\ KeysHold(stored)
      BY <2>1 DEF TablesTyped, TablesWhole, Legal
    <3>. QED  BY <2>1, <3>1, KeysStay
  <2>3. SurvivorsStay'
    BY <1>1, <1>2, <2>1 DEF TablesWhole, SurvivorsStay, Merging
  <2>4. Owned(snaps', stored')
    BY <1>1, <1>2, <2>1 DEF TablesWhole, SurvivorsStay, Merging, Owned
  <2>5. SnapshotsHold(snaps')
    BY <1>3 DEF Carry, Legal
  <2>. QED  BY <1>1, <2>1, <2>2, <2>3, <2>4, <2>5 DEF TablesWhole, Writing, Legal
<1>4. CASE ~ Legal(stored, Repointed(snaps, Plan.survivor.id, Ids(Plan.dropped)))
  <2>1. stored' = job.before.stored /\ snaps' = job.before.snaps /\ job' = Idle
    BY <1>4 DEF Carry
  <2>. QED  BY <1>1, <2>1 DEF TablesWhole, SurvivorsStay, Merging, Writing
<1>. QED  BY <1>3, <1>4

\* The snapshots of a row go with it, and no row goes that another plan keeps.
LEMMA RemoveWhole ==
  ASSUME RepairInvariant, TablesWhole, RemoveDropped
  PROVE  TablesWhole'
<1>. DEFINE gone == {r \in stored : r.id \in Ids(Plan.dropped) /\ (job.kind = "fiscal" => ~ r.is_predicted)}
<1>1. /\ job # Idle /\ job.pc = "remove"
      /\ stored' = stored \ gone /\ snaps' = {s \in snaps : s.of \notin Ids(gone)}
  BY DEF RemoveDropped
<1>2. Plan \in job.plans /\ job.kind \in {"fiscal", "same_date"}
  BY <1>1, PlanAtHand
<1>3. Ids(gone) \subseteq Ids(Plan.dropped)
  BY DEF Ids
<1>. HIDE DEF gone
<1>4. Ids(stored) \ Ids(gone) \subseteq Ids(stored')
  BY <1>1 DEF Ids
<1>5. Legal(stored', snaps') /\ Owned(snaps', stored')
  BY <1>1, <1>4 DEF TablesWhole, Legal, KeysHold, SnapshotsHold, Owned
<1>6. CASE job.plans = {Plan}
  <2>1. job' = Idle
    BY <1>6 DEF RemoveDropped
  <2>. QED  BY <1>5, <2>1 DEF TablesWhole, SurvivorsStay, Merging, Writing
<1>7. CASE job.plans # {Plan}
  <2>1. job' = [job EXCEPT !.pc = "carry", !.plans = @ \ {Plan}]
    BY <1>7 DEF RemoveDropped
  <2>2. PICK ps, ss, bs : job \in [kind : {"fiscal", "same_date", "types"}, pc : {"planned", "carry", "remove"},
                                   plans : ps, planned : Nat, carried : Nat,
                                   before : [stored : SUBSET StoredRow, snaps : ss, backup : bs]]
    BY <1>1 DEF RepairInvariant, JobTypes
  <2>3. job'.plans = job.plans \ {Plan} /\ job'.before = job.before
    BY <2>1, <2>2
  <2>4. SurvivorsStay'
    BY <1>1, <1>2, <1>3, <1>4, <2>3 DEF TablesWhole, SurvivorsStay, Merging
  <2>. QED  BY <1>1, <1>5, <2>3, <2>4 DEF TablesWhole, Writing
<1>. QED  BY <1>6, <1>7

LEMMA RelabelWhole ==
  ASSUME RepairInvariant, TablesWhole, Relabel
  PROVE  TablesWhole'
<1>1. job = Idle /\ job' = job /\ snaps' = snaps
  BY DEF Relabel, MayStart
<1>2. /\ RepairInvariant' /\ Ids(stored') = Ids(stored)
      /\ \A s \in stored' : \/ s \in stored \ Winners
                            \/ \E r \in Winners : /\ r \in stored /\ s.id = r.id /\ s.act = r.act
                                                  /\ s.date = r.date /\ s.type = r.type
                                                  /\ s.is_predicted = r.is_predicted
                                                  /\ s.period = Proposed(r)
  BY RelabelKeeps
<1>3. KeysHold(stored')
  <2>1. \A s \in stored' : \E r \in stored : s.id = r.id /\ s.date = r.date /\ s.type = r.type
    BY <1>2
  <2>2. Rows(stored') /\ KeysHold(stored)
    BY <1>2 DEF RepairInvariant, TablesTyped, TablesWhole, Legal
  <2>. QED  BY ONLY <2>1, <2>2, KeysStay
<1>. QED  BY <1>1, <1>2, <1>3 DEF TablesWhole, Legal, Owned, SurvivorsStay, Merging, Writing

LEMMA TypesWhole ==
  ASSUME RepairInvariant, TablesWhole, StartTypes \/ ApplyTypes
  PROVE  TablesWhole'
<1>1. CASE StartTypes
  <2>1. job' = Started("types", "planned", Retypes) /\ UNCHANGED <<stored, snaps>>
    BY <1>1 DEF StartTypes
  <2>. QED  BY <2>1, StartedWhole
<1>2. CASE ApplyTypes
  <2>1. job' = Idle /\ Ids(stored') = Ids(stored) /\ snaps' = snaps
    BY <1>2, ApplyKeeps DEF ApplyTypes
  <2>2. Legal(stored', snaps)
    BY <1>2 DEF ApplyTypes, TablesWhole
  <2>. QED  BY <2>1, <2>2 DEF TablesWhole, Owned, SurvivorsStay, Merging, Writing
<1>. QED  BY <1>1, <1>2

\* A sync's snapshot is of a row that is there, also once the script is undone.
LEMMA SyncWhole ==
  ASSUME RepairInvariant, TablesWhole, NEW r \in stored, SyncWrites(r)
  PROVE  TablesWhole'
<1>. DEFINE snap == [id |-> 100 + syncs, of |-> r.id, at |-> (syncs + 2) * Instant]
<1>1. /\ stored' = Figured(stored, r.id) /\ snaps' = snaps \cup {snap} /\ snap.of = r.id
      /\ job # Idle => r \in job.before.stored \/ job.pc = "planned"
      /\ job' = IF job = Idle THEN job
                ELSE [job EXCEPT !.before.stored = Figured(@, r.id), !.before.snaps = @ \cup {snap}]
      /\ Past(snap.at)
  BY DEF SyncWrites, Figured
<1>2. snap.at \in Int
  BY DEF RepairInvariant, TablesTyped, Instant
<1>. HIDE DEF snap
<1>3. ASSUME NEW ss, SnapshotsHold(ss), \A s \in ss : s.at < snap.at
      PROVE  SnapshotsHold(ss \cup {snap})
  <2>1. \A s \in ss : s.at # snap.at
    BY <1>2, <1>3
  <2>. QED  BY <1>3, <2>1 DEF SnapshotsHold
<1>4. /\ Rows(stored') /\ Ids(stored') = Ids(stored)
      /\ \A q \in stored' : \E s \in stored : q.id = s.id /\ q.date = s.date /\ q.type = s.type
  <2>1. Rows(stored)
    BY DEF RepairInvariant, TablesTyped
  <2>. QED  BY ONLY <1>1, <2>1, RowsFigured
<1>5. KeysHold(stored')
  <2>1. KeysHold(stored)
    BY DEF TablesWhole, Legal
  <2>. QED  BY ONLY <1>4, <2>1, KeysStay
<1>6. SnapshotsHold(snaps')
  BY <1>1, <1>3 DEF TablesWhole, Legal, Past
<1>7. Owned(snaps', stored')
  BY <1>1, <1>4 DEF TablesWhole, Owned, Ids
<1>8. CASE job = Idle
  BY <1>1, <1>5, <1>7, <1>8, <1>6 DEF TablesWhole, Legal, SurvivorsStay, Merging, Writing
<1>9. CASE job # Idle
  <2>1. PICK ps, ss, bs : job \in [kind : {"fiscal", "same_date", "types"}, pc : {"planned", "carry", "remove"},
                                   plans : ps, planned : Nat, carried : Nat,
                                   before : [stored : SUBSET StoredRow, snaps : ss, backup : bs]]
    BY <1>9 DEF RepairInvariant, JobTypes
  <2>2. /\ job'.plans = job.plans /\ job'.kind = job.kind /\ job'.pc = job.pc
        /\ job'.before.stored = Figured(job.before.stored, r.id)
        /\ job'.before.snaps = job.before.snaps \cup {snap}
    BY <1>1, <1>9, <2>1
  <2>3. SurvivorsStay'
    BY <1>4, <1>9, <2>2 DEF TablesWhole, SurvivorsStay, Merging
  <2>4. ASSUME Writing'
        PROVE  Legal(job'.before.stored, job'.before.snaps) /\ Owned(job'.before.snaps, job'.before.stored)
    <3>1. /\ KeysHold(job.before.stored) /\ Owned(job.before.snaps, job.before.stored)
          /\ SnapshotsHold(job.before.snaps) /\ r \in job.before.stored
      BY <1>1, <1>9, <2>2, <2>4 DEF TablesWhole, Writing, Legal
    <3>2. Rows(job.before.stored)
      BY <1>9 DEF RepairInvariant, JobTypes
    <3>3. /\ Rows(job'.before.stored) /\ Ids(job'.before.stored) = Ids(job.before.stored)
          /\ \A q \in job'.before.stored :
               \E s \in job.before.stored : q.id = s.id /\ q.date = s.date /\ q.type = s.type
      BY ONLY <2>2, <3>2, RowsFigured
    <3>4. KeysHold(job'.before.stored)
      BY ONLY <3>1, <3>3, KeysStay
    <3>5. SnapshotsHold(job'.before.snaps)
      BY <1>1, <1>9, <1>3, <2>2, <3>1 DEF Past
    <3>. QED  BY <1>1, <2>2, <3>1, <3>3, <3>4, <3>5 DEF Owned, Ids, Legal
  <2>. QED  BY <1>5, <1>7, <1>6, <2>3, <2>4 DEF TablesWhole, Legal
<1>. QED  BY <1>8, <1>9

LEMMA StartWhole ==
  ASSUME ReconcileInit
  PROVE  TablesWhole
<1>1. stored \in Tables /\ job = Idle
  BY DEF ReconcileInit
<1>2. KeysHold(stored)
  BY <1>1, ReconcileAssumption DEF KeysHold
<1>3. PICK of \in SUBSET Ids(stored) : snaps = {[id |-> i, of |-> i, at |-> Instant] : i \in of}
  BY DEF ReconcileInit
<1>4. Owned(snaps, stored)
  BY <1>3 DEF Owned
<1>5. SnapshotsHold(snaps)
  BY <1>3 DEF SnapshotsHold
<1>. QED  BY <1>1, <1>2, <1>4, <1>5 DEF TablesWhole, Legal, SurvivorsStay, Merging, Writing

LEMMA StepWhole ==
  ASSUME RepairInvariant, TablesWhole, [ReconcileNext]_reconcileVars
  PROVE  TablesWhole'
<1>1. CASE StartFiscalMerge
  BY <1>1, StartFiscalWhole
<1>2. CASE StartSameDateMerge
  BY <1>2, StartSameDateWhole
<1>3. CASE BeginSameDateMerge
  BY <1>3, BeginWhole
<1>4. CASE Carry
  BY <1>4, CarryWhole
<1>5. CASE RemoveDropped
  BY <1>5, RemoveWhole
<1>6. CASE Relabel
  BY <1>6, RelabelWhole
<1>7. CASE StartTypes \/ ApplyTypes
  BY <1>7, TypesWhole
<1>8. CASE \E r \in stored : SyncWrites(r)
  BY <1>8, SyncWhole
<1>9. CASE UNCHANGED reconcileVars
  BY <1>9 DEF reconcileVars, TablesWhole, SurvivorsStay, Merging, Writing
<1>. QED  BY <1>1, <1>2, <1>3, <1>4, <1>5, <1>6, <1>7, <1>8, <1>9 DEF ReconcileNext

LEMMA CountersStep ==
  ASSUME RepairCounters, [ReconcileNext]_reconcileVars
  PROVE  RepairCounters'
<1>1. MaxJobs \in Nat /\ MaxSyncs \in Nat
  BY ReconcileAssumption
<1>2. \/ UNCHANGED <<jobs, syncs>>
      \/ jobs < MaxJobs /\ jobs' = jobs + 1 /\ UNCHANGED syncs
      \/ syncs < MaxSyncs /\ syncs' = syncs + 1 /\ UNCHANGED jobs
  BY DEF ReconcileNext, reconcileVars, StartFiscalMerge, StartSameDateMerge, BeginSameDateMerge, Carry,
         RemoveDropped, Relabel, StartTypes, ApplyTypes, SyncWrites, MayStart
<1>. QED  BY <1>1, <1>2 DEF RepairCounters

\* Under the repairs and the syncs between their statements, also when a merge is undone, both
\* unique keys hold, and no snapshot is left without its row.
THEOREM RepairTypes == ReconcileSpec => []ReconcileTypeOK
<1>1. ReconcileInit => TablesWhole /\ RepairCounters
  BY StartWhole, ReconcileAssumption DEF RepairCounters, ReconcileInit
<1>2. RepairInvariant /\ TablesWhole /\ [ReconcileNext]_reconcileVars => TablesWhole'
  BY StepWhole
<1>3. RepairCounters /\ [ReconcileNext]_reconcileVars => RepairCounters'
  BY CountersStep
<1>4. TablesWhole /\ RepairCounters => ReconcileTypeOK
  BY DEF TablesWhole, Owned, RepairCounters, ReconcileTypeOK
<1>. QED  BY <1>1, <1>2, <1>3, <1>4, RepairInvariance, PTL DEF ReconcileSpec

----------------------------------------------------------------------------
(* Reconcile: what the repairs lose                                        *)

\* A step that takes no row and no snapshot and changes no figure loses nothing.
LEMMA NothingLost ==
  ASSUME Rows(stored), Ids(snaps) \subseteq Ids(snaps'), Ids(stored) \subseteq Ids(stored'),
         \A s \in stored' : \E r \in stored : s.id = r.id /\ s.act = r.act
  PROVE  SnapshotsStay /\ OwnFiguresStay /\ RemovedAreBackedUp
<1>1. SnapshotsStay
  BY DEF SnapshotsStay, Ids
<1>2. OwnFiguresStay
  <2>1. ASSUME NEW r \in stored, NEW s \in stored', r.id = s.id
        PROVE  s.act = r.act
    BY <2>1 DEF Rows, UniqueIds
  <2>. QED  BY <2>1 DEF OwnFiguresStay
<1>3. RemovedAreBackedUp
  BY DEF RemovedAreBackedUp, Ids
<1>. QED  BY <1>1, <1>2, <1>3

LEMMA CarryLosesNothing ==
  ASSUME RepairInvariant, Carry
  PROVE  SnapshotsStay /\ OwnFiguresStay /\ RemovedAreBackedUp
<1>1. job # Idle /\ job.pc = "carry" /\ Rows(stored)
  BY DEF Carry, RepairInvariant, TablesTyped
<1>2. Plan \in job.plans /\ Plan.dropped \subseteq StoredRow
  BY <1>1, PlanAtHand
<1>3. CASE Legal(stored, Repointed(snaps, Plan.survivor.id, Ids(Plan.dropped)))
  <2>1. /\ Ids(stored') = Ids(stored) /\ Ids(snaps') = Ids(snaps)
        /\ \A s \in stored' : \/ s \in stored
                              \/ job.kind = "same_date" /\ \E r \in stored : s = Filled(r, Plan)
        /\ UNCHANGED syncs
    BY <1>3, Carried
  <2>2. ASSUME NEW r \in stored, NEW s \in stored', r.id = s.id, Reported(r), s.act # r.act
        PROVE  syncs > job.planned
    <3>1. CASE s \in stored
      BY <1>1, <2>2, <3>1 DEF Rows, UniqueIds
    <3>2. CASE job.kind = "same_date" /\ \E q \in stored : s = Filled(q, Plan)
      <4>1. PICK q \in stored : s = Filled(q, Plan)
        BY <3>2
      <4>2. s.id = q.id
        BY <1>1, <1>2, <4>1, FilledRow DEF Rows
      <4>3. q = r
        BY <1>1, <2>2, <4>2 DEF Rows, UniqueIds
      <4>4. r.id = Plan.survivor.id /\ ~ Reported(Plan.survivor)
        BY <2>2, <4>1, <4>3 DEF Filled
      <4>5. Plan \in Pending
        BY <1>1, <1>2 DEF Pending
      <4>6. r.act = Plan.survivor.act \/ syncs > job.planned
        BY <1>1, <3>2, <4>4, <4>5 DEF RepairInvariant, PlansCurrent
      <4>. QED  BY <2>2, <4>4, <4>6 DEF Reported
    <3>. QED  BY <2>1, <3>1, <3>2
  <2>3. SnapshotsStay /\ RemovedAreBackedUp
    BY <2>1 DEF SnapshotsStay, RemovedAreBackedUp, Ids
  <2>4. OwnFiguresStay
    BY <2>2 DEF OwnFiguresStay
  <2>. QED  BY <2>3, <2>4
<1>4. CASE ~ Legal(stored, Repointed(snaps, Plan.survivor.id, Ids(Plan.dropped)))
  <2>1. stored' = job.before.stored /\ snaps' = job.before.snaps
    BY <1>4 DEF Carry
  <2>2. Ids(stored) \subseteq Ids(stored') /\ Ids(snaps) \subseteq Ids(snaps')
    BY <1>1, <2>1 DEF RepairInvariant, NothingNew, Writing
  <2>3. SnapshotsStay /\ RemovedAreBackedUp
    BY <2>2 DEF SnapshotsStay, RemovedAreBackedUp, Ids
  <2>4. OwnFiguresStay
    BY <1>1, <2>1 DEF OwnFiguresStay
  <2>. QED  BY <2>3, <2>4
<1>. QED  BY <1>3, <1>4

LEMMA RemovalLosesNothing ==
  ASSUME RepairInvariant, RemoveDropped
  PROVE  SnapshotsStay /\ OwnFiguresStay /\ RemovedAreBackedUp
<1>. DEFINE gone == {r \in stored : r.id \in Ids(Plan.dropped) /\ (job.kind = "fiscal" => ~ r.is_predicted)}
<1>1. /\ job # Idle /\ job.pc = "remove" /\ backup' = backup
      /\ stored' = stored \ gone /\ snaps' = {s \in snaps : s.of \notin Ids(gone)}
  BY DEF RemoveDropped
<1>2. Ids(gone) \subseteq Ids(Plan.dropped)
  BY DEF Ids
<1>3. SnapshotsStay
  <2>1. ASSUME NEW s \in snaps, s.id \notin Ids(snaps')
        PROVE  s.id >= 100 + job.carried
    <3>1. s \notin snaps'
      BY <2>1 DEF Ids
    <3>2. s.of \in Ids(Plan.dropped)
      BY <1>1, <1>2, <3>1
    <3>. QED  BY <1>1, <3>2 DEF RepairInvariant, ReadyToRemove
  <2>. QED  BY <1>1, <2>1 DEF SnapshotsStay
<1>4. OwnFiguresStay
  BY <1>1 DEF OwnFiguresStay, RepairInvariant, TablesTyped, Rows, UniqueIds
<1>5. RemovedAreBackedUp
  <2>1. ASSUME NEW r \in stored, r.id \notin Ids(stored')
        PROVE  \E b \in backup'[job.kind] : b.id = r.id /\ (b.act = r.act \/ syncs > job.carried)
    <3>1. r \in gone
      BY <1>1, <2>1 DEF Ids
    <3>2. r.id \in Ids(Plan.dropped)
      BY <3>1
    <3>. QED  BY <1>1, <3>2 DEF RepairInvariant, ReadyToRemove
  <2>. QED  BY <2>1 DEF RemovedAreBackedUp
<1>. QED  BY <1>3, <1>4, <1>5

LEMMA SyncLosesNothing ==
  ASSUME RepairInvariant, NEW r \in stored, SyncWrites(r)
  PROVE  SnapshotsStay /\ OwnFiguresStay /\ RemovedAreBackedUp
<1>1. /\ stored' = Figured(stored, r.id) /\ snaps \subseteq snaps' /\ syncs' = syncs + 1
  BY DEF SyncWrites, Figured
<1>2. syncs \in Nat /\ Rows(stored)
  BY DEF RepairInvariant, TablesTyped
<1>3. Ids(stored') = Ids(stored)
  BY <1>1, <1>2, RowsFigured
<1>4. syncs' > syncs
  BY <1>1, <1>2
<1>5. SnapshotsStay /\ RemovedAreBackedUp
  BY <1>1, <1>3 DEF SnapshotsStay, RemovedAreBackedUp, Ids
<1>6. OwnFiguresStay
  BY <1>4 DEF OwnFiguresStay
<1>. QED  BY <1>5, <1>6

LEMMA StepLosesNothing ==
  ASSUME RepairInvariant, ReconcileNext
  PROVE  SnapshotsStay /\ OwnFiguresStay /\ RemovedAreBackedUp
<1>1. Rows(stored)
  BY DEF RepairInvariant, TablesTyped
<1>2. CASE UNCHANGED <<stored, snaps>>
  <2>1. Ids(snaps) \subseteq Ids(snaps') /\ Ids(stored) \subseteq Ids(stored')
    BY <1>2
  <2>. QED  BY <1>1, <1>2, <2>1, NothingLost
<1>3. CASE StartFiscalMerge \/ StartSameDateMerge \/ BeginSameDateMerge \/ StartTypes
  BY <1>2, <1>3 DEF StartFiscalMerge, StartSameDateMerge, BeginSameDateMerge, StartTypes
<1>4. CASE Carry
  BY <1>4, CarryLosesNothing
<1>5. CASE RemoveDropped
  BY <1>5, RemovalLosesNothing
<1>6. CASE Relabel
  <2>1. \A s \in stored' : \E r \in stored : s.id = r.id /\ s.act = r.act
    BY <1>6, RelabelKeeps
  <2>2. Ids(stored') = Ids(stored) /\ snaps' = snaps
    BY <1>6, RelabelKeeps DEF Relabel
  <2>. QED  BY <1>1, <2>1, <2>2, NothingLost
<1>7. CASE ApplyTypes
  <2>1. Ids(stored') = Ids(stored) /\ snaps' = snaps
        /\ \A s \in stored' : \E r \in stored : s.id = r.id /\ s.act = r.act
    BY <1>7, ApplyKeeps
  <2>. QED  BY <1>1, <2>1, NothingLost
<1>8. CASE \E r \in stored : SyncWrites(r)
  BY <1>8, SyncLosesNothing
<1>. QED  BY <1>3, <1>4, <1>5, <1>6, <1>7, <1>8 DEF ReconcileNext

\* Under syncs that take no notice of them, the repairs lose no snapshot but one that a sync
\* wrote to a dropped row, put no total over a row's own figure, and remove no row that
\* is not in a backup.
THEOREM RepairsKeepAll == ReconcileSpec => RepairsLoseNothing
<1>1. RepairInvariant /\ [ReconcileNext]_reconcileVars =>
        [SnapshotsStay /\ OwnFiguresStay /\ RemovedAreBackedUp]_reconcileVars
  BY StepLosesNothing
<1>. QED  BY <1>1, RepairInvariance, PTL DEF ReconcileSpec, RepairsLoseNothing

----------------------------------------------------------------------------
(* Reconcile: labels                                                       *)

\* A row with a new label is the only confirmed one of its period.
LEMMA NewLabelIsAlone ==
  ASSUME RepairInvariant, Relabel, NEW q \in Confirmed(stored'), NEW s \in Confirmed(stored'),
         q.id # s.id, q.period = s.period
  PROVE  q \in stored \ Winners
<1>1. Rows(stored)
  BY DEF RepairInvariant, TablesTyped
<1>2. SUFFICES ASSUME NEW r \in Winners, r \in stored, q.id = r.id, q.period = Proposed(r)
              PROVE  FALSE
  BY RelabelKeeps DEF Confirmed
<1>3. r \in Eligible
  BY DEF Winners
<1>4. CASE s \in stored \ Winners
  <2>1. s \in Confirmed(stored) /\ s.id # r.id /\ s.period = Proposed(r)
    BY <1>2, <1>4 DEF Confirmed
  <2>. QED  BY <1>3, <2>1 DEF Eligible
<1>5. CASE \E t \in Winners : t \in stored /\ s.id = t.id /\ s.period = Proposed(t)
  <2>1. PICK t \in Winners : t \in stored /\ s.id = t.id /\ s.period = Proposed(t)
    BY <1>5
  <2>2. t \in Eligible /\ t # r /\ Proposed(t) = Proposed(r)
    BY <1>2, <2>1 DEF Winners
  <2>3. Ahead(r, t) \/ (~ Ahead(t, r) /\ r.id > t.id)
    BY <2>2 DEF Winners
  <2>4. Ahead(t, r) \/ (~ Ahead(r, t) /\ t.id > r.id)
    BY <1>3, <2>1, <2>2 DEF Winners
  <2>5. r \in StoredRow /\ t \in StoredRow
    BY <1>1, <1>2, <2>1 DEF Rows
  <2>6. ~ (Ahead(r, t) /\ Ahead(t, r))
    BY <2>5, AheadIsStrict
  <2>7. ~ (r.id > t.id /\ t.id > r.id)
    <3>1. r.id \in Nat /\ t.id \in Nat
      BY <2>5, StoredFields
    <3>. QED  BY <3>1
  <2>. QED  BY <2>3, <2>4, <2>6, <2>7
<1>. QED  BY <1>4, <1>5, RelabelKeeps DEF Confirmed

\* Labels put no period where another confirmed row has it.
LEMMA RelabelAddsNoTwins ==
  ASSUME RepairInvariant, Relabel
  PROVE  Twins(stored') \subseteq Twins(stored)
<1>1. SUFFICES ASSUME NEW p \in Twins(stored')
              PROVE  p \in Twins(stored)
  OBVIOUS
<1>2. /\ p \in Confirmed(stored') \X Confirmed(stored')
      /\ p[1].id # p[2].id /\ p[1].period # 0 /\ p[1].period = p[2].period
  BY DEF Twins
<1>3. p[1] \in Confirmed(stored') /\ p[2] \in Confirmed(stored') /\ p = <<p[1], p[2]>>
  BY <1>2
<1>4. p[1] \in stored /\ p[2] \in stored
  BY <1>2, <1>3, NewLabelIsAlone
<1>5. p[1] \in Confirmed(stored) /\ p[2] \in Confirmed(stored)
  BY <1>3, <1>4 DEF Confirmed
<1>. QED  BY <1>2, <1>3, <1>5 DEF Twins

LEMMA FewerTwins ==
  ASSUME NEW rs, Rows(rs), NEW qs, Twins(qs) \subseteq Twins(rs)
  PROVE  Cardinality(Twins(qs)) <= Cardinality(Twins(rs))
<1>1. Confirmed(rs) \subseteq rs
  BY DEF Confirmed
<1>2. IsFiniteSet(Confirmed(rs))
  BY <1>1, FS_Subset DEF Rows
<1>3. IsFiniteSet(Confirmed(rs) \X Confirmed(rs))
  BY <1>2, FS_Product
<1>4. Twins(rs) \subseteq Confirmed(rs) \X Confirmed(rs)
  BY DEF Twins
<1>5. IsFiniteSet(Twins(rs))
  BY <1>3, <1>4, FS_Subset
<1>. QED  BY <1>5, FS_Subset

LEMMA JobsCounted ==
  ASSUME jobs \in Nat, [ReconcileNext]_reconcileVars
  PROVE  jobs' \in Nat
<1>1. CASE jobs' = jobs
  BY <1>1
<1>2. CASE jobs' = jobs + 1
  BY <1>2
<1>3. CASE StartFiscalMerge \/ StartSameDateMerge \/ Relabel \/ StartTypes
  BY <1>2, <1>3 DEF StartFiscalMerge, StartSameDateMerge, Relabel, StartTypes, MayStart
<1>4. CASE BeginSameDateMerge \/ Carry \/ RemoveDropped \/ ApplyTypes
  BY <1>1, <1>4 DEF BeginSameDateMerge, Carry, RemoveDropped, ApplyTypes
<1>5. CASE UNCHANGED reconcileVars \/ \E r \in stored : SyncWrites(r)
  BY <1>1, <1>5 DEF reconcileVars, SyncWrites
<1>. QED  BY <1>3, <1>4, <1>5 DEF ReconcileNext

\* New labels give no period of any table a second confirmed row.
THEOREM LabelsAreSafe == ReconcileSpec => LabelsAddNoTwins
<1>1. ASSUME RepairInvariant, jobs \in Nat, ReconcileNext, job = Idle, jobs' > jobs
      PROVE  Cardinality(Twins(stored')) <= Cardinality(Twins(stored))
  <2>1. Rows(stored)
    BY <1>1 DEF RepairInvariant, TablesTyped
  <2>2. CASE Relabel
    BY <1>1, <2>1, <2>2, RelabelAddsNoTwins, FewerTwins
  <2>3. CASE stored' = stored
    <3>1. Twins(stored') \subseteq Twins(stored)
      BY <2>3
    <3>. QED  BY <2>1, <3>1, FewerTwins
  <2>4. CASE StartFiscalMerge \/ StartSameDateMerge \/ BeginSameDateMerge \/ StartTypes
    BY <2>3, <2>4 DEF StartFiscalMerge, StartSameDateMerge, BeginSameDateMerge, StartTypes
  <2>5. CASE Carry \/ RemoveDropped
    BY <1>1, <2>5 DEF Carry, RemoveDropped
  <2>6. CASE ApplyTypes
    BY <1>1, <2>6 DEF ApplyTypes, Idle
  <2>7. CASE \E r \in stored : SyncWrites(r)
    <3>1. jobs' = jobs
      BY <2>7 DEF SyncWrites
    <3>. QED  BY <1>1, <3>1
  <2>. QED  BY <1>1, <2>2, <2>4, <2>5, <2>6, <2>7 DEF ReconcileNext
<1>2. RepairInvariant /\ jobs \in Nat /\ [ReconcileNext]_reconcileVars =>
        [job = Idle /\ jobs' > jobs
           => Cardinality(Twins(stored')) <= Cardinality(Twins(stored))]_reconcileVars
  BY <1>1
<1>3. ReconcileInit => jobs \in Nat
  BY DEF ReconcileInit
<1>4. jobs \in Nat /\ [ReconcileNext]_reconcileVars => (jobs \in Nat)'
  BY JobsCounted
<1>. QED  BY <1>2, <1>3, <1>4, RepairInvariance, PTL DEF ReconcileSpec, LabelsAddNoTwins

----------------------------------------------------------------------------
(* Reconcile: what users see                                               *)

Outranked(r, rs) == r.period # 0 /\ \E s \in rs : s.period = r.period /\ Ahead(s, r)

\* As long as no sync writes, a merge of periods has removed rows only that are outranked by one
\* that is there, and has planned to remove no others.
BestStay ==
  job # Idle /\ job.kind = "fiscal" /\ syncs = job.planned =>
    /\ stored \subseteq job.before.stored
    /\ \A r \in job.before.stored \ stored : Outranked(r, stored)
    /\ \A p \in job.plans : \A r \in p.dropped :
         /\ p.survivor \in job.before.stored /\ r \in job.before.stored
         /\ r.period # 0 /\ p.survivor.period = r.period /\ Ahead(p.survivor, r)

\* Confirmed rows of one period are in an order of authority.
LEMMA OneIsAhead ==
  ASSUME Rows(stored), KeysHold(stored), NEW q \in Confirmed(stored), NEW r \in Confirmed(stored), q # r
  PROVE  Ahead(q, r) \/ Ahead(r, q)
<1>1. q \in StoredRow /\ r \in StoredRow /\ q \in stored /\ r \in stored
  BY DEF Confirmed, Rows
<1>2. q.is_predicted = FALSE /\ r.is_predicted = FALSE
  BY <1>1, StoredFields DEF Confirmed
<1>3. CASE Disclosing(q) # Disclosing(r)
  BY <1>2, <1>3 DEF Ahead, Disclosing
<1>4. CASE (Disclosing(q) <=> Disclosing(r)) /\ ~ (Reported(q) <=> Reported(r))
  BY <1>2, <1>4 DEF Ahead
<1>5. CASE (Disclosing(q) <=> Disclosing(r)) /\ (Reported(q) <=> Reported(r))
  <2>1. q.type = r.type
    BY <1>1, <1>5, StoredFields DEF Disclosing, ReportTypes
  <2>2. q.date # r.date
    BY <1>1, <2>1 DEF KeysHold
  <2>3. q.date > r.date \/ r.date > q.date
    BY <1>1, <2>2, StoredFields
  <2>. QED  BY <1>2, <1>5, <2>3 DEF Ahead
<1>. QED  BY <1>3, <1>4, <1>5 DEF Disclosing

LEMMA StartFiscalBest ==
  ASSUME RepairInvariant, TablesWhole, StartFiscalMerge
  PROVE  BestStay'
<1>1. job' = Started("fiscal", "carry", FiscalPlans) /\ stored' = stored
  BY DEF StartFiscalMerge
<1>2. job'.plans = FiscalPlans /\ job'.before.stored = stored
  BY <1>1 DEF Started
<1>3. Rows(stored) /\ KeysHold(stored)
  BY DEF RepairInvariant, TablesTyped, TablesWhole, Legal
<1>4. ASSUME NEW p \in FiscalPlans, NEW r \in p.dropped
      PROVE  /\ p.survivor \in stored /\ r \in stored
             /\ r.period # 0 /\ p.survivor.period = r.period /\ Ahead(p.survivor, r)
  <2>1. PICK k \in PeriodsOf(Confirmed(stored)) : p = PlanOf(k)
    BY DEF FiscalPlans, PlanOf, ShownRow, Group
  <2>2. p.survivor = ShownRow(k) /\ p.dropped = Group(k) \ {ShownRow(k)}
    BY <2>1 DEF PlanOf
  <2>3. k # 0 /\ \A q \in Group(k) : q \in Confirmed(stored) /\ q \in stored /\ q.period = k
    BY DEF Group, Confirmed, PeriodsOf
  <2>4. Group(k) \subseteq stored /\ Group(k) # {}
    BY <2>3 DEF Group, PeriodsOf
  <2>5. Leading(Group(k)) # {} /\ Leading(Group(k)) \subseteq Group(k)
    BY <1>3, <2>4, PartOfRows, SomeRowLeads DEF Rows, Leading
  <2>6. ShownRow(k) \in Leading(Group(k))
    BY <2>5 DEF Only, ShownRow
  <2>7. ~ Ahead(r, ShownRow(k))
    BY <2>2, <2>6 DEF Leading
  <2>8. Ahead(ShownRow(k), r)
    BY <1>3, <1>4, <2>2, <2>3, <2>5, <2>6, <2>7, OneIsAhead
  <2>. QED  BY <1>4, <2>2, <2>3, <2>5, <2>6, <2>8
<1>. QED  BY <1>1, <1>2, <1>4 DEF BestStay

\* A row that goes is outranked by the one that is kept, and so is what it outranked.
LEMMA RemoveBest ==
  ASSUME RepairInvariant, TablesWhole, BestStay, RemoveDropped, job.kind = "fiscal", syncs = job.planned
  PROVE  /\ stored' \subseteq job.before.stored
         /\ \A r \in job.before.stored \ stored' : Outranked(r, stored')
<1>. DEFINE gone == {r \in stored : r.id \in Ids(Plan.dropped) /\ (job.kind = "fiscal" => ~ r.is_predicted)}
            old == job.before.stored
<1>1. job # Idle /\ job.pc = "remove" /\ stored' = stored \ gone
  BY DEF RemoveDropped
<1>2. Plan \in job.plans
  BY <1>1, PlanAtHand
<1>3. Rows(old)
  BY <1>1 DEF RepairInvariant, JobTypes
<1>4. stored \subseteq old /\ \A r \in old \ stored : Outranked(r, stored)
  BY <1>1 DEF BestStay
<1>5. gone \subseteq Plan.dropped
  <2>1. ASSUME NEW r \in gone PROVE r \in Plan.dropped
    <3>1. PICK d \in Plan.dropped : d.id = r.id
      BY DEF Ids
    <3>2. d \in old /\ r \in old
      BY <1>1, <1>2, <1>4 DEF BestStay
    <3>. QED  BY <1>3, <3>1, <3>2 DEF Rows, UniqueIds
  <2>. QED  BY <2>1
<1>6. /\ Plan.survivor.id \in Ids(stored) /\ Plan.survivor.id \notin Ids(Plan.dropped)
  BY <1>1, <1>2 DEF TablesWhole, SurvivorsStay, Merging
<1>. HIDE DEF gone
<1>7. ASSUME NEW r \in gone
      PROVE  r.period # 0 /\ \E s \in stored' : s.period = r.period /\ Ahead(s, r)
  <2>1. /\ Plan.survivor \in old /\ r.period # 0 /\ Plan.survivor.period = r.period /\ Ahead(Plan.survivor, r)
    BY <1>1, <1>2, <1>5 DEF BestStay
  <2>2. PICK s \in stored : s.id = Plan.survivor.id
    BY <1>6 DEF Ids
  <2>3. s = Plan.survivor
    BY <1>3, <1>4, <2>1, <2>2 DEF Rows, UniqueIds
  <2>4. s \notin gone
    BY <1>5, <1>6, <2>2 DEF Ids
  <2>. QED  BY <1>1, <2>1, <2>3, <2>4
<1>8. ASSUME NEW r \in old \ stored'
      PROVE  Outranked(r, stored')
  <2>1. CASE r \in stored
    BY <1>1, <1>7, <1>8, <2>1 DEF Outranked
  <2>2. CASE r \notin stored
    <3>1. r.period # 0
      BY <1>4, <1>8, <2>2 DEF Outranked
    <3>2. PICK s \in stored : s.period = r.period /\ Ahead(s, r)
      BY <1>4, <1>8, <2>2 DEF Outranked
    <3>3. CASE s \in stored'
      BY <3>1, <3>2, <3>3 DEF Outranked
    <3>4. CASE s \notin stored'
      <4>1. PICK q \in stored' : q.period = s.period /\ Ahead(q, s)
        BY <1>1, <1>7, <3>4
      <4>2. q \in StoredRow /\ s \in StoredRow /\ r \in StoredRow
        BY <1>1, <1>3, <1>4, <1>8 DEF Rows
      <4>3. Ahead(q, r)
        BY <3>2, <4>1, <4>2, AheadIsTransitive
      <4>. QED  BY <3>1, <3>2, <4>1, <4>3 DEF Outranked
    <3>. QED  BY <3>3, <3>4
  <2>. QED  BY <2>1, <2>2
<1>. QED  BY <1>1, <1>4, <1>8

LEMMA StepBest ==
  ASSUME RepairInvariant, TablesWhole, BestStay, [ReconcileNext]_reconcileVars
  PROVE  BestStay'
<1>1. CASE StartFiscalMerge
  BY <1>1, StartFiscalBest
<1>2. CASE StartSameDateMerge \/ StartTypes
  <2>1. job'.kind # "fiscal"
    BY <1>2 DEF StartSameDateMerge, StartTypes, Started
  <2>. QED  BY <2>1 DEF BestStay
<1>3. CASE BeginSameDateMerge
  <2>1. job' = Idle \/ job'.kind = job.kind
    <3>1. job # Idle
      BY <1>3 DEF BeginSameDateMerge, Idle
    <3>2. PICK ps, ss, bs : job \in [kind : {"fiscal", "same_date", "types"}, pc : {"planned", "carry", "remove"},
                                     plans : ps, planned : Nat, carried : Nat,
                                     before : [stored : SUBSET StoredRow, snaps : ss, backup : bs]]
      BY <3>1 DEF RepairInvariant, JobTypes
    <3>. QED  BY <1>3, <3>2 DEF BeginSameDateMerge
  <2>. QED  BY <1>3, <2>1 DEF BestStay, BeginSameDateMerge
<1>4. CASE Carry
  <2>1. CASE Legal(stored, Repointed(snaps, Plan.survivor.id, Ids(Plan.dropped)))
    <3>1. /\ job # Idle /\ job'.kind = job.kind /\ job'.plans = job.plans
          /\ job'.planned = job.planned /\ job'.before = job.before /\ syncs' = syncs
      BY <1>4, <2>1, Carried
    <3>2. job.kind = "fiscal" => stored' = stored
      BY <1>4, <2>1 DEF Carry
    <3>. QED  BY <3>1, <3>2 DEF BestStay
  <2>2. CASE ~ Legal(stored, Repointed(snaps, Plan.survivor.id, Ids(Plan.dropped)))
    BY <1>4, <2>2 DEF Carry, BestStay
  <2>. QED  BY <2>1, <2>2
<1>5. CASE RemoveDropped
  <2>1. job # Idle /\ job.pc = "remove" /\ syncs' = syncs
    BY <1>5 DEF RemoveDropped
  <2>2. CASE job' = Idle
    BY <2>2 DEF BestStay
  <2>3. CASE job' # Idle
    <3>1. job' = [job EXCEPT !.pc = "carry", !.plans = @ \ {Plan}]
      BY <1>5, <2>3 DEF RemoveDropped
    <3>2. PICK ps, ss, bs : job \in [kind : {"fiscal", "same_date", "types"}, pc : {"planned", "carry", "remove"},
                                     plans : ps, planned : Nat, carried : Nat,
                                     before : [stored : SUBSET StoredRow, snaps : ss, backup : bs]]
      BY <2>1 DEF RepairInvariant, JobTypes
    <3>3. /\ job'.kind = job.kind /\ job'.plans = job.plans \ {Plan} /\ job'.before = job.before
          /\ job'.planned = job.planned
      BY <3>1, <3>2
    <3>. QED  BY <1>5, <2>1, <3>3, RemoveBest DEF BestStay
  <2>. QED  BY <2>2, <2>3
<1>6. CASE Relabel \/ ApplyTypes
  <2>1. job' = Idle
    BY <1>6 DEF Relabel, ApplyTypes, MayStart
  <2>. QED  BY <2>1 DEF BestStay
<1>7. CASE \E r \in stored : SyncWrites(r)
  <2>1. CASE job = Idle
    BY <1>7, <2>1 DEF SyncWrites, BestStay
  <2>2. CASE job # Idle
    <3>1. PICK ps, ss, bs : job \in [kind : {"fiscal", "same_date", "types"}, pc : {"planned", "carry", "remove"},
                                     plans : ps, planned : Nat, carried : Nat,
                                     before : [stored : SUBSET StoredRow, snaps : ss, backup : bs]]
      BY <2>2 DEF RepairInvariant, JobTypes
    <3>2. job'.planned = job.planned /\ syncs' = syncs + 1
      BY <1>7, <2>2, <3>1 DEF SyncWrites
    <3>3. job.planned \in Nat /\ job.planned <= syncs /\ syncs \in Nat
      BY <2>2 DEF RepairInvariant, JobTypes, TablesTyped
    <3>. QED  BY <3>2, <3>3 DEF BestStay
  <2>. QED  BY <2>1, <2>2
<1>8. CASE UNCHANGED reconcileVars
  BY <1>8 DEF reconcileVars, BestStay
<1>. QED  BY <1>1, <1>2, <1>3, <1>4, <1>5, <1>6, <1>7, <1>8 DEF ReconcileNext

\* A calendar shows the same of a table and of what is left of it, if each row that is missing
\* is outranked by one that is there.
LEMMA SameViews ==
  ASSUME NEW rs, Rows(rs), NEW qs \in SUBSET rs, \A r \in rs \ qs : Outranked(r, qs)
  PROVE  Views(qs) = Views(rs)
<1>. DEFINE of(t, p) == {r \in t : r.period = p}
<1>1. PeriodsOf(qs) = PeriodsOf(rs)
  BY DEF PeriodsOf, Outranked
<1>2. {r \in qs : r.period = 0} = {r \in rs : r.period = 0}
  BY DEF Outranked
<1>3. ASSUME NEW p \in PeriodsOf(rs)
      PROVE  Leading(of(qs, p)) = Leading(of(rs, p))
  <2>1. ASSUME NEW r \in Leading(of(rs, p)) PROVE r \in Leading(of(qs, p))
    <3>1. r \in of(rs, p) /\ \A s \in of(rs, p) : ~ Ahead(s, r)
      BY DEF Leading
    <3>2. r \in qs
      BY <3>1 DEF Outranked
    <3>. QED  BY <3>1, <3>2 DEF Leading
  <2>2. ASSUME NEW r \in Leading(of(qs, p)) PROVE r \in Leading(of(rs, p))
    <3>1. r \in of(qs, p) /\ \A s \in of(qs, p) : ~ Ahead(s, r)
      BY DEF Leading
    <3>2. ASSUME NEW s \in of(rs, p), Ahead(s, r) PROVE FALSE
      <4>1. s \notin qs
        BY <3>1, <3>2
      <4>2. PICK q \in qs : q.period = s.period /\ Ahead(q, s)
        BY <4>1 DEF Outranked
      <4>3. q \in StoredRow /\ s \in StoredRow /\ r \in StoredRow
        BY <3>1 DEF Rows
      <4>4. Ahead(q, r)
        BY <3>2, <4>2, <4>3, AheadIsTransitive
      <4>. QED  BY <3>1, <4>2, <4>4
    <3>. QED  BY <3>1, <3>2 DEF Leading
  <2>. QED  BY <2>1, <2>2
<1>4. \A p \in PeriodsOf(rs) : Leading(of(rs, p)) \subseteq qs
  BY <1>3 DEF Leading
<1>. DEFINE picks(t) == {f \in [PeriodsOf(rs) -> t] : \A p \in PeriodsOf(rs) : f[p] \in Leading(of(rs, p))}
<1>5. picks(qs) = picks(rs)
  <2>. HIDE DEF of
  <2>1. picks(qs) \subseteq picks(rs)
    OBVIOUS
  <2>2. ASSUME NEW f \in picks(rs) PROVE f \in picks(qs)
    BY <1>4
  <2>. QED  BY <2>1, <2>2
<1>6. PeriodViews(rs) = {{r \in rs : r.period = 0} \cup {f[p] : p \in PeriodsOf(rs)} : f \in picks(rs)}
  BY DEF PeriodViews
<1>7. PeriodViews(qs) = {{r \in rs : r.period = 0} \cup {f[p] : p \in PeriodsOf(rs)} : f \in picks(qs)}
  <2>1. PeriodViews(qs)
          = {{r \in qs : r.period = 0} \cup {f[p] : p \in PeriodsOf(qs)} :
               f \in {g \in [PeriodsOf(qs) -> qs] : \A p \in PeriodsOf(qs) : g[p] \in Leading(of(qs, p))}}
    BY DEF PeriodViews
  <2>2. {g \in [PeriodsOf(rs) -> qs] : \A p \in PeriodsOf(rs) : g[p] \in Leading(of(qs, p))} = picks(qs)
    <3>. HIDE DEF of
    <3>. QED  BY <1>3
  <2>. HIDE DEF picks, of
  <2>. QED  BY <1>1, <1>2, <2>1, <2>2
<1>8. PeriodViews(qs) = PeriodViews(rs)
  <2>. HIDE DEF picks
  <2>. QED  BY <1>5, <1>6, <1>7
<1>. QED  BY <1>8 DEF Views

\* The merge of fiscal periods does not change what users see (reconcile_fiscal_rows.py), for every
\* table and any number of plans, if no sync wrote meanwhile and no figure is ahead of its day.
THEOREM MergesKeepView == ReconcileSpec => MergesKeepTheView
<1>. DEFINE quiet == /\ job # Idle /\ job'= Idle /\ job.kind = "fiscal" /\ syncs = job.planned
                     /\ \A r \in job.before.stored : Reported(r) => r.date <= Now
<1>1. ReconcileInit => TablesWhole /\ BestStay
  BY StartWhole DEF ReconcileInit, BestStay
<1>2. RepairInvariant /\ TablesWhole /\ [ReconcileNext]_reconcileVars => TablesWhole'
  BY StepWhole
<1>3. RepairInvariant /\ TablesWhole /\ BestStay /\ [ReconcileNext]_reconcileVars => BestStay'
  BY StepBest
<1>4. RepairInvariant /\ TablesWhole /\ BestStay /\ [ReconcileNext]_reconcileVars
        => [quiet => WholeCalendars(stored') = WholeCalendars(job.before.stored)]_reconcileVars
  <2>. SUFFICES ASSUME RepairInvariant, TablesWhole, BestStay, ReconcileNext, quiet
                PROVE  WholeCalendars(stored') = WholeCalendars(job.before.stored)
    OBVIOUS
  <2>. DEFINE old == job.before.stored
  <2>1. \/ stored' = old
        \/ RemoveDropped
    BY DEF ReconcileNext, StartFiscalMerge, StartSameDateMerge, BeginSameDateMerge, Carry, Relabel, StartTypes,
           ApplyTypes, SyncWrites, MayStart, Started, Idle
  <2>2. CASE RemoveDropped
    <3>1. stored' \subseteq old /\ \A r \in old \ stored' : Outranked(r, stored')
      BY <2>2, RemoveBest
    <3>2. Rows(old)
      BY DEF RepairInvariant, JobTypes
    <3>3. ASSUME NEW r \in old PROVE Masked(r, Now) = r
      <4>1. r \in StoredRow
        BY <3>2 DEF Rows
      <4>2. r.date > Now => r.act = "none"
        BY <4>1, ReconcileAssumption, StoredFields DEF Reported
      <4>3. r.act = "none" => [r EXCEPT !.act = "none"] = r
        BY <4>1 DEF StoredRow
      <4>. QED  BY <4>2, <4>3 DEF Masked
    <3>4. {Masked(r, Now) : r \in old} = old /\ {Masked(r, Now) : r \in stored'} = stored'
      BY <3>1, <3>3
    <3>5. Views(stored') = Views(old)
      <4>. HIDE DEF old
      <4>. QED  BY <3>1, <3>2, SameViews
    <3>. QED  BY <3>4, <3>5 DEF WholeCalendars
  <2>. QED  BY <2>1, <2>2
<1>. QED  BY <1>1, <1>2, <1>3, <1>4, RepairInvariance, PTL DEF ReconcileSpec, MergesKeepTheView
=============================================================================
