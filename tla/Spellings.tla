------------------------------ MODULE Spellings ------------------------------
(***************************************************************************)
(* One company under two spellings of its symbol: the rows that older      *)
(* releases wrote under a spelling that is no longer canonical, and the    *)
(* first step of every prediction run, which moves them and their estimate *)
(* snapshots onto the canonical symbol (merge_duplicate_symbols in         *)
(* scripts/predict_earnings.py), with provider runs in between.            *)
(***************************************************************************)
EXTENDS Integers

CONSTANTS
  OldRows,      \* tables a run may find, rows of both spellings
  SnapshotKeys, \* (source, captured_at) of snapshots
  Figures,      \* values of eps_actual
  Currencies,   \* currencies of actuals
  NoFigure,     \* NULL
  MaxMerges,    \* bound: prediction runs
  MaxWrites     \* bound: provider runs

LegacyRow ==
  [id : Nat \ {0}, symbol : {"canonical", "dirty"}, date : Nat, type : STRING, period : Nat,
   act : Figures \cup {NoFigure}, currency : Currencies \cup {NoFigure}, is_predicted : BOOLEAN]

ASSUME SpellingsAssumption ==
  /\ \A rs \in OldRows : rs \subseteq LegacyRow /\ \A q, r \in rs : q.id = r.id => q = r
  /\ MaxMerges \in Nat /\ MaxWrites \in Nat

VARIABLES
  spelled,   \* rows of earnings
  attached,  \* rows of earnings_estimate_snapshots: where each is, and of which row it was taken
  history,   \* every snapshot taken: the date and type it is of, its key and its first row
  aborted,   \* the last merge was rolled back
  merges, writes

spellingVars == <<spelled, attached, history, aborted, merges, writes>>

Spelling == {"canonical", "dirty"}
Of(spelling) == {r \in spelled : r.symbol = spelling}
SameSlot(q, r) == q.date = r.date /\ q.type = r.type
SlotOf(s, r) == [date |-> r.date, type |-> r.type, key |-> s.key, of |-> s.of]
SlotsTaken(ss, rs) == UNION {{SlotOf(s, r) : r \in {x \in rs : x.id = s.row}} : s \in ss}

\* UNIQUE(symbol, market, report_date, report_type) and the index of the fiscal identity.
IdentityHolds(rs) ==
  \A q, r \in rs : q.symbol = r.symbol /\ q # r =>
    /\ ~SameSlot(q, r)
    /\ q.is_predicted \/ r.is_predicted \/ q.period # r.period

SpellingsInit ==
  /\ spelled \in OldRows /\ IdentityHolds(spelled)
  /\ attached \in SUBSET {[row |-> r.id, key |-> k, of |-> r.id] : r \in spelled, k \in SnapshotKeys}
  /\ history = SlotsTaken(attached, spelled)
  /\ aborted = FALSE /\ merges = 0 /\ writes = 0

----------------------------------------------------------------------------
(* The merge                                                               *)

NewId(d) == - d.id   \* from the sequence: an id no row has had; a row is copied under it once

\* A row is copied: its canonical counterpart takes its figure and keeps its own labels.  The
\* currency of the actual is not among the columns copied.
Copied(d) ==
  LET counterpart == {c \in Of("canonical") : SameSlot(c, d)}
  IN  IF counterpart = {} THEN [d EXCEPT !.id = NewId(d), !.symbol = "canonical", !.currency = NoFigure]
      ELSE LET c == CHOOSE c \in counterpart : TRUE
           IN  [c EXCEPT !.act = IF d.act # NoFigure THEN d.act ELSE @,
                         !.is_predicted = @ /\ d.is_predicted]

Kept(d) == Copied(d).id
AfterCopy == (spelled \ {c \in Of("canonical") : \E d \in Of("dirty") : SameSlot(c, d)})
               \cup {Copied(d) : d \in Of("dirty")}

\* A snapshot whose key the surviving row has already stays where it is.
Collides(s, d) == \E t \in attached : t.row = Kept(d) /\ t.key = s.key
Moved(s) ==
  LET owner == {d \in Of("dirty") : d.id = s.row /\ ~Collides(s, d)}
  IN  IF owner = {} THEN s ELSE [s EXCEPT !.row = Kept(CHOOSE d \in owner : TRUE)]

\* Mutant of Blocked: every row that was copied goes.
NoneBlocked == {}

\* A row with a snapshot left stays: deleting it would take the snapshot along.
Blocked == {d \in Of("dirty") : \E s \in attached : s.row = d.id /\ Collides(s, d)}

Gone == {d \in Of("dirty") : d \notin Blocked}

\* One transaction; a copy that the index of the fiscal identity refuses ends the run.
Merge ==
  /\ merges < MaxMerges /\ merges' = merges + 1
  /\ Of("dirty") # {}
  /\ IF IdentityHolds(AfterCopy)
       THEN /\ spelled' = AfterCopy \ Gone
            /\ attached' = {s \in {Moved(s) : s \in attached} : \A d \in Gone : s.row # d.id}
            /\ aborted' = FALSE
       ELSE aborted' = TRUE /\ UNCHANGED <<spelled, attached>>
  /\ UNCHANGED <<history, writes>>

----------------------------------------------------------------------------
(* Providers                                                               *)

\* A provider's figure, with its currency, for a canonical row.
WriteFigure(r, figure, currency) ==
  /\ r.symbol = "canonical"
  /\ spelled' = (spelled \ {r}) \cup {[r EXCEPT !.act = figure, !.currency = currency]}
  /\ UNCHANGED <<attached, history, aborted, merges>>

\* A calendar run snapshots the estimate of a canonical row.
TakeSnapshot(r, key) ==
  /\ r.symbol = "canonical" /\ ~\E s \in attached : s.row = r.id /\ s.key = key
  /\ attached' = attached \cup {[row |-> r.id, key |-> key, of |-> r.id]}
  /\ history' = history \cup {[date |-> r.date, type |-> r.type, key |-> key, of |-> r.id]}
  /\ UNCHANGED <<spelled, aborted, merges>>

Provide ==
  /\ writes < MaxWrites /\ writes' = writes + 1
  /\ \E r \in spelled :
       \/ \E figure \in Figures, currency \in Currencies : WriteFigure(r, figure, currency)
       \/ \E key \in SnapshotKeys : TakeSnapshot(r, key)

SpellingsNext == Merge \/ Provide

SpellingsSpec == SpellingsInit /\ [][SpellingsNext]_spellingVars

----------------------------------------------------------------------------
(* Properties                                                              *)

\* Every variable keeps its type.
SpellingsTypeOK ==
  /\ \A r \in spelled : r.symbol \in Spelling /\ r.act \in Figures \cup {NoFigure}
                        /\ r.currency \in Currencies \cup {NoFigure}
  /\ \A q, r \in spelled : q.id = r.id => q = r
  /\ \A s \in attached : s.row \in {r.id : r \in spelled} /\ s.key \in SnapshotKeys
  /\ aborted \in BOOLEAN /\ merges \in 0 .. MaxMerges /\ writes \in 0 .. MaxWrites

\* Every snapshot ever taken is still there, on a row of the company at the date and of the
\* type it was taken for, whichever spelling's rows were merged, blocked or refused since.
HistorySurvivesSpelling == history \subseteq SlotsTaken(attached, spelled)

\* scripts/predict_earnings.py, _MERGE_COLUMNS: provenance travels with the row.  A figure that
\* the canonical row takes from a merged one keeps the currency it was reported in.
CurrencyTravels ==
  [][\A d \in spelled \ spelled' :
       d.symbol = "dirty" /\ d.act # NoFigure
       => \E r \in spelled' : r.symbol = "canonical" /\ SameSlot(r, d) /\ r.act = d.act
                                /\ r.currency = d.currency]_spellingVars
=============================================================================
