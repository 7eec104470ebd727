------------------------------ MODULE MCParts ------------------------------
(***************************************************************************)
(* Parts that share no state, for TLC, one at a time: a behaviour is one   *)
(* of Feeds, of SymbolKeys, of Reconcile, of Spellings, of FutuPacing or   *)
(* of Freshness, chosen at the start.  Two requests, one ticker and three  *)
(* numbers of three to five digits, three rows at three dates, three rows  *)
(* of two spellings, three symbols and a window of two calls that may take *)
(* less or half of it, and rounds of two stages.                           *)
(***************************************************************************)
EXTENDS Feeds, SymbolKeys, Reconcile, Spellings, FutuPacing, Freshness, TLC

CONSTANT Parts   \* the parts a run is about
VARIABLE part

partVars == <<part, feedVars, keyVars, reconcileVars, spellingVars, vars, freshVars>>

\* Where a behaviour is of another part, nothing is stored.
NoKeys == rows = {} /\ started = FALSE /\ failed = FALSE /\ edits = 0
NoRepairs ==
  /\ stored = {} /\ snaps = {} /\ calendar = {} /\ job = Idle
  /\ backup = [fiscal |-> {}, same_date |-> {}, labels |-> {}, types |-> {}]
  /\ jobs = 0 /\ syncs = 0
NoSpellings ==
  /\ spelled = {} /\ attached = {} /\ history = {} /\ aborted = FALSE /\ merges = 0 /\ writes = 0

PartsInit ==
  /\ part \in Parts
  /\ FeedsInit /\ Init /\ FreshInit
  /\ IF part = "keys" THEN KeysInit ELSE NoKeys
  /\ IF part = "repairs" THEN ReconcileInit ELSE NoRepairs
  /\ IF part = "spellings" THEN SpellingsInit ELSE NoSpellings

InFeeds(action) ==
  part = "feeds" /\ action /\ UNCHANGED <<part, keyVars, reconcileVars, spellingVars, vars, freshVars>>
InKeys(action) ==
  part = "keys" /\ action /\ UNCHANGED <<part, feedVars, reconcileVars, spellingVars, vars, freshVars>>
InRepairs(action) ==
  part = "repairs" /\ action /\ UNCHANGED <<part, feedVars, keyVars, spellingVars, vars, freshVars>>
InSpellings(action) ==
  part = "spellings" /\ action /\ UNCHANGED <<part, feedVars, keyVars, reconcileVars, vars, freshVars>>
InPacing(action) ==
  part = "pacing" /\ action /\ UNCHANGED <<part, feedVars, keyVars, reconcileVars, spellingVars, freshVars>>
InFreshness(action) ==
  part = "freshness" /\ action /\ UNCHANGED <<part, feedVars, keyVars, reconcileVars, spellingVars, vars>>

PartsNext ==
  \/ InFeeds(FeedsNext) \/ InKeys(KeysNext) \/ InRepairs(ReconcileNext)
  \/ InSpellings(SpellingsNext) \/ InPacing(Next) \/ InFreshness(FreshNext)

PartsSpec == PartsInit /\ [][PartsNext]_partVars

\* The type invariants of the six.
PartsTypeOK ==
  FeedsTypeOK /\ KeysTypeOK /\ ReconcileTypeOK /\ SpellingsTypeOK /\ TypeOK /\ FreshTypeOK

----------------------------------------------------------------------------
(* Values                                                                  *)

MCPipeline == <<"longbridge", "consensus">>

Times == {0, 1}
Interchangeable == Permutations(Requests)

\* Three confirmed rows, or two and a prediction, with doubles of every kind among them.
OldRow(i, d, t, p, a, predicted, source) ==
  [id |-> i, date |-> d, type |-> t, period |-> p, act |-> a, is_predicted |-> predicted, source |-> source]
MCTables ==
  {{OldRow(1, 1, "Q", p, a, FALSE, "longbridge"), OldRow(2, k[1], k[2], q, k[3], FALSE, "longbridge"),
    OldRow(3, 3, x[1], x[2], x[3], x[4], x[5])} :
     p \in {1, 4}, q \in {1, 2}, a \in {"none", "quarter"},
     k \in {<<1, "A", "annual">>, <<2, "Q", "none">>, <<2, "A", "annual">>},
     x \in {<<"A", 1, "annual", FALSE, "longbridge">>, <<"Q", 3, "quarter", FALSE, "futu">>,
            <<"Q", 1, "none", FALSE, "longbridge">>, <<"Q", 3, "none", TRUE, "algorithm">>}}

\* Two rows of the old spelling, and one of the canonical at the same or at another date, of the
\* same or of another period.
SpelledRow(i, s, d, p, a, c, predicted) ==
  [id |-> i, symbol |-> s, date |-> d, type |-> "Q", period |-> p, act |-> a, currency |-> c,
   is_predicted |-> predicted]
MCOldRows ==
  {{SpelledRow(1, "dirty", 1, 1, a[1], a[2], FALSE), SpelledRow(2, "dirty", 2, 2, NoFigure, NoFigure, x),
    SpelledRow(3, "canonical", d, p, c[1], c[2], y)} :
     a \in {<<NoFigure, NoFigure>>, <<1, "CNY">>}, c \in {<<NoFigure, NoFigure>>, <<2, "USD">>},
     d \in {1, 2, 3}, p \in {1, 2, 3}, x \in BOOLEAN, y \in BOOLEAN}

\* Releases and disclosures that agree with some of those rows and not with others.
Told(d, t, p) == [date |-> d, type |-> t, period |-> p]
MCAnswers ==
  {{Told(1, "Q", 1), Told(2, "A", 1), Told(3, "Q", 2)}, {Told(1, "Q", 2), Told(2, "Q", 2), Told(3, "Q", 3)},
   {Told(1, "A", 4), Told(2, "Q", 1), Told(3, "Q", 3)}}
=============================================================================
