----------------------------- MODULE PartsProofs -----------------------------
(***************************************************************************)
(* That the composition of MCParts is of its parts: a behaviour of it is   *)
(* one of every part that has an initial state of its own there, and       *)
(* leaves the tables of the others empty, so that what is proved of each   *)
(* part holds of the composition.                                          *)
(***************************************************************************)
EXTENDS MCParts, WatchlistProofs, RepairProofs, StageProofs

\* A step of one part leaves the others as they are.
LEMMA PartsSteps ==
  [PartsNext]_partVars =>
    /\ [FeedsNext]_feedVars /\ [KeysNext]_keyVars /\ [ReconcileNext]_reconcileVars
    /\ [SpellingsNext]_spellingVars /\ [Next]_vars /\ [FreshNext]_freshVars
    /\ part # "keys" => UNCHANGED keyVars
    /\ part # "repairs" => UNCHANGED reconcileVars
    /\ part # "spellings" => UNCHANGED spellingVars
    /\ UNCHANGED part
<1> SUFFICES ASSUME [PartsNext]_partVars
             PROVE  /\ [FeedsNext]_feedVars /\ [KeysNext]_keyVars /\ [ReconcileNext]_reconcileVars
                    /\ [SpellingsNext]_spellingVars /\ [Next]_vars /\ [FreshNext]_freshVars
                    /\ part # "keys" => UNCHANGED keyVars
                    /\ part # "repairs" => UNCHANGED reconcileVars
                    /\ part # "spellings" => UNCHANGED spellingVars
                    /\ UNCHANGED part
  OBVIOUS
<1>1. CASE InFeeds(FeedsNext)
  BY ONLY <1>1 DEF InFeeds
<1>2. CASE InKeys(KeysNext)
  BY ONLY <1>2 DEF InKeys
<1>3. CASE InRepairs(ReconcileNext)
  BY ONLY <1>3 DEF InRepairs
<1>4. CASE InSpellings(SpellingsNext)
  BY ONLY <1>4 DEF InSpellings
<1>5. CASE InPacing(Next)
  BY ONLY <1>5 DEF InPacing
<1>6. CASE InFreshness(FreshNext)
  BY ONLY <1>6 DEF InFreshness
<1>7. CASE UNCHANGED partVars
  BY ONLY <1>7 DEF partVars
<1> QED BY ONLY <1>1, <1>2, <1>3, <1>4, <1>5, <1>6, <1>7, [PartsNext]_partVars DEF PartsNext

\* What the run composes are behaviours of every part, but for the tables of a part it is not
\* about, which stay empty.
THEOREM PartsAreTheirOwn ==
  PartsSpec => /\ FeedsSpec /\ Spec /\ FreshSpec
               /\ KeysSpec \/ []NoKeys
               /\ ReconcileSpec \/ []NoRepairs
               /\ SpellingsSpec \/ []NoSpellings
<1>1. PartsInit => /\ FeedsInit /\ Init /\ FreshInit
                   /\ KeysInit \/ (NoKeys /\ part # "keys")
                   /\ ReconcileInit \/ (NoRepairs /\ part # "repairs")
                   /\ SpellingsInit \/ (NoSpellings /\ part # "spellings")
  BY DEF PartsInit
<1>2. NoKeys /\ part # "keys" /\ [PartsNext]_partVars => (NoKeys /\ part # "keys")'
  BY PartsSteps DEF NoKeys, keyVars
<1>3. NoRepairs /\ part # "repairs" /\ [PartsNext]_partVars => (NoRepairs /\ part # "repairs")'
  BY PartsSteps DEF NoRepairs, reconcileVars, Idle
<1>4. NoSpellings /\ part # "spellings" /\ [PartsNext]_partVars => (NoSpellings /\ part # "spellings")'
  BY PartsSteps DEF NoSpellings, spellingVars
<1> QED BY <1>1, <1>2, <1>3, <1>4, PartsSteps, PTL
        DEF PartsSpec, FeedsSpec, Spec, FreshSpec, KeysSpec, ReconcileSpec, SpellingsSpec

\* The six parts keep their types and unique keys also where they are composed.
THEOREM PartsTypes == PartsSpec => []PartsTypeOK
<1>1. NoKeys => KeysTypeOK
  <2>1. NoKeys => started \in BOOLEAN /\ failed \in BOOLEAN /\ edits = 0
    BY ONLY Zenon DEF NoKeys
  <2>2. NoKeys => Unique(rows) /\ \A q, r \in rows : q.id = r.id => q = r
    BY ONLY DEF NoKeys, Unique
  <2>3. 0 \in 0 .. MaxKeyEdits
    BY SymbolKeysAssumption DEF SymbolKeysAssumption
  <2> QED BY ONLY <2>1, <2>2, <2>3, Zenon DEF KeysTypeOK
<1>2. NoRepairs => ReconcileTypeOK
  BY ReconcileAssumption DEF NoRepairs, ReconcileTypeOK, Legal, KeysHold, SnapshotsHold, ReconcileAssumption
<1>3. NoSpellings => SpellingsTypeOK
  <2>1. NoSpellings => aborted \in BOOLEAN /\ merges = 0 /\ writes = 0 /\ spelled = {} /\ attached = {}
    BY ONLY Zenon DEF NoSpellings
  <2>2. 0 \in 0 .. MaxMerges /\ 0 \in 0 .. MaxWrites
    BY SpellingsAssumption DEF SpellingsAssumption
  <2> QED BY ONLY <2>1, <2>2, Zenon DEF SpellingsTypeOK
<1>4. FeedsTypeOK /\ KeysTypeOK /\ ReconcileTypeOK /\ SpellingsTypeOK /\ TypeOK /\ FreshTypeOK => PartsTypeOK
  BY DEF PartsTypeOK
<1> QED BY <1>1, <1>2, <1>3, <1>4, PartsAreTheirOwn, FeedsTypes, KeysTypes, RepairTypes, SpellingsTypes,
           TypeCorrect, FreshTypes, PTL

=============================================================================
