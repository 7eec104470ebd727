----------------------------- MODULE StageProofs -----------------------------
(***************************************************************************)
(* Proofs about two models of the pipeline's stages.  FutuPacing, for      *)
(* every number of symbols, budget, window, retry limit and breaker: the   *)
(* types, the quota of every window, the distance of a retry from the      *)
(* calls before it, and the counters of the audit.  Freshness, for every   *)
(* pipeline, range of days, number of markets and threshold: types, that   *)
(* green health means every stage delivered, and that a round which exits  *)
(* 0 delivered itself.                                                     *)
(***************************************************************************)
EXTENDS FutuPacing, Freshness, SequenceTheorems, TLAPS

----------------------------------------------------------------------------
(* FutuPacing: the limiter                                                 *)

\* What the tracker holds is bounded, and every call it no longer holds is a window old.
Tracked ==
  /\ held <= MaxCalls
  /\ \A i \in 1 .. Len(age) - held : age[i] = Window

\* Nothing older than a window is behind a call that is retried.
Spaced ==
  /\ attempt > 0 /\ pc = "acquire" => held = 0
  /\ attempt > 0 /\ pc = "call" => held <= 1
  /\ attempt > 0 => pc \in {"acquire", "call", "done"}

IInv == TypeOK /\ Tracked /\ Spaced

\* The lets of time: ages stay ages, a call a window old stays one, and none gets younger.
LEMMA TimePasses ==
  ASSUME PacingAssumption, NEW a \in Seq(0 .. Window), NEW d \in Nat
  PROVE  /\ Older(a, d) \in Seq(0 .. Window)
         /\ Len(Older(a, d)) = Len(a)
         /\ \A i \in 1 .. Len(a) : a[i] = Window => Older(a, d)[i] = Window
         /\ \A i \in 1 .. Len(a) : a[i] + d >= Window => Older(a, d)[i] = Window
<1>1. /\ Older(a, d) = [i \in 1 .. Len(a) |-> IF a[i] + d < Window THEN a[i] + d ELSE Window]
      /\ Window \in Nat
  BY DEF Older, PacingAssumption
<1>2. \A i \in 1 .. Len(a) : a[i] \in 0 .. Window
  OBVIOUS
<1> QED BY <1>1, <1>2

\* Evicting leaves nothing that is younger than a window out of the tracker.
LEMMA EvictedAreOld ==
  ASSUME NEW a \in Seq(0 .. Window), NEW h \in 0 .. Len(a), NEW k \in 0 .. h, Evicts(a, h, k),
         \A i \in 1 .. Len(a) - h : a[i] = Window
  PROVE  \A i \in 1 .. Len(a) - k : a[i] = Window
<1> SUFFICES ASSUME NEW i \in 1 .. Len(a) - k, i > Len(a) - h
             PROVE  a[i] = Window
  OBVIOUS
<1>1. Len(a) - i + 1 \in k + 1 .. h
  OBVIOUS
<1>2. Latest(a, Len(a) - i + 1) = Window
  BY <1>1 DEF Evicts
<1> QED BY <1>2 DEF Latest

\* What every step of the limiter does to the tracker.
LEMMA AcquireTracks ==
  ASSUME PacingAssumption, IInv, AcquireFree \/ AcquireWaits
  PROVE  /\ age' \in Seq(0 .. Window) /\ held' \in 0 .. Len(age')
         /\ Tracked'
         /\ held = 0 => held' = 1
<1> USE DEF IInv, TypeOK, Tracked
<1>1. CASE AcquireFree
  <2>1. PICK k \in 0 .. held : Evicts(age, held, k) /\ k < MaxCalls /\ held' = k + 1
    BY <1>1 DEF AcquireFree
  <2>2. age' = Append(age, 0)
    BY <1>1 DEF AcquireFree
  <2>3. \A i \in 1 .. Len(age) - k : age[i] = Window
    BY <2>1, EvictedAreOld
  <2> QED BY <2>1, <2>2, <2>3 DEF PacingAssumption
<1>2. CASE AcquireWaits
  <2>1. PICK k \in 0 .. held :
           /\ Evicts(age, held, k) /\ k >= MaxCalls
           /\ LET later == Older(age, Window - Latest(age, k)) IN
              \E j \in 0 .. k : /\ Evicts(later, k, j)
                                /\ held' = j + 1
                                /\ age' = Append(later, 0)
    BY <1>2 DEF AcquireWaits
  <2> DEFINE wait == Window - Latest(age, k)
             later == Older(age, wait)
  <2>2. PICK j \in 0 .. k : Evicts(later, k, j) /\ held' = j + 1 /\ age' = Append(later, 0)
    BY <2>1
  <2>3. k = MaxCalls /\ k > 0 /\ Len(age) - k + 1 \in 1 .. Len(age)
    BY <2>1 DEF PacingAssumption
  <2>4. Latest(age, k) \in 0 .. Window /\ wait \in Nat
    BY <2>3 DEF Latest, PacingAssumption
  <2>5. /\ later \in Seq(0 .. Window) /\ Len(later) = Len(age)
        /\ \A i \in 1 .. Len(age) : age[i] = Window => later[i] = Window
        /\ later[Len(age) - k + 1] = Window
    <3>1. age[Len(age) - k + 1] + wait >= Window
      BY <2>3, <2>4 DEF Latest, PacingAssumption
    <3> HIDE DEF wait
    <3> QED BY <2>3, <2>4, <3>1, TimePasses
  <2>6. \A i \in 1 .. Len(age) - k : later[i] = Window
    <3>1. \A i \in 1 .. Len(age) - k : age[i] = Window
      BY <2>1, EvictedAreOld
    <3> HIDE DEF later
    <3> QED BY <2>5, <3>1, <2>3
  <2> HIDE DEF later
  <2>7. j < k
    <3>1. Latest(later, k) = Window
      BY <2>5 DEF Latest
    <3>2. j > 0 => Latest(later, j) < Window
      BY <2>2 DEF Evicts
    <3> QED BY <3>1, <3>2, <2>3 DEF PacingAssumption
  <2>8. \A i \in 1 .. Len(later) - j : later[i] = Window
    <3>1. k \in 0 .. Len(later)
      BY <2>3, <2>5
    <3>2. \A i \in 1 .. Len(later) - k : later[i] = Window
      BY <2>5, <2>6
    <3> QED BY <2>2, <2>5, <3>1, <3>2, EvictedAreOld
  <2>9. /\ age' \in Seq(0 .. Window) /\ Len(age') = Len(later) + 1
        /\ \A i \in 1 .. Len(later) : age'[i] = later[i]
    <3>1. 0 \in 0 .. Window /\ later \in Seq(0 .. Window)
      BY <2>5 DEF PacingAssumption
    <3> QED BY <2>2, <3>1
  <2>10. held' = j + 1 /\ j \in Nat /\ k <= Len(later) /\ k = MaxCalls /\ Len(later) \in Nat
    BY <2>2, <2>3, <2>5
  <2>11. held' \in 0 .. Len(age') /\ held' <= MaxCalls
    BY <2>7, <2>9, <2>10 DEF PacingAssumption
  <2>12. \A i \in 1 .. Len(age') - held' : age'[i] = Window
    <3>1. Len(age') - held' = Len(later) - j
      BY <2>9, <2>10
    <3>2. \A i \in 1 .. Len(later) - j : i \in 1 .. Len(later)
      BY <2>10
    <3> HIDE DEF IInv, TypeOK, Tracked
    <3> QED BY <2>8, <2>9, <3>1, <3>2, Zenon
  <2>13. held # 0
    BY <2>3
  <2> QED BY <2>9, <2>11, <2>12, <2>13
<1> QED BY <1>1, <1>2

\* What time does to the tracker.
LEMMA TimeTracks ==
  ASSUME PacingAssumption, IInv, NEW d \in Nat, age' = Older(age, d), held' = held
  PROVE  /\ age' \in Seq(0 .. Window) /\ held' \in 0 .. Len(age')
         /\ Tracked'
<1>1. /\ age' \in Seq(0 .. Window) /\ Len(age') = Len(age)
      /\ \A i \in 1 .. Len(age) : age[i] = Window => age'[i] = Window
  BY TimePasses DEF IInv, TypeOK
<1> QED BY <1>1 DEF IInv, TypeOK, Tracked

\* After a whole window every call is a window old.
LEMMA WindowTracks ==
  ASSUME PacingAssumption, IInv, NEW d \in Nat, age' = Older(age, d + Window), held' = 0
  PROVE  /\ age' \in Seq(0 .. Window) /\ held' \in 0 .. Len(age')
         /\ Tracked'
<1>1. /\ age' \in Seq(0 .. Window) /\ Len(age') = Len(age)
      /\ \A i \in 1 .. Len(age) : age[i] + (d + Window) >= Window => age'[i] = Window
  BY TimePasses DEF IInv, TypeOK, PacingAssumption
<1>2. \A i \in 1 .. Len(age) : age[i] \in Nat
  BY DEF IInv, TypeOK, PacingAssumption
<1> QED BY <1>1, <1>2 DEF Tracked, PacingAssumption

\* A counter may be set to any number.
LEMMA SetCounter ==
  ASSUME NEW st \in StageStats, NEW n \in Nat
  PROVE  /\ [st EXCEPT !.attempted = n] \in StageStats
         /\ [st EXCEPT !.failed = n] \in StageStats
         /\ [st EXCEPT !.unsupported = n] \in StageStats
         /\ [st EXCEPT !.limited = n] \in StageStats
         /\ [st EXCEPT !.limitedCalls = n] \in StageStats
         /\ [st EXCEPT !.retries = n] \in StageStats
         /\ [st EXCEPT !.consecutive = n] \in StageStats
BY Zenon DEF StageStats

\* Counting an outcome keeps the counters counters.
LEMMA CountedTypes ==
  ASSUME NEW st \in StageStats, NEW outcome \in Outcomes
  PROVE  Counted(st, outcome) \in StageStats
<1> DEFINE n1 == st.failed + (IF outcome = "failed" THEN 1 ELSE 0)
           n2 == st.unsupported + (IF outcome = "unsupported" THEN 1 ELSE 0)
           n3 == st.limited + (IF outcome = "rate_limited" THEN 1 ELSE 0)
<1>1. n1 \in Nat /\ n2 \in Nat /\ n3 \in Nat
  BY DEF StageStats
<1>2. Counted(st, outcome) = [st EXCEPT !.failed = n1, !.unsupported = n2, !.limited = n3]
  BY DEF Counted, StageStats
<1> HIDE DEF n1, n2, n3
<1>3. [st EXCEPT !.failed = n1, !.unsupported = n2, !.limited = n3] \in StageStats
  BY <1>1, Zenon DEF StageStats
<1> QED BY <1>2, <1>3

\* The end of a symbol keeps what it writes well typed.
LEMMA EndSymbolTypes ==
  ASSUME IInv, PacingAssumption, NEW st \in StageStats, NEW outcome \in Outcomes,
         EndSymbol(st, outcome)
  PROVE  /\ stats' \in [Stages -> StageStats] /\ fates' \in [Stages -> Seq(Outcomes)]
         /\ attempt' = 0 /\ pc' \in {"leave", "next"} /\ 0 \in 0 .. Retries
<1>1. Counted(st, outcome) \in StageStats
  BY CountedTypes
<1> QED BY <1>1 DEF EndSymbol, IInv, TypeOK, PacingAssumption

\* Reading a statement leaves a symbol served or failed.
LEMMA StatementReads == StatementOutcomes \subseteq {"ok", "failed"}
<1>1. \A eps, revenue : StatementOutcome(eps, revenue) \in {"ok", "failed"}
  BY Zenon DEF StatementOutcome
<1>2. ASSUME NEW o \in StatementOutcomes PROVE o \in {"ok", "failed"}
  <2>1. PICK eps \in Items \X Items :
          o \in { StatementOutcome(eps, revenue) : revenue \in Items }
    BY <1>2, Zenon DEF StatementOutcomes
  <2> QED BY <1>1, <2>1, Zenon
<1> QED BY <1>2

LEMMA InvInit == ASSUME PacingAssumption, Init PROVE IInv
BY DEF Init, IInv, TypeOK, Tracked, Spaced, PacingAssumption, Stages, StageStats, NoStats,
       Running, Verdicts

LEMMA InvNext == ASSUME PacingAssumption, IInv, [Next]_vars PROVE IInv'
<1> USE DEF IInv
<1>1. CASE AcquireFree \/ AcquireWaits
  <2>1. /\ age' \in Seq(0 .. Window) /\ held' \in 0 .. Len(age') /\ Tracked'
        /\ held = 0 => held' = 1
    BY <1>1, AcquireTracks
  <2>2. pc = "acquire" /\ pc' = "call" /\ UNCHANGED <<stage, attempt, stats, fates, verdict>>
    BY <1>1 DEF AcquireFree, AcquireWaits
  <2>3. TypeOK'
    BY <2>1, <2>2 DEF TypeOK
  <2>4. Spaced'
    BY <2>1, <2>2 DEF Spaced, TypeOK
  <2> QED BY <2>1, <2>3, <2>4
<1>2. CASE DatesServed \/ ActualsServed \/ RefusedFinally \/ NotServed
  <2>1. PICK d \in CallTimes : age' = Older(age, d)
    BY <1>2 DEF DatesServed, ActualsServed, Served, RefusedFinally, NotServed, Takes
  <2>2. d \in Nat /\ held' = held /\ stage' = stage /\ verdict' = verdict
    BY <1>2 DEF DatesServed, ActualsServed, Served, RefusedFinally, NotServed, PacingAssumption
  <2>3. /\ age' \in Seq(0 .. Window) /\ held' \in 0 .. Len(age') /\ Tracked'
    BY <2>1, <2>2, TimeTracks
  <2>4. \E st \in StageStats, outcome \in Outcomes : EndSymbol(st, outcome)
    <3>0. stats[stage] \in StageStats
      BY DEF TypeOK
    <3>1. CASE DatesServed \/ ActualsServed
      <4>1. [stats[stage] EXCEPT !.consecutive = 0] \in StageStats
        BY <3>0 DEF StageStats
      <4>2. StatementOutcomes \subseteq Outcomes
        BY StatementReads DEF Outcomes
      <4> QED BY <3>1, <4>1, <4>2 DEF DatesServed, ActualsServed, Served, Outcomes
    <3>2. CASE RefusedFinally
      <4> DEFINE st == [stats[stage] EXCEPT !.limitedCalls = @ + 1, !.consecutive = @ + 1]
                 last == [st EXCEPT !.breaker = @ \/ st.consecutive >= Breaker]
      <4>1. st \in StageStats
        <5> DEFINE n1 == stats[stage].limitedCalls + 1
                   n2 == stats[stage].consecutive + 1
        <5>1. n1 \in Nat /\ n2 \in Nat
          BY <3>0 DEF StageStats
        <5> HIDE DEF n1, n2
        <5>2. [[stats[stage] EXCEPT !.limitedCalls = n1] EXCEPT !.consecutive = n2] \in StageStats
          BY <3>0, <5>1, SetCounter
        <5>3. st = [[stats[stage] EXCEPT !.limitedCalls = n1] EXCEPT !.consecutive = n2]
          BY <3>0 DEF StageStats, n1, n2
        <5> QED BY <5>2, <5>3
      <4>2. last \in StageStats
        <5> HIDE DEF st
        <5>1. (st.breaker \/ st.consecutive >= Breaker) \in BOOLEAN
          OBVIOUS
        <5> QED BY <4>1, <5>1 DEF StageStats
      <4>3. EndSymbol(last, "rate_limited")
        BY <3>2 DEF RefusedFinally
      <4> QED BY <4>2, <4>3 DEF Outcomes
    <3>3. CASE NotServed
      BY <3>0, <3>3 DEF NotServed, Outcomes
    <3> QED BY <1>2, <3>1, <3>2, <3>3
  <2>5. /\ stats' \in [Stages -> StageStats] /\ fates' \in [Stages -> Seq(Outcomes)]
        /\ attempt' = 0 /\ pc' \in {"leave", "next"} /\ 0 \in 0 .. Retries
    BY <2>4, EndSymbolTypes
  <2>6. TypeOK'
    BY <2>2, <2>3, <2>5 DEF TypeOK
  <2>7. Spaced'
    BY <2>5 DEF Spaced
  <2> QED BY <2>3, <2>6, <2>7
<1>3. CASE RefusedRetry
  <2>1. PICK d \in CallTimes : age' = Older(age, d + Window)
    BY <1>3 DEF RefusedRetry, Takes
  <2>2. /\ d \in Nat /\ held' = 0 /\ pc' = "acquire" /\ attempt' = attempt + 1
        /\ attempt < Retries /\ UNCHANGED <<stage, fates, verdict>>
        /\ stats' = [stats EXCEPT ![stage].retries = @ + 1]
    BY <1>3 DEF RefusedRetry, PacingAssumption
  <2>3. /\ age' \in Seq(0 .. Window) /\ held' \in 0 .. Len(age') /\ Tracked'
    BY <2>1, <2>2, WindowTracks
  <2>4. stats' \in [Stages -> StageStats]
    <3>1. stats[stage] \in StageStats /\ stats[stage].retries + 1 \in Nat
      BY DEF TypeOK, StageStats
    <3>2. [stats[stage] EXCEPT !.retries = stats[stage].retries + 1] \in StageStats
      BY <3>1, SetCounter
    <3> QED BY <2>2, <3>2 DEF TypeOK
  <2>5. TypeOK'
    BY <2>2, <2>3, <2>4 DEF TypeOK, PacingAssumption
  <2> QED BY <2>2, <2>3, <2>5 DEF Spaced
<1>4. CASE Connect
  BY <1>4 DEF Connect, TypeOK, Tracked, Spaced, Verdicts
<1>5. CASE NextSymbol
  <2>1. stats' \in [Stages -> StageStats]
    <3>1. stats[stage] \in StageStats /\ stats[stage].attempted + 1 \in Nat
      BY DEF TypeOK, StageStats
    <3>2. [stats[stage] EXCEPT !.attempted = stats[stage].attempted + 1] \in StageStats
      BY <3>1, SetCounter
    <3> QED BY <1>5, <3>2 DEF NextSymbol, TypeOK
  <2>3. attempt' = 0
    BY <1>5 DEF NextSymbol, TypeOK, Spaced, PacingAssumption
  <2> QED BY <1>5, <2>1, <2>3 DEF NextSymbol, TypeOK, Tracked, Spaced
<1>6. CASE LastSymbol \/ LeaveDates \/ LeaveActuals \/ StageRaises \/ Interrupted
  BY <1>6 DEF LastSymbol, LeaveDates, LeaveActuals, StageRaises, Interrupted, AuditOutcome,
              TypeOK, Tracked, Spaced, Verdicts, Stages
<1>7. CASE UNCHANGED vars
  BY <1>7 DEF vars, TypeOK, Tracked, Spaced, Stages, StageStats
<1> QED BY <1>1, <1>2, <1>3, <1>4, <1>5, <1>6, <1>7 DEF Next

----------------------------------------------------------------------------
(* The pacing                                                              *)

LEMMA IInvIsInvariant == Spec => []IInv
<1>1. Init => IInv
  BY PacingAssumption, InvInit
<1>2. IInv /\ [Next]_vars => IInv'
  BY PacingAssumption, InvNext
<1> QED BY <1>1, <1>2, PTL DEF Spec

\* Every variable keeps its type, and the tracker never holds more calls than were made.
THEOREM TypeCorrect == Spec => []TypeOK
<1>1. IInv => TypeOK
  BY DEF IInv
<1> QED BY <1>1, IInvIsInvariant, PTL

\* Whatever the answers and however long they take, no window holds more calls than the budget:
\* what the tracker has forgotten is a window old, and it holds at most MaxCalls.
THEOREM QuotaKept == Spec => []WindowQuota
<1>1. IInv => WindowQuota
  BY PacingAssumption DEF IInv, TypeOK, Tracked, WindowQuota, PacingAssumption
<1> QED BY <1>1, IInvIsInvariant, PTL

\* A retry has a whole window between it and every earlier call of the process.
THEOREM RetriesSpaced == Spec => []RetryWaitsAWindow
<1>1. IInv => RetryWaitsAWindow
  BY PacingAssumption DEF IInv, TypeOK, Tracked, Spaced, RetryWaitsAWindow, PacingAssumption
<1> QED BY <1>1, IInvIsInvariant, PTL

----------------------------------------------------------------------------
(* The audit                                                               *)

InCall == pc \in {"acquire", "call"}

\* The counters of a stage are what became of its symbols.
Counts(s) ==
  /\ stats[s].failed > 0 <=> "failed" \in Fates(s)
  /\ stats[s].limitedCalls > 0 <=> "rate_limited" \in Fates(s)
  /\ stats[s].breaker => stats[s].limitedCalls > 0

\* Every symbol a stage attempted has its fate, but for the one in hand.
Complete(s) == Len(fates[s]) = stats[s].attempted - (IF s = stage /\ InCall THEN 1 ELSE 0)

\* A stage is left with every symbol attempted, or with its breaker tripped.
Left(s) == stats[s].attempted = NSymbols \/ stats[s].breaker

StatsInv ==
  /\ \A s \in Stages : Counts(s)
  /\ pc # "done" => \A s \in Stages : Complete(s)
  /\ pc = "leave" => Left(stage)
  /\ stage = "actuals" => Left("dates")
  /\ pc # "done" => verdict = Running
  /\ VerdictIsHonest

LEMMA FatesAppend ==
  ASSUME NEW f \in Seq(Outcomes), NEW o \in Outcomes
  PROVE  { Append(f, o)[i] : i \in 1 .. Len(Append(f, o)) } = { f[i] : i \in 1 .. Len(f) } \cup {o}
<1>1. /\ Len(Append(f, o)) = Len(f) + 1 /\ Append(f, o)[Len(f) + 1] = o
      /\ \A i \in 1 .. Len(f) : Append(f, o)[i] = f[i]
      /\ Len(f) \in Nat
  OBVIOUS
<1>2. \A i \in 1 .. Len(f) + 1 : i = Len(f) + 1 \/ i \in 1 .. Len(f)
  BY <1>1
<1> QED BY <1>1, <1>2

\* A symbol that ends with its refusal counted, when it was refused, keeps the books.
LEMMA EndSymbolAudits ==
  ASSUME PacingAssumption, TypeOK, StatsInv, pc = "call",
         NEW st \in StageStats, NEW outcome \in Outcomes, EndSymbol(st, outcome),
         st.failed = stats[stage].failed, st.attempted = stats[stage].attempted,
         st.limitedCalls > 0 <=> (stats[stage].limitedCalls > 0 \/ outcome = "rate_limited"),
         st.breaker => st.limitedCalls > 0,
         stage' = stage, verdict' = verdict
  PROVE  StatsInv'
<1> DEFINE cs == Counted(st, outcome)
<1>1. /\ cs \in StageStats
      /\ cs.failed > 0 <=> (st.failed > 0 \/ outcome = "failed")
      /\ cs.limitedCalls = st.limitedCalls /\ cs.breaker = st.breaker
      /\ cs.attempted = st.attempted
  <2> DEFINE n1 == st.failed + (IF outcome = "failed" THEN 1 ELSE 0)
             n2 == st.unsupported + (IF outcome = "unsupported" THEN 1 ELSE 0)
             n3 == st.limited + (IF outcome = "rate_limited" THEN 1 ELSE 0)
  <2>1. st.failed \in Nat /\ (n1 > 0 <=> (st.failed > 0 \/ outcome = "failed"))
    BY DEF StageStats
  <2>2. cs = [st EXCEPT !.failed = n1, !.unsupported = n2, !.limited = n3]
    BY DEF Counted, StageStats
  <2> HIDE DEF n1, n2, n3
  <2>3. /\ cs.failed = n1 /\ cs.limitedCalls = st.limitedCalls /\ cs.breaker = st.breaker
        /\ cs.attempted = st.attempted
    BY <2>2 DEF StageStats
  <2> QED BY <2>1, <2>3, CountedTypes
<1> HIDE DEF cs
<1>2. /\ stats' = [stats EXCEPT ![stage] = cs]
      /\ fates' = [fates EXCEPT ![stage] = Append(@, outcome)]
      /\ pc' = IF st.breaker THEN "leave" ELSE "next"
  BY DEF EndSymbol, cs
<1>3. /\ stats'[stage] = cs /\ fates'[stage] = Append(fates[stage], outcome)
      /\ \A s \in Stages \ {stage} : stats'[s] = stats[s] /\ fates'[s] = fates[s]
      /\ fates[stage] \in Seq(Outcomes)
  BY <1>2 DEF TypeOK
<1>4. { Append(fates[stage], outcome)[i] : i \in 1 .. Len(Append(fates[stage], outcome)) }
        = Fates(stage) \cup {outcome}
  BY <1>3, FatesAppend DEF Fates
<1>5. ASSUME NEW s \in Stages PROVE Counts(s)' /\ Complete(s)'
  <2>1. CASE s = stage
    <3>1. Fates(s)' = Fates(stage) \cup {outcome}
      BY <2>1, <1>3, <1>4 DEF Fates
    <3>2. Counts(s)'
      BY <2>1, <3>1, <1>1, <1>3 DEF Counts, StatsInv
    <3>3. Complete(s)'
      <4>1. Len(fates[stage]) = stats[stage].attempted - 1 /\ Len(fates[stage]) \in Nat
        BY <1>3 DEF Complete, StatsInv, InCall, TypeOK
      <4>2. Len(fates'[stage]) = Len(fates[stage]) + 1
        BY <1>3
      <4>3. stats[stage].attempted \in Nat /\ ~ InCall'
        BY <1>2 DEF TypeOK, StageStats, InCall
      <4> QED BY <2>1, <4>1, <4>2, <4>3, <1>1, <1>3 DEF Complete
    <3> QED BY <3>2, <3>3
  <2>2. CASE s # stage
    <3>1. Fates(s)' = Fates(s)
      BY <2>2, <1>3 DEF Fates
    <3> QED BY <2>2, <3>1, <1>3 DEF Counts, Complete, StatsInv
  <2> QED BY <2>1, <2>2
<1>6. verdict = Running /\ VerdictIsHonest'
  BY DEF StatsInv, VerdictIsHonest, Running
<1>7. pc' = "leave" => Left(stage)'
  BY <1>1, <1>2, <1>3 DEF Left
<1>8. stage = "actuals" => Left("dates")'
  BY <1>3 DEF StatsInv, Left, Stages
<1> QED BY <1>2, <1>5, <1>6, <1>7, <1>8 DEF StatsInv

LEMMA AuditInit == ASSUME Init PROVE StatsInv
BY DEF Init, StatsInv, Counts, Complete, Fates, InCall, VerdictIsHonest, NoStats, Stages, Running

LEMMA AuditNext ==
  ASSUME PacingAssumption, IInv, StatsInv, [Next]_vars
  PROVE  StatsInv'
<1>0. TypeOK /\ stats[stage] \in StageStats
  BY DEF IInv, TypeOK
<1>1. CASE AcquireFree \/ AcquireWaits
  <2>1. /\ pc = "acquire" /\ pc' = "call"
        /\ UNCHANGED <<stage, attempt, stats, fates, verdict>>
    BY <1>1 DEF AcquireFree, AcquireWaits
  <2>2. \A s \in Stages : Counts(s)'
    BY <2>1 DEF StatsInv, Counts, Fates
  <2>3. \A s \in Stages : Complete(s)'
    BY <2>1 DEF StatsInv, Complete, InCall
  <2>4. stage' = "actuals" => Left("dates")'
    BY <2>1 DEF StatsInv, Left
  <2>5. VerdictIsHonest'
    BY <2>1 DEF StatsInv, VerdictIsHonest, Fates
  <2> QED BY <2>1, <2>2, <2>3, <2>4, <2>5 DEF StatsInv
<1>2. CASE DatesServed \/ ActualsServed
  <2>0. StatementOutcomes \subseteq {"ok", "failed"}
    BY StatementReads
  <2>1. PICK outcome \in {"ok", "failed"} :
          EndSymbol([stats[stage] EXCEPT !.consecutive = 0], outcome)
    BY <1>2, <2>0 DEF DatesServed, ActualsServed, Served
  <2> DEFINE st == [stats[stage] EXCEPT !.consecutive = 0]
  <2>2. st \in StageStats /\ outcome \in Outcomes
    BY <1>0, SetCounter DEF Outcomes
  <2>3. /\ st.failed = stats[stage].failed /\ st.attempted = stats[stage].attempted
        /\ st.limitedCalls = stats[stage].limitedCalls /\ st.breaker = stats[stage].breaker
    BY <1>0 DEF StageStats
  <2>4. EndSymbol(st, outcome)
    BY <2>1
  <2>5. st.breaker => st.limitedCalls > 0
    BY <2>3, <1>0 DEF StatsInv, Counts, TypeOK
  <2>6. pc = "call" /\ stage' = stage /\ verdict' = verdict
    BY <1>2 DEF DatesServed, ActualsServed, Served
  <2> HIDE DEF st
  <2> QED BY <1>0, <2>1, <2>2, <2>3, <2>4, <2>5, <2>6, EndSymbolAudits
<1>3. CASE RefusedFinally
  <2> DEFINE n1 == stats[stage].limitedCalls + 1
             n2 == stats[stage].consecutive + 1
             st0 == [stats[stage] EXCEPT !.limitedCalls = n1, !.consecutive = n2]
             b == stats[stage].breaker \/ n2 >= Breaker
             st == [st0 EXCEPT !.breaker = b]
  <2>1. n1 \in Nat /\ n2 \in Nat /\ n1 > 0 /\ b \in BOOLEAN
    BY <1>0 DEF StageStats
  <2>2. st0.consecutive = n2 /\ st0.breaker = stats[stage].breaker
    BY <1>0 DEF StageStats
  <2>3. EndSymbol(st, "rate_limited") /\ pc = "call" /\ stage' = stage /\ verdict' = verdict
    <3>1. EndSymbol([st0 EXCEPT !.breaker = @ \/ st0.consecutive >= Breaker], "rate_limited")
      BY <1>3 DEF RefusedFinally
    <3>2. [st0 EXCEPT !.breaker = @ \/ st0.consecutive >= Breaker] = st
      BY <2>2
    <3> HIDE DEF st, st0
    <3> QED BY <1>3, <3>1, <3>2 DEF RefusedFinally
  <2> HIDE DEF n1, n2, b
  <2>4. /\ st \in StageStats
        /\ st.failed = stats[stage].failed /\ st.attempted = stats[stage].attempted
        /\ st.limitedCalls = n1
    <3>1. st0 \in StageStats
      BY <1>0, <2>1, Zenon DEF StageStats
    <3>2. st \in StageStats
      <4> HIDE DEF st0
      <4> QED BY <3>1, <2>1, Zenon DEF StageStats
    <3> QED BY <3>2, <1>0, <2>1 DEF StageStats
  <2> HIDE DEF st
  <2> QED BY <1>0, <2>1, <2>3, <2>4, EndSymbolAudits DEF Outcomes
<1>4. CASE NotServed
  <2>1. PICK outcome \in {"unsupported", "failed"} : EndSymbol(stats[stage], outcome)
    BY <1>4 DEF NotServed
  <2>2. stats[stage].breaker => stats[stage].limitedCalls > 0
    BY <1>0 DEF StatsInv, Counts, TypeOK
  <2>3. outcome \in Outcomes
    BY DEF Outcomes
  <2>4. pc = "call" /\ stage' = stage /\ verdict' = verdict
    BY <1>4 DEF NotServed
  <2> QED BY <1>0, <2>1, <2>2, <2>3, <2>4, EndSymbolAudits
<1>5. CASE RefusedRetry
  <2>1. /\ \A s \in Stages : /\ stats'[s].failed = stats[s].failed
                             /\ stats'[s].limitedCalls = stats[s].limitedCalls
                             /\ stats'[s].breaker = stats[s].breaker
                             /\ stats'[s].attempted = stats[s].attempted
    BY <1>0, <1>5 DEF RefusedRetry, TypeOK, StageStats
  <2>2. /\ pc = "call" /\ pc' = "acquire" /\ UNCHANGED <<stage, fates, verdict>>
    BY <1>5 DEF RefusedRetry
  <2>3. \A s \in Stages : Counts(s)'
    BY <2>1, <2>2 DEF StatsInv, Counts, Fates
  <2>4. \A s \in Stages : Complete(s)'
    BY <2>1, <2>2 DEF StatsInv, Complete, InCall
  <2>5. stage' = "actuals" => Left("dates")'
    BY <2>1, <2>2 DEF StatsInv, Left, Stages
  <2>6. VerdictIsHonest'
    BY <2>2 DEF StatsInv, VerdictIsHonest, Fates
  <2> QED BY <2>2, <2>3, <2>4, <2>5, <2>6 DEF StatsInv
<1>6. CASE NextSymbol
  <2>1. /\ \A s \in Stages : /\ stats'[s].failed = stats[s].failed
                             /\ stats'[s].limitedCalls = stats[s].limitedCalls
                             /\ stats'[s].breaker = stats[s].breaker
        /\ \A s \in Stages \ {stage} : stats'[s].attempted = stats[s].attempted
        /\ stats'[stage].attempted = stats[stage].attempted + 1
        /\ stats[stage].attempted \in Nat
    BY <1>0, <1>6 DEF NextSymbol, TypeOK, StageStats
  <2>2. /\ pc = "next" /\ pc' = "acquire"
        /\ UNCHANGED <<age, held, stage, attempt, fates, verdict>>
    BY <1>6 DEF NextSymbol
  <2>3. \A s \in Stages : Counts(s)' /\ Complete(s)'
    <3>1. \A s \in Stages : Counts(s)'
      BY <2>1, <2>2 DEF StatsInv, Counts, Fates
    <3>2. ASSUME NEW s \in Stages PROVE Complete(s)'
      <4>0. stats[s].attempted \in Nat
        BY <1>0 DEF TypeOK, StageStats
      <4>1. Len(fates[s]) = stats[s].attempted
        <5>1. ~ InCall
          BY <2>2 DEF InCall
        <5>2. Complete(s)
          BY <2>2 DEF StatsInv
        <5> QED BY <4>0, <5>1, <5>2 DEF Complete
      <4>2. InCall'
        BY <2>2 DEF InCall
      <4>3. CASE s = stage
        BY <2>1, <2>2, <4>0, <4>1, <4>2, <4>3 DEF Complete
      <4>4. CASE s # stage
        BY <2>1, <2>2, <4>0, <4>1, <4>4 DEF Complete
      <4> QED BY <4>3, <4>4
    <3> QED BY <3>1, <3>2
  <2>4. stage' = "actuals" => Left("dates")'
    BY <2>1, <2>2 DEF StatsInv, Left, Stages
  <2>5. VerdictIsHonest'
    BY <2>2 DEF StatsInv, VerdictIsHonest, Running
  <2> QED BY <2>2, <2>3, <2>4, <2>5 DEF StatsInv
<1>7. CASE LeaveActuals
  <2>1. /\ stage = "actuals" /\ pc = "leave" /\ verdict' = AuditOutcome(stats) /\ pc' = "done"
        /\ UNCHANGED <<age, held, stage, attempt, stats, fates>>
    BY <1>7 DEF LeaveActuals
  <2>2. \A s \in Stages : Len(fates[s]) = stats[s].attempted /\ Left(s) /\ Counts(s)
    <3>1. \A s \in Stages : stats[s].attempted \in Nat
      BY <1>0 DEF TypeOK, StageStats
    <3>2. ~ InCall /\ Left("actuals") /\ Left("dates")
      BY <2>1 DEF StatsInv, InCall
    <3> QED BY <2>1, <3>1, <3>2 DEF StatsInv, Complete, Stages
  <2>3. VerdictIsHonest'
    <3>1. CASE \E s \in Stages : stats[s].breaker \/ stats[s].limitedCalls > 0
      <4>1. verdict' = "futu_rate_limited"
        BY <2>1, <3>1 DEF AuditOutcome
      <4> QED BY <2>1, <2>2, <3>1, <4>1 DEF VerdictIsHonest, Counts, Fates
    <3>2. CASE ~ \E s \in Stages : stats[s].breaker \/ stats[s].limitedCalls > 0
      <4>1. \A s \in Stages : /\ Len(fates[s]) = NSymbols
                              /\ "rate_limited" \notin Fates(s)
        BY <2>2, <3>2 DEF Left, Counts
      <4>2. CASE \E s \in Stages : stats[s].failed > 0
        <5>1. verdict' = "futu_symbol_fetch_failed"
          BY <2>1, <3>2, <4>2 DEF AuditOutcome
        <5> QED BY <2>1, <2>2, <4>1, <4>2, <5>1 DEF VerdictIsHonest, Counts, Fates
      <4>3. CASE ~ \E s \in Stages : stats[s].failed > 0
        <5>1. verdict' = "success"
          BY <2>1, <3>2, <4>3 DEF AuditOutcome
        <5>2. \A s \in Stages : Fates(s) \subseteq {"ok", "unsupported"}
          <6>1. \A s \in Stages : "failed" \notin Fates(s)
            BY <2>2, <4>3 DEF Counts
          <6>2. \A s \in Stages : Fates(s) \subseteq Outcomes
            BY <1>0 DEF Fates, TypeOK
          <6> QED BY <6>1, <6>2, <4>1 DEF Outcomes
        <5> QED BY <2>1, <4>1, <5>1, <5>2 DEF VerdictIsHonest, Fates
      <4> QED BY <4>2, <4>3
    <3> QED BY <3>1, <3>2
  <2> QED BY <2>1, <2>2, <2>3 DEF StatsInv, Counts, Left, Fates
<1>8. CASE Connect
  BY <1>8 DEF Connect, StatsInv, Counts, Complete, Left, Fates, InCall, VerdictIsHonest, Running
<1>9. CASE LastSymbol
  BY <1>9 DEF LastSymbol, StatsInv, Counts, Complete, Left, Fates, InCall, VerdictIsHonest
<1>10. CASE LeaveDates
  <2>1. \A s \in Stages : Complete(s)'
    BY <1>10, <1>0 DEF LeaveDates, StatsInv, Complete, InCall
  <2> QED BY <1>10, <2>1 DEF LeaveDates, StatsInv, Counts, Left, Fates, VerdictIsHonest
<1>11. CASE StageRaises \/ Interrupted
  BY <1>11 DEF StageRaises, Interrupted, StatsInv, Counts, Left, Fates, VerdictIsHonest
<1>12. CASE UNCHANGED vars
  BY <1>12 DEF vars, StatsInv, Counts, Complete, Left, Fates, InCall, VerdictIsHonest
<1> QED BY <1>1, <1>2, <1>3, <1>4, <1>5, <1>6, <1>7, <1>8, <1>9, <1>10, <1>11, <1>12 DEF Next

\* The verdict of a run is what became of its symbols: the counters say "refused" and "failed"
\* exactly when a symbol of the stage was, and a stage is left early only after a refusal.
THEOREM VerdictHonest == Spec => []VerdictIsHonest
<1>1. Init => StatsInv
  BY AuditInit
<1>2. IInv /\ StatsInv /\ [Next]_vars => StatsInv'
  BY PacingAssumption, AuditNext
<1>3. StatsInv => VerdictIsHonest
  BY DEF StatsInv
<1> QED BY <1>1, <1>2, <1>3, IInvIsInvariant, PTL DEF Spec

----------------------------------------------------------------------------
(* Freshness                                                               *)

Statuses == {"running", "success", "failed", "interrupted", "cancelled", "skipped"}
AuditRow == [stage : SYNC_STAGES, status : Statuses, age : Ages, asks : BOOLEAN]
Doings   == {"idle", "launch", "working", "gate"}
ExitCodes    == {"none", "zero", "one"}
Run      == [market : 1 .. Markets + 1, cursor : 1 .. Days + 1, covered : 0 .. Days,
             some : BOOLEAN, pages : BOOLEAN, resolved : BOOLEAN, written : BOOLEAN,
             failed : BOOLEAN, complete : BOOLEAN]

\* A round is at a stage until the last has returned.
RoundState == [at : 0 .. Len(Pipeline), doing : Doings, broken : BOOLEAN, code : ExitCodes]
AtAStage   == round.doing \in {"launch", "working"} => round.at # 0

\* The calendar is read to the end of its range in every market that is done: the last page
\* ends the range only when it covers it.
ReadsAll == calendarRun.complete

\* A success in the audit table is no younger than the stage's delivery.
SuccessDelivered ==
  \A i \in DOMAIN audit : audit[i].status = "success" => since[audit[i].stage] <= audit[i].age

\* While nothing has failed in it, a round delivered the stages that have returned, and the
\* exit code is that of a round at its end.
RoundDelivers ==
  /\ round.doing # "idle" => round.code = "none"
  /\ round.doing \in {"launch", "working"} /\ ~round.broken
       => \A i \in 1 .. round.at - 1 : Pipeline[i] \in delivered
  /\ round.doing = "gate" /\ ~round.broken => delivered = SYNC_STAGES

\* No stage has two running rows in q.
OneRunning(q) ==
  \A s \in SYNC_STAGES, i, j \in DOMAIN q : IsRunning(q[i], s) /\ IsRunning(q[j], s) => i = j

\* What holds of the audit table and the deliveries it is judged against,
AuditInv ==
  /\ audit \in Seq(AuditRow) /\ since \in [SYNC_STAGES -> Ages]
  /\ OneRunning(audit) /\ SuccessDelivered

\* of the round,
RoundInv ==
  /\ round \in RoundState /\ delivered \in SUBSET SYNC_STAGES
  /\ AtAStage /\ RoundDelivers /\ RoundIsHonest

\* of the run of the calendar stage, and of the derived tables.
CalendarInv == calendarRun \in Run /\ ReadsAll
TablesInv   == fetchedAge \in [DERIVED_TABLES -> Ages]

\* The inductive invariant.
FreshInvariant == AuditInv /\ RoundInv /\ CalendarInv /\ TablesInv

LEMMA PipelineStages ==
  /\ Pipeline \in Seq({"longbridge", "consensus"}) /\ Len(Pipeline) \in Nat \ {0}
  /\ \A i \in 1 .. Len(Pipeline) : Pipeline[i] \in SYNC_STAGES
  /\ \A s \in SYNC_STAGES : \E i \in 1 .. Len(Pipeline) : Pipeline[i] = s
BY FreshnessAssumption, EmptySeq DEF SYNC_STAGES

LEMMA Zero == Outdated \in Nat \ {0} /\ 0 \in Ages /\ StaleAfter \in Ages /\ Ages \subseteq Nat
             /\ \A a \in Ages : a \in Nat /\ a <= a
BY FreshnessAssumption DEF Ages, Outdated

LEMMA EntryType ==
  ASSUME NEW s \in SYNC_STAGES, NEW status \in Statuses, NEW asks \in BOOLEAN
  PROVE  Entry(s, status, asks) \in AuditRow
BY Zero DEF Entry, AuditRow

----------------------------------------------------------------------------
(* The audit table                                                         *)

\* A row written again leaves the others in their order.
LEMMA RewrittenAudit ==
  ASSUME AuditInv, NEW i \in DOMAIN audit, NEW row \in AuditRow
  PROVE  /\ Rewritten(i, row) \in Seq(AuditRow) /\ Len(Rewritten(i, row)) = Len(audit)
         /\ Len(audit) \in Nat \ {0} /\ i \in 1 .. Len(audit)
         /\ DOMAIN audit = 1 .. Len(audit) /\ DOMAIN Rewritten(i, row) = 1 .. Len(audit)
         /\ Rewritten(i, row)[Len(audit)] = row
         /\ \A j \in 1 .. Len(audit) - 1 :
              Rewritten(i, row)[j] = audit[IF j < i THEN j ELSE j + 1]
<1>. DEFINE q == [j \in 1 .. Len(audit) |->
                    IF j < i THEN audit[j] ELSE IF j < Len(audit) THEN audit[j + 1] ELSE row]
<1>1. Len(audit) \in Nat /\ DOMAIN audit = 1 .. Len(audit) /\ \A j \in 1 .. Len(audit) : audit[j] \in AuditRow
  BY ElementOfSeq, LenProperties DEF AuditInv
<1>2. Rewritten(i, row) = q
  BY <1>1 DEF Rewritten
<1>3. q \in [1 .. Len(audit) -> AuditRow]
  BY <1>1
<1>4. q \in Seq(AuditRow) /\ Len(q) = Len(audit) /\ DOMAIN q = 1 .. Len(audit)
  BY <1>1, <1>3
<1>5. i \in 1 .. Len(audit)
  BY <1>1
<1>6. q[Len(audit)] = row /\ \A j \in 1 .. Len(audit) - 1 : q[j] = audit[IF j < i THEN j ELSE j + 1]
  BY <1>1, <1>5
<1>. QED  BY <1>1, <1>2, <1>4, <1>5, <1>6

\* Where each row of the table it gives comes from.
LEMMA RewrittenSources ==
  ASSUME AuditInv, NEW i \in DOMAIN audit, NEW row \in AuditRow,
         NEW j \in DOMAIN Rewritten(i, row)
  PROVE  Rewritten(i, row)[j] = row \/ \E k \in DOMAIN audit : Rewritten(i, row)[j] = audit[k]
<1>1. j \in 1 .. Len(audit) /\ i \in 1 .. Len(audit) /\ DOMAIN audit = 1 .. Len(audit)
  BY RewrittenAudit
<1>2. CASE j = Len(audit)
  BY <1>2, RewrittenAudit
<1>3. CASE j # Len(audit)
  <2>1. j \in 1 .. Len(audit) - 1 /\ (IF j < i THEN j ELSE j + 1) \in 1 .. Len(audit)
    BY <1>1, <1>3
  <2>. QED  BY <1>1, <2>1, RewrittenAudit
<1>. QED  BY <1>2, <1>3

\* No stage gets a second running row by it, if the new row is no second one.
LEMMA RewrittenOneRunning ==
  ASSUME AuditInv, NEW i \in DOMAIN audit, NEW row \in AuditRow,
         row.status = "running" => ~RunningNow(row.stage)
  PROVE  OneRunning(Rewritten(i, row))
<1>. DEFINE q == Rewritten(i, row)
            n == Len(audit)
            src(j) == IF j < i THEN j ELSE j + 1
<1>1. /\ n \in Nat \ {0} /\ DOMAIN audit = 1 .. n /\ i \in 1 .. n /\ DOMAIN q = 1 .. n
      /\ q[n] = row /\ \A j \in 1 .. n - 1 : q[j] = audit[src(j)]
  BY RewrittenAudit
<1>2. \A j \in 1 .. n - 1 : src(j) \in 1 .. n
  BY <1>1
<1>3. \A j, k \in 1 .. n - 1 : src(j) = src(k) => j = k
  BY <1>1
<1>. HIDE DEF q, n, src
<1>4. ASSUME NEW s \in SYNC_STAGES, NEW j \in 1 .. n - 1, NEW k \in 1 .. n - 1,
             IsRunning(q[j], s), IsRunning(q[k], s)
      PROVE  j = k
  <2>1. IsRunning(audit[src(j)], s) /\ IsRunning(audit[src(k)], s) /\ src(j) \in DOMAIN audit /\ src(k) \in DOMAIN audit
    BY <1>1, <1>2, <1>4
  <2>2. src(j) = src(k)
    BY <2>1 DEF AuditInv, OneRunning
  <2>. QED  BY <1>3, <2>2
<1>5. ASSUME NEW s \in SYNC_STAGES, NEW j \in 1 .. n - 1, IsRunning(q[j], s), IsRunning(q[n], s)
      PROVE  FALSE
  <2>1. row.status = "running" /\ row.stage = s
    BY <1>1, <1>5 DEF IsRunning
  <2>2. RunningNow(s)
    BY <1>1, <1>2, <1>5 DEF RunningNow
  <2>. QED  BY <2>1, <2>2
<1>6. \A j \in 1 .. n : j \in 1 .. n - 1 \/ j = n
  BY <1>1
<1>7. OneRunning(q)
  BY <1>1, <1>4, <1>5, <1>6 DEF OneRunning
<1>. QED  BY <1>7 DEF q

\* A row appended to q.
LEMMA AppendedRow ==
  ASSUME NEW q \in Seq(AuditRow), OneRunning(q), NEW row \in AuditRow,
         row.status = "running" => \A i \in DOMAIN q : ~IsRunning(q[i], row.stage)
  PROVE  /\ Append(q, row) \in Seq(AuditRow) /\ OneRunning(Append(q, row))
         /\ \A i \in DOMAIN Append(q, row) : Append(q, row)[i] = row \/ (i \in DOMAIN q /\ Append(q, row)[i] = q[i])
<1>. DEFINE p == Append(q, row)
            n == Len(q)
<1>1. /\ n \in Nat /\ DOMAIN q = 1 .. n /\ p \in Seq(AuditRow) /\ DOMAIN p = 1 .. n + 1
      /\ p[n + 1] = row /\ \A i \in 1 .. n : p[i] = q[i]
  BY AppendProperties, LenProperties
<1>. HIDE DEF p, n
<1>2. \A i \in 1 .. n + 1 : i \in 1 .. n \/ i = n + 1
  BY <1>1
<1>3. \A i \in 1 .. n : i # n + 1
  BY <1>1
<1>4. ASSUME NEW s \in SYNC_STAGES, NEW i \in 1 .. n + 1, NEW j \in 1 .. n + 1,
             IsRunning(p[i], s), IsRunning(p[j], s)
      PROVE  i = j
  <2>1. CASE i \in 1 .. n /\ j \in 1 .. n
    BY <1>1, <1>4, <2>1 DEF OneRunning
  <2>2. CASE i = n + 1 /\ j \in 1 .. n
    BY <1>1, <1>4, <2>2 DEF IsRunning
  <2>3. CASE i \in 1 .. n /\ j = n + 1
    BY <1>1, <1>4, <2>3 DEF IsRunning
  <2>. QED  BY <1>2, <2>1, <2>2, <2>3
<1>5. OneRunning(p)
  BY <1>1, <1>4 DEF OneRunning
<1>6. \A i \in DOMAIN p : p[i] = row \/ (i \in DOMAIN q /\ p[i] = q[i])
  BY <1>1, <1>2
<1>. QED  BY <1>1, <1>5, <1>6 DEF p

\* Closing the running row of a stage.
LEMMA ClosedRows ==
  ASSUME AuditInv, NEW s \in SYNC_STAGES, NEW status \in Statuses \ {"running"}
  PROVE  /\ ClosedAs(s, status) \in Seq(AuditRow) /\ OneRunning(ClosedAs(s, status))
         /\ \A i \in DOMAIN ClosedAs(s, status) :
              \/ ClosedAs(s, status)[i] = Entry(s, status, FALSE)
              \/ \E j \in DOMAIN audit : ClosedAs(s, status)[i] = audit[j]
<1>1. CASE ~RunningNow(s)
  BY <1>1 DEF ClosedAs, AuditInv
<1>2. CASE RunningNow(s)
  <2>. DEFINE open == CHOOSE i \in DOMAIN audit : IsRunning(audit[i], s)
              row == Entry(s, status, FALSE)
  <2>1. ClosedAs(s, status) = Rewritten(open, row)
    BY <1>2 DEF ClosedAs
  <2>2. open \in DOMAIN audit
    BY <1>2 DEF RunningNow
  <2>3. row \in AuditRow /\ row.status # "running"
    BY EntryType DEF Entry
  <2>. HIDE DEF open, row
  <2>4. Rewritten(open, row) \in Seq(AuditRow) /\ OneRunning(Rewritten(open, row))
    BY <2>2, <2>3, RewrittenAudit, RewrittenOneRunning
  <2>5. \A j \in DOMAIN Rewritten(open, row) :
          Rewritten(open, row)[j] = row \/ \E k \in DOMAIN audit : Rewritten(open, row)[j] = audit[k]
    BY <2>2, <2>3, RewrittenSources
  <2>. QED  BY <2>1, <2>4, <2>5 DEF row
<1>. QED  BY <1>1, <1>2

\* A run that starts, with the request of its stage that it fulfils.
LEMMA StartedRows ==
  ASSUME AuditInv, NEW s \in SYNC_STAGES, ~RunningNow(s)
  PROVE  /\ RunStarted(s) \in Seq(AuditRow) /\ OneRunning(RunStarted(s))
         /\ \A i \in DOMAIN RunStarted(s) : \/ RunStarted(s)[i].status # "success"
                                            \/ \E j \in DOMAIN audit : RunStarted(s)[i] = audit[j]
<1>. DEFINE asking == {i \in DOMAIN audit : audit[i].stage = s /\ audit[i].asks}
            run == Entry(s, "running", FALSE)
            mark == Entry(s, "skipped", FALSE)
<1>1. /\ run \in AuditRow /\ run.status = "running" /\ run.stage = s
      /\ mark \in AuditRow /\ mark.status = "skipped"
  BY EntryType DEF Entry, Statuses
<1>2. RunStarted(s) = IF asking = {} THEN Append(audit, run)
                      ELSE Append(Rewritten(CHOOSE i \in asking : TRUE, run), mark)
  BY DEF RunStarted
<1>. HIDE DEF run, mark
<1>3. CASE asking = {}
  <2>1. /\ Append(audit, run) \in Seq(AuditRow) /\ OneRunning(Append(audit, run))
        /\ \A i \in DOMAIN Append(audit, run) : \/ Append(audit, run)[i] = run
              \/ (i \in DOMAIN audit /\ Append(audit, run)[i] = audit[i])
    BY <1>1, AppendedRow DEF RunningNow, AuditInv
  <2>. QED  BY <1>1, <1>2, <1>3, <2>1
<1>4. CASE asking # {}
  <2>1. PICK k \in DOMAIN audit : k = CHOOSE i \in asking : TRUE
    BY <1>4
  <2>. DEFINE q == Rewritten(k, run)
  <2>2. q \in Seq(AuditRow) /\ OneRunning(q)
    BY <1>1, RewrittenAudit, RewrittenOneRunning
  <2>3. \A j \in DOMAIN q : q[j] = run \/ \E m \in DOMAIN audit : q[j] = audit[m]
    BY <1>1, RewrittenSources
  <2>4. RunStarted(s) = Append(q, mark)
    BY <1>2, <1>4, <2>1
  <2>. HIDE DEF q
  <2>5. /\ Append(q, mark) \in Seq(AuditRow) /\ OneRunning(Append(q, mark))
        /\ \A j \in DOMAIN Append(q, mark) : Append(q, mark)[j] = mark \/ (j \in DOMAIN q /\ Append(q, mark)[j] = q[j])
    BY <1>1, <2>2, AppendedRow
  <2>. QED  BY <1>1, <2>3, <2>4, <2>5
<1>. QED  BY <1>3, <1>4

----------------------------------------------------------------------------
(* What the steps do to each part                                          *)

\* Rows that end a stage are of the table, or of a delivery, or no success.
LEMMA SuccessesKept ==
  ASSUME AuditInv, audit' \in Seq(AuditRow), since' \in [SYNC_STAGES -> Ages],
         \A s \in SYNC_STAGES : since'[s] <= since[s],
         \A i \in DOMAIN audit' :
            \/ \E j \in DOMAIN audit : audit'[i] = audit[j]
            \/ audit'[i].status # "success"
            \/ since'[audit'[i].stage] = 0
  PROVE  SuccessDelivered'
<1>. SUFFICES ASSUME NEW i \in DOMAIN audit', audit'[i].status = "success"
              PROVE  since'[audit'[i].stage] <= audit'[i].age
  BY DEF SuccessDelivered
<1>1. audit'[i] \in AuditRow
  BY ElementOfSeq, LenProperties
<1>2. audit'[i].stage \in SYNC_STAGES /\ audit'[i].age \in Nat
  BY <1>1, Zero DEF AuditRow
<1>3. CASE since'[audit'[i].stage] = 0
  BY <1>2, <1>3
<1>4. CASE \E j \in DOMAIN audit : audit'[i] = audit[j]
  <2>1. since[audit'[i].stage] <= audit'[i].age
    BY <1>4 DEF AuditInv, SuccessDelivered
  <2>2. since'[audit'[i].stage] <= since[audit'[i].stage]
    BY <1>2
  <2>3. since[audit'[i].stage] \in Nat /\ since'[audit'[i].stage] \in Nat
    BY <1>2, Zero DEF AuditInv
  <2>. QED  BY <1>2, <2>1, <2>2, <2>3
<1>. QED  BY <1>3, <1>4

\* New rows that are no successes.
LEMMA RowsKept ==
  ASSUME AuditInv, audit' \in Seq(AuditRow), OneRunning(audit)', since' = since,
         \A i \in DOMAIN audit' : \/ audit'[i].status # "success"
                                  \/ \E j \in DOMAIN audit : audit'[i] = audit[j]
  PROVE  AuditInv'
<1>1. since' \in [SYNC_STAGES -> Ages] /\ \A s \in SYNC_STAGES : since'[s] <= since[s]
  BY Zero DEF AuditInv
<1>2. SuccessDelivered'
  BY <1>1, SuccessesKept
<1>. QED  BY <1>1, <1>2 DEF AuditInv

LEMMA AuditKept ==
  ASSUME AuditInv, UNCHANGED <<audit, since>>
  PROVE  AuditInv'
BY DEF AuditInv, SuccessDelivered, OneRunning

\* A row of a stage is closed, and the stage has delivered if it closes as a success.
LEMMA ClosedKeeps ==
  ASSUME AuditInv, NEW s \in SYNC_STAGES, NEW status \in Statuses \ {"running"},
         audit' = ClosedAs(s, status),
         since' = since \/ since' = [since EXCEPT ![s] = 0],
         status = "success" => since' = [since EXCEPT ![s] = 0]
  PROVE  AuditInv'
<1>1. /\ audit' \in Seq(AuditRow) /\ OneRunning(audit')
      /\ \A i \in DOMAIN audit' : \/ audit'[i] = Entry(s, status, FALSE)
                                  \/ \E j \in DOMAIN audit : audit'[i] = audit[j]
  <2>. DEFINE q == ClosedAs(s, status)
  <2>1. /\ q \in Seq(AuditRow) /\ OneRunning(q)
        /\ \A i \in DOMAIN q : \/ q[i] = Entry(s, status, FALSE)
                               \/ \E j \in DOMAIN audit : q[i] = audit[j]
    BY ClosedRows
  <2>2. audit' = q
    OBVIOUS
  <2>. HIDE DEF q
  <2>. QED  BY <2>1, <2>2 DEF OneRunning
<1>2. since \in [SYNC_STAGES -> Ages] /\ \A x \in SYNC_STAGES : since[x] \in Nat
  BY Zero DEF AuditInv
<1>3. since' \in [SYNC_STAGES -> Ages] /\ \A x \in SYNC_STAGES : since'[x] <= since[x]
  BY <1>2, Zero
<1>4. Entry(s, status, FALSE).status # "success" \/ since'[Entry(s, status, FALSE).stage] = 0
  BY <1>2 DEF Entry
<1>5. SuccessDelivered'
  BY <1>1, <1>3, <1>4, SuccessesKept
<1>. QED  BY <1>1, <1>3, <1>5 DEF AuditInv

\* A round that nobody touches, or of which only more was delivered ...
LEMMA RoundKept ==
  ASSUME RoundInv, UNCHANGED <<round, delivered>>
  PROVE  RoundInv'
BY DEF RoundInv, AtAStage, RoundDelivers, RoundIsHonest

\* ... and one whose stage returned, with 0 only if the stage delivered or was at work.
LEMMA StageReturned ==
  ASSUME RoundInv, NEW s \in SYNC_STAGES, round.doing \in {"launch", "working"}, Pipeline[round.at] = s,
         NEW code \in Nat, StageEnds(code),
         delivered' = delivered \/ delivered' = delivered \cup {s},
         code = 0 => delivered' = delivered \cup {s}
  PROVE  RoundInv'
<1>. DEFINE n == Len(Pipeline)
            last == round.at = n
<1>1. /\ n \in Nat \ {0} /\ round.at \in 1 .. n /\ round.broken \in BOOLEAN
      /\ round.code = "none" /\ round \in RoundState
  BY PipelineStages DEF RoundInv, RoundState, AtAStage, RoundDelivers
<1>2. /\ round'.at = IF last THEN 0 ELSE round.at + 1
      /\ round'.doing = IF last THEN "gate" ELSE "launch"
      /\ round'.code = "none"
  BY <1>1 DEF StageEnds, RoundState
<1>3. round'.broken <=> round.broken \/ code # 0
  BY <1>1 DEF StageEnds, RoundState
<1>4. round' \in RoundState
  <2>1. round' = [round EXCEPT !.at = round'.at, !.doing = round'.doing, !.broken = round.broken \/ code # 0]
    BY <1>1 DEF StageEnds, RoundState
  <2>2. round'.at \in 0 .. n /\ round'.doing \in Doings /\ (round.broken \/ code # 0) \in BOOLEAN
    BY <1>1, <1>2 DEF Doings
  <2>. QED  BY <1>1, <2>1, <2>2 DEF RoundState
<1>5. AtAStage'
  BY <1>1, <1>2 DEF AtAStage
<1>6. delivered' \in SUBSET SYNC_STAGES
  BY DEF RoundInv
<1>7. ASSUME ~round'.broken
      PROVE  \A i \in 1 .. round.at : Pipeline[i] \in delivered'
  <2>1. ~round.broken /\ code = 0
    BY <1>3, <1>7
  <2>2. \A i \in 1 .. round.at - 1 : Pipeline[i] \in delivered
    BY <2>1 DEF RoundInv, RoundDelivers
  <2>. QED  BY <1>1, <2>1, <2>2
<1>8. RoundDelivers'
  <2>1. CASE last
    <3>1. ASSUME ~round'.broken PROVE SYNC_STAGES \subseteq delivered'
      BY <1>7, <2>1, <3>1, PipelineStages
    <3>. QED  BY <1>2, <1>6, <2>1, <3>1 DEF RoundDelivers
  <2>2. CASE ~last
    BY <1>1, <1>2, <1>7, <2>2 DEF RoundDelivers
  <2>. QED  BY <2>1, <2>2
<1>9. RoundIsHonest'
  BY <1>2 DEF RoundIsHonest
<1>. QED  BY <1>4, <1>5, <1>6, <1>8, <1>9 DEF RoundInv

\* A stage that is at work.
LEMMA AtWork ==
  ASSUME RoundInv, NEW s \in {"longbridge", "consensus"}, Working(s)
  PROVE  s \in SYNC_STAGES /\ round.doing \in {"launch", "working"} /\ Pipeline[round.at] = s
<1>1. round.at \in 1 .. Len(Pipeline)
  BY PipelineStages DEF RoundInv, RoundState, AtAStage, Working
<1>. QED  BY <1>1, PipelineStages DEF Working

LEMMA NoRunType == NoRun \in Run /\ NoRun.complete
BY FreshnessAssumption DEF NoRun, Run

LEMMA FreshCalendar ==
  ASSUME calendarRun' = NoRun
  PROVE  CalendarInv'
BY NoRunType DEF CalendarInv, ReadsAll

LEMMA CalendarKept ==
  ASSUME CalendarInv, UNCHANGED calendarRun
  PROVE  CalendarInv'
BY DEF CalendarInv, ReadsAll

LEMMA TablesWritten ==
  ASSUME TablesInv, NEW written, Persisted(written)
  PROVE  TablesInv'
BY Zero DEF TablesInv, Persisted

----------------------------------------------------------------------------
(* The steps                                                               *)

\* The rows an administrator or the reaper adds or closes.
LEMMA AuditSteps ==
  ASSUME FreshInvariant, NEW s \in SYNC_STAGES, Cancel(s) \/ CloseStranded(s) \/ AskAgain(s)
  PROVE  FreshInvariant'
<1>1. UNCHANGED <<fetchedAge, round, calendarRun, since, delivered>>
  BY DEF Cancel, CloseStranded, AskAgain
<1>2. AuditInv'
  <2>1. CASE Cancel(s)
    <3>1. audit' = ClosedAs(s, "cancelled") /\ "cancelled" \in Statuses \ {"running"}
      BY <2>1 DEF Cancel, Statuses
    <3>. QED  BY <1>1, <3>1, ClosedKeeps DEF FreshInvariant
  <2>2. CASE CloseStranded(s)
    <3>1. audit' = ClosedAs(s, "interrupted") /\ "interrupted" \in Statuses \ {"running"}
      BY <2>2 DEF CloseStranded, Statuses
    <3>. QED  BY <1>1, <3>1, ClosedKeeps DEF FreshInvariant
  <2>3. CASE AskAgain(s)
    <3>. DEFINE row == Entry(s, "skipped", TRUE)
    <3>1. row \in AuditRow /\ row.status = "skipped" /\ audit' = Append(audit, row)
      BY <2>3, EntryType DEF AskAgain, Entry, Statuses
    <3>. HIDE DEF row
    <3>2. /\ Append(audit, row) \in Seq(AuditRow) /\ OneRunning(Append(audit, row))
          /\ \A i \in DOMAIN Append(audit, row) : \/ Append(audit, row)[i] = row
                \/ (i \in DOMAIN audit /\ Append(audit, row)[i] = audit[i])
      BY <3>1, AppendedRow DEF FreshInvariant, AuditInv
    <3>. QED  BY <1>1, <3>1, <3>2, RowsKept DEF FreshInvariant
  <2>. QED  BY <2>1, <2>2, <2>3
<1>. QED  BY <1>1, <1>2, RoundKept, CalendarKept DEF FreshInvariant, TablesInv

\* The steps of the round itself.
LEMMA RoundSteps ==
  ASSUME FreshInvariant, StartRound \/ Gate \/ \E s \in SYNC_STAGES : SkipStage(s) \/ StageNeverStarts(s)
  PROVE  FreshInvariant'
<1>1. UNCHANGED <<audit, fetchedAge, calendarRun, since>>
  BY DEF StartRound, Gate, SkipStage, StageNeverStarts
<1>2. RoundInv'
  <2>1. CASE StartRound
    <3>1. round' = [at |-> 1, doing |-> "launch", broken |-> FALSE, code |-> "none"] /\ delivered' = {}
      BY <2>1 DEF StartRound
    <3>2. round' \in RoundState
      BY <3>1, PipelineStages DEF RoundState, Doings, ExitCodes
    <3>. QED  BY <3>1, <3>2 DEF RoundInv, AtAStage, RoundDelivers, RoundIsHonest
  <2>2. CASE Gate
    <3>1. PICK code \in {"zero", "one"} :
            /\ round' = [round EXCEPT !.doing = "idle", !.code = code]
            /\ code = "zero" => ~round.broken
      BY <2>2 DEF Gate
    <3>2. round.doing = "gate" /\ delivered' = delivered
      BY <2>2 DEF Gate
    <3>3. round' \in RoundState /\ round'.doing = "idle" /\ round'.code = code
      BY <3>1 DEF FreshInvariant, RoundInv, RoundState, Doings, ExitCodes
    <3>4. code = "zero" => delivered = SYNC_STAGES
      BY <3>1, <3>2 DEF FreshInvariant, RoundInv, RoundDelivers
    <3>. QED  BY <3>2, <3>3, <3>4 DEF FreshInvariant, RoundInv, AtAStage, RoundDelivers, RoundIsHonest
  <2>3. ASSUME NEW s \in SYNC_STAGES, SkipStage(s) PROVE RoundInv'
    <3>1. /\ round.doing = "launch" /\ Pipeline[round.at] = s /\ StageEnds(0)
          /\ delivered' = delivered \cup {s}
      BY <2>3 DEF SkipStage
    <3>. QED  BY <3>1, StageReturned DEF FreshInvariant
  <2>4. ASSUME NEW s \in SYNC_STAGES, StageNeverStarts(s) PROVE RoundInv'
    <3>1. /\ round.doing = "launch" /\ Pipeline[round.at] = s /\ StageEnds(1)
          /\ delivered' = delivered
      BY <2>4 DEF StageNeverStarts
    <3>. QED  BY <3>1, StageReturned DEF FreshInvariant
  <2>. QED  BY <2>1, <2>2, <2>3, <2>4
<1>. QED  BY <1>1, <1>2, AuditKept, CalendarKept DEF FreshInvariant, TablesInv

LEMMA StartStageStep ==
  ASSUME FreshInvariant, NEW s \in SYNC_STAGES, StartStage(s)
  PROVE  FreshInvariant'
<1>1. /\ audit' = RunStarted(s) /\ ~RunningNow(s) /\ round' = [round EXCEPT !.doing = "working"]
      /\ round.doing = "launch" /\ UNCHANGED <<fetchedAge, calendarRun, since, delivered>>
  BY DEF StartStage
<1>2. AuditInv'
  <2>. DEFINE q == RunStarted(s)
  <2>1. /\ q \in Seq(AuditRow) /\ OneRunning(q)
        /\ \A i \in DOMAIN q : \/ q[i].status # "success"
                               \/ \E j \in DOMAIN audit : q[i] = audit[j]
    BY <1>1, StartedRows DEF FreshInvariant
  <2>. HIDE DEF q
  <2>. QED  BY <1>1, <2>1, RowsKept DEF FreshInvariant, q
<1>3. RoundInv'
  <2>1. /\ round' \in RoundState /\ round'.doing = "working" /\ round'.at = round.at
        /\ round'.code = round.code /\ round'.broken = round.broken
    BY <1>1 DEF FreshInvariant, RoundInv, RoundState, Doings
  <2>. QED  BY <1>1, <2>1 DEF FreshInvariant, RoundInv, AtAStage, RoundDelivers, RoundIsHonest
<1>. QED  BY <1>1, <1>2, <1>3, CalendarKept DEF FreshInvariant, TablesInv

\* A stage that does not come to its end.
LEMMA BrokenStages ==
  ASSUME FreshInvariant,
         CalendarCancelled \/ \E s \in SYNC_STAGES : StageKilled(s) \/ StageFails(s)
  PROVE  FreshInvariant'
<1>1. calendarRun' = NoRun /\ UNCHANGED <<fetchedAge, since, delivered>>
  BY DEF CalendarCancelled, StageKilled, StageFails
<1>2. PICK s \in SYNC_STAGES : \/ CalendarCancelled /\ s = "longbridge" /\ Working(s)
                               \/ StageKilled(s) \/ StageFails(s)
  BY AtWork DEF CalendarCancelled, Reading, FreshInvariant
<1>3. RoundInv'
  <2>1. Working(s) /\ s \in {"longbridge", "consensus"} /\ (StageEnds(1) \/ StageEnds(124))
    BY <1>2, PipelineStages DEF CalendarCancelled, StageKilled, StageFails, SYNC_STAGES
  <2>2. round.doing \in {"launch", "working"} /\ Pipeline[round.at] = s
    BY <2>1 DEF Working
  <2>. QED  BY <1>1, <2>1, <2>2, StageReturned DEF FreshInvariant
<1>4. AuditInv'
  <2>1. CASE StageFails(s)
    <3>1. audit' = ClosedAs(s, "failed") /\ "failed" \in Statuses \ {"running"}
      BY <2>1 DEF StageFails, Statuses
    <3>. QED  BY <1>1, <3>1, ClosedKeeps DEF FreshInvariant
  <2>2. CASE CalendarCancelled \/ StageKilled(s)
    <3>1. audit' = audit
      BY <2>2 DEF CalendarCancelled, StageKilled
    <3>. QED  BY <1>1, <3>1, AuditKept DEF FreshInvariant
  <2>. QED  BY <1>2, <2>1, <2>2
<1>. QED  BY <1>1, <1>3, <1>4, FreshCalendar DEF FreshInvariant, TablesInv

\* A page that ends the range covers it.
LEMMA ReadSteps ==
  ASSUME FreshInvariant, ReadPage \/ ReadEmptyDay \/ StoreMarket
  PROVE  FreshInvariant'
<1>. DEFINE run == calendarRun
<1>1. run \in Run /\ run.complete /\ run.market <= Markets /\ Days \in Nat \ {0} /\ Markets \in Nat \ {0}
  BY FreshnessAssumption DEF FreshInvariant, CalendarInv, ReadsAll, ReadPage, ReadEmptyDay, StoreMarket, Reading
<1>2. CASE ReadPage
  <2>1. PICK last \in run.cursor .. Days : \E next \in {0} \cup last + 1 .. Days + 1 :
          LET cursor == NextCursor(next, last)
              covered == IF next = 0 THEN last ELSE next - 1
              ends == cursor = 0 \/ cursor > Days
          IN  run' = [run EXCEPT !.some = TRUE, !.covered = covered,
                        !.cursor = IF ends THEN Days + 1 ELSE cursor,
                        !.complete = @ /\ (ends => covered >= Days)]
    BY <1>2 DEF ReadPage
  <2>2. PICK next \in {0} \cup last + 1 .. Days + 1 :
          LET cursor == NextCursor(next, last)
              covered == IF next = 0 THEN last ELSE next - 1
              ends == cursor = 0 \/ cursor > Days
          IN  run' = [run EXCEPT !.some = TRUE, !.covered = covered,
                        !.cursor = IF ends THEN Days + 1 ELSE cursor,
                        !.complete = @ /\ (ends => covered >= Days)]
    BY <2>1
  <2>. DEFINE cursor == NextCursor(next, last)
              covered == IF next = 0 THEN last ELSE next - 1
              ends == cursor = 0 \/ cursor > Days
              to == IF ends THEN Days + 1 ELSE cursor
  <2>3. run.cursor \in 1 .. Days + 1 /\ last \in 1 .. Days /\ next \in Nat
    BY <1>1 DEF Run
  <2>4. /\ covered \in 0 .. Days /\ to \in 1 .. Days + 1
        /\ ends => covered >= Days
    BY <1>1, <2>3 DEF NextCursor
  <2>. HIDE DEF cursor, covered, ends, to
  <2>5. run' = [run EXCEPT !.some = TRUE, !.covered = covered, !.cursor = to,
                           !.complete = run.complete /\ (ends => covered >= Days)]
    BY <2>2 DEF cursor, covered, ends, to
  <2>6. run' = [run EXCEPT !.some = TRUE, !.covered = covered, !.cursor = to, !.complete = TRUE]
    <3>1. (run.complete /\ (ends => covered >= Days)) = TRUE
      BY <1>1, <2>4
    <3>. QED  BY <2>5, <3>1
  <2>7. CalendarInv'
    BY <1>1, <2>4, <2>6 DEF Run, CalendarInv, ReadsAll
  <2>8. UNCHANGED <<audit, fetchedAge, round, since, delivered>>
    BY <1>2 DEF ReadPage
  <2>. QED  BY <2>7, <2>8, AuditKept, RoundKept DEF FreshInvariant, TablesInv
<1>3. CASE ReadEmptyDay
  <2>1. /\ run' = [run EXCEPT !.covered = run.cursor, !.cursor = run.cursor + 1] /\ run.cursor <= Days
        /\ UNCHANGED <<audit, fetchedAge, round, since, delivered>>
    BY <1>3 DEF ReadEmptyDay
  <2>2. run.cursor \in 1 .. Days /\ run.cursor \in 0 .. Days /\ run.cursor + 1 \in 1 .. Days + 1
    BY <1>1, <2>1 DEF Run
  <2>3. run' \in Run
    BY <1>1, <2>1, <2>2 DEF Run
  <2>4. run'.complete = run.complete
    BY <1>1, <2>1 DEF Run
  <2>5. CalendarInv'
    BY <1>1, <2>3, <2>4 DEF CalendarInv, ReadsAll
  <2>. QED  BY <2>1, <2>5, AuditKept, RoundKept DEF FreshInvariant, TablesInv
<1>4. CASE StoreMarket
  <2>1. PICK resolved, written, failed \in BOOLEAN :
          run' = [run EXCEPT
            !.market = @ + 1, !.cursor = 1, !.covered = 0, !.some = FALSE,
            !.pages = @ \/ run.some, !.resolved = @ \/ resolved,
            !.written = @ \/ written, !.failed = @ \/ failed]
    BY <1>4 DEF StoreMarket
  <2>2. PICK a, b, c, d \in BOOLEAN :
          run' = [run EXCEPT !.market = run.market + 1, !.cursor = 1, !.covered = 0, !.some = FALSE,
                             !.pages = a, !.resolved = b, !.written = c, !.failed = d]
    BY <1>1, <2>1 DEF Run
  <2>3. UNCHANGED <<audit, fetchedAge, round, since, delivered>>
    BY <1>4 DEF StoreMarket
  <2>4. run.market + 1 \in 1 .. Markets + 1 /\ 1 \in 1 .. Days + 1 /\ 0 \in 0 .. Days
    BY <1>1 DEF Run
  <2>. DEFINE read == [run EXCEPT !.market = run.market + 1, !.cursor = 1, !.covered = 0, !.some = FALSE]
  <2>5. read \in Run /\ read.complete = run.complete
    BY <1>1, <2>4 DEF Run
  <2>6. run' = [read EXCEPT !.pages = a, !.resolved = b, !.written = c, !.failed = d]
    BY <1>1, <2>2 DEF Run
  <2>. HIDE DEF read
  <2>7. run' \in Run /\ run'.complete = run.complete
    BY <2>5, <2>6 DEF Run
  <2>8. CalendarInv'
    BY <1>1, <2>7 DEF CalendarInv, ReadsAll
  <2>. QED  BY <2>3, <2>8, AuditKept, RoundKept DEF FreshInvariant, TablesInv
<1>. QED  BY <1>2, <1>3, <1>4

\* A stage that comes to its end has delivered, or is recorded as failed.
LEMMA StageEnded ==
  ASSUME FreshInvariant, NEW s \in {"longbridge", "consensus"}, Working(s),
         NEW failed \in BOOLEAN, NEW served \in BOOLEAN, ~failed => served, Ends(s, failed, served)
  PROVE  AuditInv' /\ RoundInv'
<1>1. s \in SYNC_STAGES /\ round.doing \in {"launch", "working"} /\ Pipeline[round.at] = s
  BY AtWork DEF FreshInvariant
<1>2. CASE failed
  <2>1. /\ audit' = ClosedAs(s, "failed") /\ StageEnds(1) /\ "failed" \in Statuses \ {"running"}
        /\ since' = since \/ since' = [since EXCEPT ![s] = 0]
        /\ delivered' = delivered \/ delivered' = delivered \cup {s}
    BY <1>2 DEF Ends, Statuses
  <2>. QED  BY <1>1, <2>1, ClosedKeeps, StageReturned DEF FreshInvariant
<1>3. CASE ~failed
  <2>1. /\ audit' = ClosedAs(s, "success") /\ StageEnds(0) /\ "success" \in Statuses \ {"running"}
        /\ since' = [since EXCEPT ![s] = 0] /\ delivered' = delivered \cup {s}
    BY <1>3 DEF Ends, Statuses
  <2>. QED  BY <1>1, <2>1, ClosedKeeps, StageReturned DEF FreshInvariant
<1>. QED  BY <1>2, <1>3

LEMMA EndSteps ==
  ASSUME FreshInvariant, CalendarEnds \/ ConsensusEnds \/ ConsensusDies
  PROVE  FreshInvariant'
<1>1. CASE CalendarEnds
  <2>. DEFINE failed == RunFailed(calendarRun)
              served == ~RunFailed(calendarRun) /\ CalendarServed(calendarRun)
  <2>1. /\ Working("longbridge") /\ Ends("longbridge", failed, served)
        /\ calendarRun' = NoRun /\ UNCHANGED fetchedAge
    BY <1>1 DEF CalendarEnds
  <2>2. failed \in BOOLEAN /\ served \in BOOLEAN
    BY DEF RunFailed
  <2>3. ~failed => served
    BY DEF RunFailed, CalendarServed, FreshInvariant, CalendarInv, ReadsAll
  <2>. HIDE DEF failed, served
  <2>4. AuditInv' /\ RoundInv'
    BY <2>1, <2>2, <2>3, StageEnded
  <2>. QED  BY <2>1, <2>4, FreshCalendar DEF FreshInvariant, TablesInv
<1>2. CASE ConsensusEnds
  <2>2. \E written \in SUBSET DERIVED_TABLES, failed \in BOOLEAN :
          Persisted(written) /\ Ends("consensus", failed, ~failed)
    BY <1>2 DEF ConsensusEnds
  <2>3. PICK tables \in SUBSET DERIVED_TABLES, raised \in BOOLEAN :
          Persisted(tables) /\ Ends("consensus", raised, ~raised)
    BY <2>2
  <2>4. Working("consensus") /\ calendarRun' = calendarRun
    BY <1>2 DEF ConsensusEnds
  <2>5. AuditInv' /\ RoundInv'
    BY <2>3, <2>4, StageEnded
  <2>. QED  BY <2>3, <2>4, <2>5, TablesWritten, CalendarKept DEF FreshInvariant
<1>3. CASE ConsensusDies
  <2>1. /\ Working("consensus") /\ StageEnds(137)
        /\ \E written \in SUBSET DERIVED_TABLES : Persisted(written)
        /\ UNCHANGED <<audit, calendarRun, since, delivered>>
    BY <1>3 DEF ConsensusDies
  <2>2. "consensus" \in SYNC_STAGES /\ round.doing \in {"launch", "working"} /\ Pipeline[round.at] = "consensus"
    BY <2>1, AtWork DEF FreshInvariant
  <2>3. RoundInv'
    BY <2>1, <2>2, StageReturned DEF FreshInvariant
  <2>. QED  BY <2>1, <2>3, TablesWritten, AuditKept, CalendarKept DEF FreshInvariant
<1>. QED  BY <1>1, <1>2, <1>3

LEMMA AgedType ==
  ASSUME NEW a \in Ages, NEW b \in Ages, a <= b
  PROVE  Aged(a) \in Ages /\ Aged(a) <= Aged(b)
BY FreshnessAssumption DEF Aged, Ages, Outdated

\* Deliveries and the rows that tell of them age together.
LEMMA OlderStep ==
  ASSUME FreshInvariant, GrowOlder
  PROVE  FreshInvariant'
<1>. DEFINE n == Len(audit)
            old(row) == IF row.status = "success" THEN [row EXCEPT !.age = Aged(row.age)] ELSE row
<1>1. /\ n \in Nat /\ DOMAIN audit = 1 .. n /\ \A i \in 1 .. n : audit[i] \in AuditRow
  BY ElementOfSeq, LenProperties DEF FreshInvariant, AuditInv
<1>2. audit' = [i \in 1 .. n |-> old(audit[i])]
  BY <1>1 DEF GrowOlder
<1>3. ASSUME NEW row \in AuditRow
      PROVE  /\ old(row) \in AuditRow /\ old(row).stage = row.stage /\ old(row).status = row.status
             /\ row.status = "success" => old(row).age = Aged(row.age)
             /\ row.age \in Ages /\ row.stage \in SYNC_STAGES
  <2>1. row.age \in Ages /\ row.stage \in SYNC_STAGES
    BY DEF AuditRow
  <2>2. Aged(row.age) \in Ages
    BY <2>1, AgedType, Zero
  <2>. QED  BY <2>1, <2>2 DEF AuditRow
<1>. HIDE DEF old
<1>4. audit' \in Seq(AuditRow) /\ DOMAIN audit' = 1 .. n
  <2>1. audit' \in [1 .. n -> AuditRow]
    BY <1>1, <1>2, <1>3
  <2>. QED  BY <1>1, <2>1
<1>5. OneRunning(audit)'
  BY <1>1, <1>2, <1>3, <1>4 DEF FreshInvariant, AuditInv, OneRunning, IsRunning
<1>6. /\ since \in [SYNC_STAGES -> Ages] /\ since' = [s \in SYNC_STAGES |-> Aged(since[s])]
      /\ \A s \in SYNC_STAGES : since[s] \in Ages /\ since[s] \in Nat
  BY Zero DEF FreshInvariant, AuditInv, GrowOlder
<1>7. since' \in [SYNC_STAGES -> Ages]
  BY <1>6, AgedType
<1>8. ASSUME NEW i \in 1 .. n, audit'[i].status = "success"
      PROVE  since'[audit'[i].stage] <= audit'[i].age
  <2>1. /\ audit'[i] = old(audit[i]) /\ audit[i].status = "success" /\ audit'[i].stage = audit[i].stage
        /\ audit'[i].age = Aged(audit[i].age) /\ audit[i].age \in Ages /\ audit[i].stage \in SYNC_STAGES
    BY <1>1, <1>2, <1>3, <1>8
  <2>2. since[audit[i].stage] <= audit[i].age
    BY <1>1, <2>1 DEF FreshInvariant, AuditInv, SuccessDelivered
  <2>. QED  BY <1>6, <2>1, <2>2, AgedType
<1>9. AuditInv'
  BY <1>4, <1>5, <1>7, <1>8 DEF AuditInv, SuccessDelivered
<1>10. TablesInv'
  <2>1. \A t \in DERIVED_TABLES : fetchedAge[t] \in Ages /\ fetchedAge[t] <= fetchedAge[t]
    BY Zero DEF FreshInvariant, TablesInv
  <2>2. \A t \in DERIVED_TABLES : Aged(fetchedAge[t]) \in Ages
    BY <2>1, AgedType
  <2>. QED  BY <2>2 DEF GrowOlder, TablesInv
<1>11. UNCHANGED <<round, calendarRun, delivered>>
  BY DEF GrowOlder
<1>. QED  BY <1>9, <1>10, <1>11, RoundKept, CalendarKept DEF FreshInvariant

----------------------------------------------------------------------------
(* The theorems                                                            *)

\* The inductive invariant holds in every reachable state: types, a success in the audit table
\* never younger than the stage's delivery, a calendar that is read whole, and a round
\* that delivered what has returned in it.
THEOREM FreshInvariance == FreshSpec => []FreshInvariant
<1>1. FreshInit => FreshInvariant
  <2>. SUFFICES ASSUME FreshInit PROVE FreshInvariant
    OBVIOUS
  <2>1. AuditInv
    BY Zero, EmptySeq DEF FreshInit, AuditInv, OneRunning, SuccessDelivered, Ages, Outdated
  <2>2. RoundInv
    BY PipelineStages DEF FreshInit, NoRound, RoundInv, RoundState, Doings, ExitCodes, AtAStage, RoundDelivers, RoundIsHonest
  <2>3. CalendarInv
    BY NoRunType DEF FreshInit, CalendarInv, ReadsAll
  <2>4. TablesInv
    BY Zero DEF FreshInit, TablesInv, Ages, Outdated
  <2>. QED  BY <2>1, <2>2, <2>3, <2>4 DEF FreshInvariant
<1>2. FreshInvariant /\ [FreshNext]_freshVars => FreshInvariant'
  <2>. SUFFICES ASSUME FreshInvariant, [FreshNext]_freshVars PROVE FreshInvariant'
    OBVIOUS
  <2>1. CASE UNCHANGED freshVars
    BY <2>1, AuditKept, RoundKept, CalendarKept DEF FreshInvariant, TablesInv, freshVars
  <2>2. CASE FreshNext
    BY <2>2, AuditSteps, RoundSteps, StartStageStep, BrokenStages, ReadSteps, EndSteps, OlderStep
       DEF FreshNext
  <2>. QED  BY <2>1, <2>2
<1>. QED  BY <1>1, <1>2, PTL DEF FreshSpec

\* Types, and that no stage ever has two running rows.
THEOREM FreshTypes == FreshSpec => []FreshTypeOK
<1>1. FreshInvariant => FreshTypeOK
  <2>1. AuditRow = [stage : SYNC_STAGES, age : Ages, asks : BOOLEAN,
                    status : {"running", "success", "failed", "interrupted", "cancelled", "skipped"}]
    BY DEF AuditRow, Statuses
  <2>. QED  BY <2>1 DEF FreshInvariant, AuditInv, RoundInv, CalendarInv, TablesInv, OneRunning,
                        FreshTypeOK, RoundState, Doings, ExitCodes, Run
<1>. QED  BY <1>1, FreshInvariance, PTL

\* Green health means that every stage delivered what it is for within the threshold, for every
\* pipeline, range, number of markets and threshold.
THEOREM GreenIsEarned == FreshSpec => []GreenMeansDelivered
<1>1. ASSUME FreshInvariant PROVE GreenMeansDelivered
  <2>. SUFFICES ASSUME Healthy, NEW s \in SYNC_STAGES PROVE since[s] <= StaleAfter
    BY DEF GreenMeansDelivered
  <2>1. StageVerdict(s) = "fresh"
    BY DEF Healthy
  <2>2. PICK i \in Succeeded(s) : audit[i].age <= StaleAfter
    BY <2>1 DEF StageVerdict
  <2>3. i \in DOMAIN audit /\ audit[i].stage = s /\ audit[i].status = "success"
    BY <2>2 DEF Succeeded, RowsOf
  <2>4. since[s] <= audit[i].age
    BY <1>1, <2>3 DEF FreshInvariant, AuditInv, SuccessDelivered
  <2>5. audit[i] \in AuditRow
    BY <1>1, <2>3, ElementOfSeq, LenProperties DEF FreshInvariant, AuditInv
  <2>6. since[s] \in Nat /\ audit[i].age \in Nat /\ StaleAfter \in Nat
    BY <1>1, <2>5, Zero DEF FreshInvariant, AuditInv, AuditRow
  <2>. QED  BY <2>2, <2>4, <2>6
<1>. QED  BY <1>1, FreshInvariance, PTL

\* A round that exits 0 delivered every stage of the pipeline, or found it at work.
THEOREM RoundsAreHonest == FreshSpec => []RoundIsHonest
<1>1. FreshInvariant => RoundIsHonest
  BY DEF FreshInvariant, RoundInv
<1>. QED  BY <1>1, FreshInvariance, PTL

=============================================================================
