--------------------------- MODULE SyncRunsProofs ---------------------------
(***************************************************************************)
(* Proofs about SyncRuns for every set of stages, processes and admins,    *)
(* every budget and every size of the table: type correctness, mutual      *)
(* exclusion of the workers of one advisory lock, the implementation of    *)
(* RunLedger, and what a run and its process may expect of each other: the *)
(* verdict it is about to write, the poll that stops it, the requests it   *)
(* fulfils.                                                                *)
(***************************************************************************)
EXTENDS SyncRuns, TLAPS

\* A process has a run exactly when it has inserted one.
RunWhenInserted ==
  \A p \in Procs : Live(p) => (proc[p].run = 0 <=> proc[p].pc \in {"lock", "check", "insert"})

\* The run of a process is a row of the table, a run, of the stage it executes.
RunOfItsStage ==
  \A p \in Procs : Live(p) /\ proc[p].run # 0 =>
    /\ sync_runs[proc[p].run].phase = "run"
    /\ sync_runs[proc[p].run].stage = proc[p].job

\* A retry request is terminal from the start and stays so.
RequestsSkipped == \A q \in Ids : sync_runs[q].phase = "retry_requested"
                                    => sync_runs[q].status = "skipped"

\* A process past its lock holds it, unless the server closed its session.
LockHeld == \A p \in Procs : InSection(p) /\ p \notin lost => locks[LockOf(proc[p].job)] = p

\* The inductive invariant.
IInv == TypeOK /\ RunWhenInserted /\ RunOfItsStage /\ RequestsSkipped /\ LockHeld

Table == [Ids -> Row \cup {Free}]

----------------------------------------------------------------------------
(* Rows and tables                                                         *)

\* A free row is told apart from every other row by its phase.
LEMMA FreeByPhase == /\ Free.phase = "free"
                     /\ \A row \in Row : row.phase # "free" /\ row # Free
BY DEF Free, Row

\* Closing a row with a verdict yields a row of the same phase and stage.
LEMMA ClosedRow ==
  ASSUME NEW row \in Row, NEW v \in Terminal
  PROVE  /\ Closed(row, v) \in Row
         /\ Closed(row, v).phase = row.phase
         /\ Closed(row, v).stage = row.stage
         /\ Closed(row, v).status = v
         /\ Closed(row, v).by = row.by
BY DEF Closed, Row, Owners

\* finish_run keeps the table a table; it changes no phase and no stage.
LEMMA TransitionTable ==
  ASSUME NEW t \in Table, NEW r \in Ids, t[r] \in Row, NEW v \in Terminal
  PROVE  /\ Transition(t, r, v) \in Table
         /\ Transition(t, r, v)[r] \in Row
         /\ \A q \in Ids : q # r => Transition(t, r, v)[q] = t[q]
         /\ Transition(t, r, v)[r].phase = t[r].phase
         /\ Transition(t, r, v)[r].stage = t[r].stage
<1>1. CASE t[r].status = "running"
  <2>1. Transition(t, r, v) = [t EXCEPT ![r] = Closed(t[r], v)]
    BY <1>1 DEF Transition
  <2> QED BY <2>1, ClosedRow DEF Table
<1>2. CASE t[r].status # "running"
  <2>1. Transition(t, r, v) = t
    BY <1>2 DEF Transition
  <2> QED BY <2>1 DEF Table
<1> QED BY <1>1, <1>2

\* Closing a set of running rows keeps the table a table.
LEMMA InterruptedTable ==
  ASSUME TypeOK, NEW R \in SUBSET Ids, \A r \in R : Running(r)
  PROVE  /\ Interrupted(R) \in Table
         /\ \A r \in Ids : /\ Interrupted(R)[r].phase = sync_runs[r].phase
                           /\ Interrupted(R)[r].stage = sync_runs[r].stage
                           /\ r \notin R => Interrupted(R)[r] = sync_runs[r]
<1>1. "interrupted" \in Terminal
  BY DEF Terminal
<1>2. ASSUME NEW r \in R PROVE sync_runs[r] \in Row
  BY FreeByPhase DEF TypeOK, Running, Runs, Used
<1>3. ASSUME NEW r \in Ids
      PROVE  /\ Interrupted(R)[r] \in Row \cup {Free}
             /\ Interrupted(R)[r].phase = sync_runs[r].phase
             /\ r \in R => Interrupted(R)[r].stage = sync_runs[r].stage
             /\ r \notin R => Interrupted(R)[r] = sync_runs[r]
  <2>1. CASE r \in R
    BY <1>1, <1>2, <2>1, ClosedRow DEF Interrupted
  <2>2. CASE r \notin R
    BY <2>2 DEF Interrupted, TypeOK
  <2> QED BY <2>1, <2>2
<1>4. \A r \in Ids : r \notin R => Interrupted(R)[r].stage = sync_runs[r].stage
  BY <1>3
<1> QED BY <1>3, <1>4 DEF Interrupted, Table

----------------------------------------------------------------------------
(* The end of a process                                                    *)

\* A table that differs from the current one in verdicts (and ages) only, and
\* in none of a retry request.
SameRows(t) ==
  /\ t \in Table
  /\ \A r \in Ids : /\ t[r].phase = sync_runs[r].phase
                    /\ t[r].stage = sync_runs[r].stage
                    /\ t[r].phase = "retry_requested" => t[r].status = "skipped"

\* The table agrees with itself.
LEMMA CurrentSameRows == IInv => SameRows(sync_runs)
BY DEF IInv, TypeOK, RequestsSkipped, SameRows, Table

\* The run a process holds is a row of that kind and stage.
LEMMA RunRow ==
  ASSUME IInv, NEW p \in Procs, Live(p), proc[p].run # 0
  PROVE  /\ proc[p].run \in Ids
         /\ sync_runs[proc[p].run] \in Row
         /\ sync_runs[proc[p].run].phase = "run"
BY FreeByPhase DEF IInv, TypeOK, Live, ProcState, RunOfItsStage

\* finish_run by the owner of a run.
LEMMA TransitionSameRows ==
  ASSUME IInv, NEW p \in Procs, Live(p), proc[p].run # 0, NEW v \in Terminal
  PROVE  SameRows(Transition(sync_runs, proc[p].run, v))
<1> DEFINE x == proc[p].run
<1> DEFINE t == Transition(sync_runs, x, v)
<1>1. sync_runs \in Table
  BY DEF IInv, TypeOK, Table
<1>2. /\ t \in Table
      /\ \A q \in Ids : q # x => t[q] = sync_runs[q]
      /\ t[x].phase = sync_runs[x].phase
      /\ t[x].stage = sync_runs[x].stage
  BY <1>1, RunRow, TransitionTable
<1>3. \A q \in Ids : t[q].phase = "retry_requested" => t[q].status = "skipped"
  BY <1>2, RunRow DEF IInv, RequestsSkipped
<1> HIDE DEF t
<1>4. SameRows(t)
  BY <1>2, <1>3 DEF SameRows
<1> QED BY <1>4 DEF t

\* The table a process leaves behind has the rows of the table it hands over,
\* one of them with a new owner.
LEMMA LeaveRows ==
  ASSUME IInv, NEW p \in Procs, Live(p), NEW STATE t, SameRows(t), NEW how \in Owners,
         Leave(p, t, how)
  PROVE  /\ SameRows(sync_runs)'
         /\ \A r \in Ids : /\ sync_runs'[r].phase = sync_runs[r].phase
                           /\ sync_runs'[r].stage = sync_runs[r].stage
                           /\ LedgerRow(sync_runs'[r]) = LedgerRow(t[r])
<1> DEFINE x == proc[p].run
<1>1. CASE x # 0 /\ t[x].status = "running"
  <2>1. x \in Ids /\ t[x] \in Row /\ t[x].phase = "run"
    BY <1>1, RunRow, FreeByPhase DEF SameRows, Table
  <2>2. sync_runs' = [t EXCEPT ![x].owner = how]
    BY <1>1 DEF Leave
  <2>3. [t[x] EXCEPT !.owner = how] \in Row
    BY <2>1 DEF Row
  <2>4. sync_runs' \in Table /\ sync_runs'[x] = [t[x] EXCEPT !.owner = how]
        /\ \A q \in Ids : q # x => sync_runs'[q] = t[q]
    BY <2>1, <2>2, <2>3 DEF SameRows, Table
  <2>5. /\ sync_runs'[x].phase = t[x].phase
        /\ sync_runs'[x].stage = t[x].stage
        /\ sync_runs'[x].status = t[x].status
    BY <2>1, <2>4 DEF Row
  <2>6. \A r \in Ids : LedgerRow(sync_runs'[r]) = LedgerRow(t[r])
    BY <2>1, <2>4, <2>5 DEF LedgerRow
  <2>7. \A r \in Ids : /\ sync_runs'[r].phase = t[r].phase
                       /\ sync_runs'[r].stage = t[r].stage
                       /\ sync_runs'[r].status = t[r].status
    BY <2>4, <2>5
  <2>8. SameRows(sync_runs)'
    BY <2>4, <2>7 DEF SameRows, Table
  <2> QED BY <2>6, <2>7, <2>8 DEF SameRows
<1>2. CASE ~ (x # 0 /\ t[x].status = "running")
  <2>1. sync_runs' = t
    BY <1>2 DEF Leave
  <2> QED BY <2>1 DEF SameRows
<1> QED BY <1>1, <1>2

\* Every exit path keeps the invariant.
LEMMA LeaveInvariant ==
  ASSUME IInv, NEW p \in Procs, Live(p), NEW STATE t, SameRows(t), NEW how \in Owners,
         Leave(p, t, how)
  PROVE  IInv'
<1>1. /\ proc' = [proc EXCEPT ![p] = Idle]
      /\ locks' = [k \in LockKeys |-> IF locks[k] = p THEN NoProc ELSE locks[k]]
      /\ lost' = lost \ {p} /\ up' = up /\ adm' = adm
  BY DEF Leave
<1>2. TypeOK'
  BY <1>1, LeaveRows DEF IInv, TypeOK, SameRows, Table
<1>3. \A q \in Procs : Live(q)' => q # p /\ Live(q) /\ proc'[q] = proc[q]
  BY <1>1 DEF Live, IInv, TypeOK
<1>4. RunWhenInserted'
  BY <1>3 DEF IInv, RunWhenInserted
<1>5. RunOfItsStage'
  <2> SUFFICES ASSUME NEW q \in Procs, Live(q)', proc'[q].run # 0
               PROVE  /\ sync_runs'[proc'[q].run].phase = "run"
                      /\ sync_runs'[proc'[q].run].stage = proc'[q].job
    BY DEF RunOfItsStage
  <2>1. Live(q) /\ proc'[q] = proc[q] /\ proc[q].run \in Ids
    BY <1>3, RunRow
  <2> QED BY <2>1, LeaveRows DEF IInv, RunOfItsStage
<1>6. RequestsSkipped'
  BY LeaveRows DEF SameRows, RequestsSkipped
<1>7. LockHeld'
  <2> SUFFICES ASSUME NEW q \in Procs, InSection(q)', q \notin lost'
               PROVE  locks'[LockOf(proc'[q].job)] = q
    BY DEF LockHeld
  <2>1. q # p /\ proc'[q] = proc[q] /\ InSection(q) /\ q \notin lost
    BY <1>1, <1>3 DEF InSection, Live
  <2>2. locks[LockOf(proc[q].job)] = q /\ LockOf(proc[q].job) \in LockKeys
    BY <2>1 DEF IInv, LockHeld, InSection, LockedStages, LockOf, LockKeys
  <2> QED BY <1>1, <2>1, <2>2
<1> QED BY <1>2, <1>4, <1>5, <1>6, <1>7 DEF IInv

----------------------------------------------------------------------------
(* The other steps                                                         *)

\* No run disappears from the table and none changes its stage.
RunsStay == \A r \in Ids : sync_runs[r].phase = "run" =>
              sync_runs'[r].phase = "run" /\ sync_runs'[r].stage = sync_runs[r].stage

\* A step of a process that takes it to the state st and leaves the locks alone.
LEMMA MoveInvariant ==
  ASSUME IInv, NEW p \in Procs, NEW STATE st, st \in ProcState,
         proc' = [proc EXCEPT ![p] = st],
         UNCHANGED <<locks, lost, up, adm>>, SameRows(sync_runs)', RunsStay,
         st.run = 0 <=> st.pc \in {"lock", "check", "insert"},
         st.run # 0 => sync_runs'[st.run].phase = "run" /\ sync_runs'[st.run].stage = st.job,
         st.pc # "lock" /\ st.job \in LockedStages /\ p \notin lost => locks[LockOf(st.job)] = p
  PROVE  IInv'
<1>1. proc'[p] = st /\ \A q \in Procs : q # p => proc'[q] = proc[q]
  BY DEF IInv, TypeOK
<1>2. TypeOK'
  BY <1>1 DEF IInv, TypeOK, SameRows, Table
<1>3. RunWhenInserted'
  BY <1>1 DEF IInv, RunWhenInserted, Live
<1>4. RunOfItsStage'
  <2> SUFFICES ASSUME NEW q \in Procs, Live(q)', proc'[q].run # 0
               PROVE  /\ sync_runs'[proc'[q].run].phase = "run"
                      /\ sync_runs'[proc'[q].run].stage = proc'[q].job
    BY DEF RunOfItsStage
  <2>1. CASE q = p
    BY <1>1, <2>1
  <2>2. CASE q # p
    <3>1. Live(q) /\ proc'[q] = proc[q] /\ proc[q].run \in Ids
      BY <1>1, <2>2, RunRow DEF Live
    <3> QED BY <3>1 DEF IInv, RunOfItsStage, RunsStay
  <2> QED BY <2>1, <2>2
<1>5. RequestsSkipped'
  BY DEF SameRows, RequestsSkipped
<1>6. LockHeld'
  BY <1>1 DEF IInv, LockHeld, InSection, Live
<1> QED BY <1>2, <1>3, <1>4, <1>5, <1>6 DEF IInv

\* A step that moves no process and touches no lock.
LEMMA TableInvariant ==
  ASSUME IInv, UNCHANGED <<proc, locks, lost>>, SameRows(sync_runs)', RunsStay,
         up' \in BOOLEAN, adm' \in [Admins -> AdmState \cup {AdmIdle}]
  PROVE  IInv'
<1>1. TypeOK'
  BY DEF IInv, TypeOK, SameRows, Table
<1>2. RunOfItsStage'
  <2> SUFFICES ASSUME NEW q \in Procs, Live(q), proc[q].run # 0
               PROVE  /\ sync_runs'[proc[q].run].phase = "run"
                      /\ sync_runs'[proc[q].run].stage = proc[q].job
    BY DEF RunOfItsStage, Live
  <2> QED BY RunRow DEF IInv, RunOfItsStage, RunsStay
<1>3. RunWhenInserted' /\ LockHeld'
  BY DEF IInv, RunWhenInserted, LockHeld, InSection, Live
<1>4. RequestsSkipped'
  BY DEF SameRows, RequestsSkipped
<1> QED BY <1>1, <1>2, <1>3, <1>4 DEF IInv

\* A step that leaves the table alone keeps what the invariant says of rows.
LEMMA UnchangedTable == ASSUME IInv, UNCHANGED sync_runs
                        PROVE  SameRows(sync_runs)' /\ RunsStay
BY DEF IInv, TypeOK, RequestsSkipped, SameRows, Table, RunsStay

\* A process starts without a run and without a lock.
LEMMA LaunchInvariant ==
  ASSUME IInv, NEW p \in Procs, NEW s \in Stages, NEW scheduled \in BOOLEAN,
         Launch(p, s, scheduled)
  PROVE  IInv'
<1> DEFINE start == IF s \in LockedStages THEN "lock"
                    ELSE IF s \in KeyedStages THEN "check" ELSE "insert"
<1> DEFINE st == [pc |-> start, job |-> s, run |-> 0, scheduled |-> scheduled,
                  elapsed |-> 0, late |-> 0]
<1>1. st \in ProcState
  BY DEF ProcState
<1>2. proc' = [proc EXCEPT ![p] = st] /\ UNCHANGED <<sync_runs, locks, lost, up, adm>>
  BY DEF Launch
<1>3. st.run = 0 /\ st.pc \in {"lock", "check", "insert"}
  OBVIOUS
<1>4. ~ (st.pc # "lock" /\ st.job \in LockedStages)
  OBVIOUS
<1> HIDE DEF st
<1> QED BY <1>1, <1>2, <1>3, <1>4, UnchangedTable, MoveInvariant

\* A process goes on only with the lock it took.
LEMMA TakeLockInvariant ==
  ASSUME IInv, NEW p \in Procs, TakeLock(p)
  PROVE  IInv'
<1> DEFINE k == LockOf(proc[p].job)
<1>0. Live(p) /\ proc[p] \in ProcState /\ proc[p].pc = "lock" /\ proc[p].run = 0
  BY DEF TakeLock, At, Live, IInv, TypeOK, RunWhenInserted
<1>1. CASE locks[k] # NoProc /\ Leave(p, sync_runs, "returned")
  BY <1>0, <1>1, CurrentSameRows, LeaveInvariant DEF Owners
<1>2. CASE /\ locks[k] = NoProc
           /\ locks' = [locks EXCEPT ![k] = p]
           /\ GoTo(p, "check")
           /\ UNCHANGED <<sync_runs, lost, up, adm>>
  <2> DEFINE st == [proc[p] EXCEPT !.pc = "check"]
  <2>1. st \in ProcState /\ st.pc = "check" /\ st.run = 0 /\ st.job = proc[p].job
    BY <1>0 DEF ProcState
  <2>2. proc'[p] = st /\ (\A q \in Procs : q # p => proc'[q] = proc[q])
        /\ proc' \in [Procs -> ProcState \cup {Idle}]
    BY <1>2, <2>1 DEF GoTo, IInv, TypeOK
  <2>3. k \in LockKeys => locks'[k] = p /\ \A j \in LockKeys : j # k => locks'[j] = locks[j]
    BY <1>2 DEF IInv, TypeOK
  <2>4. TypeOK'
    BY <1>2, <2>2 DEF IInv, TypeOK
  <2>5a. st.run = 0 <=> st.pc \in {"lock", "check", "insert"}
    BY <2>1
  <2> HIDE DEF st
  <2>5b. RunWhenInserted'
    BY <2>2, <2>5a DEF IInv, RunWhenInserted, Live
  <2>5. RunOfItsStage' /\ RequestsSkipped'
    BY <1>2, <2>1, <2>2 DEF IInv, RunOfItsStage, RequestsSkipped, Live
  <2>6. LockHeld'
    <3> SUFFICES ASSUME NEW q \in Procs, InSection(q)', q \notin lost'
                 PROVE  locks'[LockOf(proc'[q].job)] = q
      BY DEF LockHeld
    <3>1. proc'[q].job \in LockedStages /\ LockOf(proc'[q].job) \in LockKeys
      BY DEF InSection, LockedStages, LockOf, LockKeys
    <3>2. CASE q = p
      BY <2>1, <2>2, <2>3, <3>1, <3>2
    <3>3. CASE q # p
      <4>1. proc'[q] = proc[q] /\ InSection(q) /\ q \notin lost
        BY <1>2, <2>2, <3>3 DEF InSection, Live
      <4>2. locks[LockOf(proc[q].job)] = q
        BY <4>1 DEF IInv, LockHeld
      <4>3. q # NoProc
        BY ConstantsAssumption
      <4>4. locks'[LockOf(proc[q].job)] = q
        BY <1>2, <3>1, <4>1, <4>2, <4>3 DEF IInv, TypeOK
      <4> QED BY <4>1, <4>4
    <3> QED BY <3>2, <3>3
  <2> QED BY <2>4, <2>5b, <2>5, <2>6 DEF IInv
<1> QED BY <1>1, <1>2 DEF TakeLock

\* A step of a process past its lock that changes its pc only.
LEMMA GoToInvariant ==
  ASSUME IInv, NEW p \in Procs, Live(p),
         NEW pc \in {"insert", "consume", "unavailable", "work", "polled", "fallback"},
         GoTo(p, pc), proc[p].pc # "lock", pc = "insert" <=> proc[p].run = 0,
         UNCHANGED <<locks, lost, up, adm>>, SameRows(sync_runs)', RunsStay
  PROVE  IInv'
<1> DEFINE st == [proc[p] EXCEPT !.pc = pc]
<1>1. proc[p] \in ProcState
  BY DEF IInv, TypeOK, Live
<1>2. st \in ProcState /\ st.pc = pc /\ st.run = proc[p].run /\ st.job = proc[p].job
  BY <1>1 DEF ProcState
<1>3. proc' = [proc EXCEPT ![p] = st]
  BY DEF GoTo
<1>4. st.run # 0 => sync_runs'[st.run].phase = "run" /\ sync_runs'[st.run].stage = st.job
  <2> SUFFICES ASSUME proc[p].run # 0
               PROVE  sync_runs'[proc[p].run].phase = "run"
                      /\ sync_runs'[proc[p].run].stage = proc[p].job
    BY <1>2
  <2> QED BY RunRow DEF RunsStay, IInv, RunOfItsStage
<1>5. st.job \in LockedStages /\ p \notin lost => locks[LockOf(st.job)] = p
  BY <1>2 DEF IInv, LockHeld, InSection
<1>6. st.run = 0 <=> st.pc \in {"lock", "check", "insert"}
  BY <1>2
<1> HIDE DEF st
<1> QED BY <1>2, <1>3, <1>4, <1>5, <1>6, MoveInvariant

\* The look at the running rows changes no row.
LEMMA CheckRunningInvariant ==
  ASSUME IInv, NEW p \in Procs, CheckRunning(p)
  PROVE  IInv'
<1>1. Live(p) /\ proc[p].pc = "check" /\ proc[p].run = 0
  BY DEF CheckRunning, At, IInv, RunWhenInserted
<1>2. CASE Leave(p, sync_runs, "returned")
  BY <1>1, <1>2, CurrentSameRows, LeaveInvariant DEF Owners
<1>3. CASE GoTo(p, "insert") /\ UNCHANGED <<sync_runs, locks, lost, up, adm>>
  BY <1>1, <1>3, UnchangedTable, GoToInvariant
<1> QED BY <1>2, <1>3 DEF CheckRunning

\* The inserted row is the run of its process.
LEMMA InsertRunInvariant ==
  ASSUME IInv, NEW p \in Procs, InsertRun(p)
  PROVE  IInv'
<1> DEFINE s == proc[p].job
<1>1. Live(p) /\ proc[p].pc = "insert" /\ proc[p].run = 0 /\ proc[p] \in ProcState /\ s \in Stages
  BY DEF InsertRun, At, Live, IInv, TypeOK, RunWhenInserted, ProcState
<1>2. CASE Leave(p, sync_runs, "returned")
  BY <1>1, <1>2, CurrentSameRows, LeaveInvariant DEF Owners
<1>3. ASSUME NEW r \in Ids, IsNextId(r), UNCHANGED <<locks, lost, up, adm>>,
             sync_runs' = [sync_runs EXCEPT ![r] =
               [phase |-> "run", stage |-> s, status |-> "running",
                age |-> 0, for |-> 0, by |-> 0, owner |-> "alive"]],
             proc' = [proc EXCEPT ![p].pc = "consume", ![p].run = r]
      PROVE  IInv'
  <2> DEFINE row == [phase |-> "run", stage |-> s, status |-> "running",
                     age |-> 0, for |-> 0, by |-> 0, owner |-> "alive"]
  <2> DEFINE st == [proc[p] EXCEPT !.pc = "consume", !.run = r]
  <2>1. row \in Row /\ row.phase = "run" /\ row.stage = s
    BY <1>1 DEF Row, Owners
  <2>2. st \in ProcState /\ st.pc = "consume" /\ st.run = r /\ st.job = s
    BY <1>1 DEF ProcState
  <2>3. proc' = [proc EXCEPT ![p] = st]
    BY <1>1, <1>3 DEF IInv, TypeOK
  <2>4. sync_runs[r].phase = "free"
    BY <1>3 DEF IsNextId, Used, Free
  <2> HIDE DEF row, st
  <2>5. sync_runs' = [sync_runs EXCEPT ![r] = row]
    BY <1>3 DEF row
  <2>6. sync_runs'[r] = row /\ \A q \in Ids : q # r => sync_runs'[q] = sync_runs[q]
    BY <2>5 DEF IInv, TypeOK
  <2>7. SameRows(sync_runs)' /\ RunsStay
    BY <2>1, <2>4, <2>5, <2>6 DEF IInv, TypeOK, RequestsSkipped, SameRows, Table, RunsStay
  <2>8. p \notin lost /\ s \in LockedStages => locks[LockOf(s)] = p
    BY <1>1 DEF IInv, LockHeld, InSection
  <2>9. st.run # 0 /\ ~ (st.pc \in {"lock", "check", "insert"})
    BY <2>2 DEF Ids
  <2>10. sync_runs'[st.run].phase = "run" /\ sync_runs'[st.run].stage = st.job
    BY <2>1, <2>2, <2>6
  <2>11. st.pc # "lock" /\ st.job \in LockedStages /\ p \notin lost => locks[LockOf(st.job)] = p
    BY <2>2, <2>8
  <2> QED BY <1>3, <2>2, <2>3, <2>7, <2>9, <2>10, <2>11, MoveInvariant
<1> QED BY <1>2, <1>3 DEF InsertRun

\* Consumed requests stay requests, and stay terminal.
LEMMA ConsumeInvariant ==
  ASSUME IInv, NEW p \in Procs, ConsumeRequests(p)
  PROVE  IInv'
<1>1. Live(p) /\ proc[p].pc = "consume" /\ proc[p].run # 0 /\ proc[p].run \in Nat
  BY RunRow DEF ConsumeRequests, At, IInv, RunWhenInserted, Ids
<1>2. /\ sync_runs' = [q \in Ids |-> IF q \in PendingOf(proc[p].job)
                                    THEN [sync_runs[q] EXCEPT !.by = proc[p].run]
                                    ELSE sync_runs[q]]
      /\ UNCHANGED <<locks, lost, up, adm>>
  BY DEF ConsumeRequests
<1>3. ASSUME NEW q \in Ids
      PROVE  /\ sync_runs'[q] \in Row \cup {Free}
             /\ sync_runs'[q].phase = sync_runs[q].phase
             /\ sync_runs'[q].stage = sync_runs[q].stage
             /\ sync_runs'[q].phase = "retry_requested" => sync_runs'[q].status = "skipped"
  <2>1. CASE q \in PendingOf(proc[p].job)
    <3>1. sync_runs[q] \in Row
      BY <2>1, FreeByPhase DEF PendingOf, Requests, Used, IInv, TypeOK
    <3>2. sync_runs'[q] = [sync_runs[q] EXCEPT !.by = proc[p].run]
      BY <1>2, <2>1
    <3>3. sync_runs[q].phase = "retry_requested" => sync_runs[q].status = "skipped"
      BY DEF IInv, RequestsSkipped
    <3> QED BY <1>1, <3>1, <3>2, <3>3 DEF Row
  <2>2. CASE q \notin PendingOf(proc[p].job)
    BY <1>2, <2>2 DEF IInv, TypeOK, RequestsSkipped
  <2> QED BY <2>1, <2>2
<1>4. sync_runs' \in Table
  BY <1>2, <1>3 DEF Table
<1>5. SameRows(sync_runs)' /\ RunsStay
  BY <1>3, <1>4 DEF SameRows, RunsStay
<1>6. \E pc \in {"work", "unavailable"} : GoTo(p, pc)
  BY DEF ConsumeRequests
<1> QED BY <1>1, <1>2, <1>5, <1>6, GoToInvariant

\* A process past start_run has a run.
LEMMA HasRun ==
  ASSUME IInv, NEW p \in Procs, NEW pc \in {"consume", "unavailable", "work", "polled", "fallback"},
         At(p, pc)
  PROVE  /\ Live(p)
         /\ proc[p].pc # "lock" /\ proc[p].run # 0
         /\ SameRows(sync_runs)
         /\ \A v \in Terminal : SameRows(Transition(sync_runs, proc[p].run, v))
BY CurrentSameRows, TransitionSameRows DEF At, IInv, RunWhenInserted

\* finish_run keeps every run and its stage.
LEMMA TransitionKeepsRuns ==
  ASSUME IInv, NEW STATE t, SameRows(t), sync_runs' = t
  PROVE  SameRows(sync_runs)' /\ RunsStay
BY DEF SameRows, RunsStay

\* A polled process goes on, or closes its run and leaves.
LEMMA PollInvariant ==
  ASSUME IInv, NEW p \in Procs, Poll(p)
  PROVE  IInv'
<1>1. At(p, "work") /\ "cancelled" \in Terminal
  BY DEF Poll, Terminal
<1>2. CASE GoTo(p, "polled") /\ UNCHANGED <<sync_runs, locks, lost, up, adm>>
  BY <1>1, <1>2, HasRun, UnchangedTable, GoToInvariant
<1>3. CASE Leave(p, Transition(sync_runs, proc[p].run, "cancelled"), "returned")
  BY <1>1, <1>3, HasRun, LeaveInvariant DEF Owners
<1> QED BY <1>2, <1>3 DEF Poll

\* A heartbeat touches nothing but an age.
LEMMA BeatInvariant ==
  ASSUME IInv, NEW p \in Procs, Beat(p)
  PROVE  IInv'
<1> DEFINE x == proc[p].run
<1>1. Live(p) /\ x # 0
  BY HasRun DEF Beat
<1>2. x \in Ids /\ sync_runs[x] \in Row
  BY <1>1, RunRow
<1>3. /\ sync_runs' = [sync_runs EXCEPT ![x] = [sync_runs[x] EXCEPT !.age = 0]]
      /\ UNCHANGED <<locks, lost, proc, up, adm>>
  BY <1>2 DEF Beat, IInv, TypeOK
<1>4. [sync_runs[x] EXCEPT !.age = 0] \in Row
  BY <1>2 DEF Row
<1>5. SameRows(sync_runs)' /\ RunsStay
  <2>1. sync_runs' \in Table
    BY <1>3, <1>4 DEF IInv, TypeOK, Table
  <2>2. \A r \in Ids : /\ sync_runs'[r].phase = sync_runs[r].phase
                       /\ sync_runs'[r].stage = sync_runs[r].stage
                       /\ sync_runs'[r].status = sync_runs[r].status
    BY <1>2, <1>3 DEF IInv, TypeOK, Row
  <2> QED BY <2>1, <2>2 DEF SameRows, RunsStay, IInv, RequestsSkipped
<1> QED BY <1>3, <1>5, TableInvariant DEF IInv, TypeOK

\* A batch changes its process only.
LEMMA CommitInvariant ==
  ASSUME IInv, NEW p \in Procs, CommitBatch(p)
  PROVE  IInv'
<1> DEFINE after == proc[p].job \in PollingStages /\ ~ Running(proc[p].run) /\ proc[p].late < 2
<1> DEFINE late == IF after THEN proc[p].late + 1 ELSE proc[p].late
<1> DEFINE st == [proc[p] EXCEPT !.pc = "work", !.late = late]
<1>1. Live(p) /\ proc[p] \in ProcState /\ proc[p].run # 0 /\ proc[p].pc # "lock"
  BY HasRun DEF CommitBatch, IInv, TypeOK, Live
<1>2. proc[p].late \in 0 .. 2
  BY <1>1 DEF ProcState
<1>3. late \in 0 .. 2
  BY <1>2
<1>4. proc' = [proc EXCEPT ![p] = st] /\ UNCHANGED <<sync_runs, locks, lost, up, adm>>
  BY <1>1 DEF CommitBatch, IInv, TypeOK
<1> HIDE DEF late
<1>5. st \in ProcState /\ st.pc = "work" /\ st.run = proc[p].run /\ st.job = proc[p].job
  BY <1>1, <1>3 DEF ProcState
<1> HIDE DEF st
<1>6. st.run # 0 => sync_runs'[st.run].phase = "run" /\ sync_runs'[st.run].stage = st.job
  BY <1>1, <1>4, <1>5 DEF IInv, RunOfItsStage
<1>7. st.job \in LockedStages /\ p \notin lost => locks[LockOf(st.job)] = p
  BY <1>1, <1>5 DEF IInv, LockHeld, InSection
<1>8. st.run = 0 <=> st.pc \in {"lock", "check", "insert"}
  BY <1>1, <1>5
<1> QED BY <1>4, <1>5, <1>6, <1>7, <1>8, UnchangedTable, MoveInvariant

\* A verdict is one of the terminal values, whoever retries it.
LEMMA FinishInvariant ==
  ASSUME IInv, NEW p \in Procs, FinishRun(p) \/ FinishRaises(p) \/ Fallback(p)
  PROVE  IInv'
<1>1. {"success", "failed", "interrupted"} \subseteq Terminal /\ {"returned", "raised"} \subseteq Owners
  BY DEF Terminal, Owners
<1>2. CASE FinishRun(p)
  <2>1. At(p, "work")
    BY <1>2 DEF FinishRun
  <2>2. PICK v \in {"success", "failed"} : Leave(p, Transition(sync_runs, proc[p].run, v), "returned")
    BY <1>2 DEF FinishRun
  <2> QED BY <1>1, <2>1, <2>2, HasRun, LeaveInvariant
<1>3. CASE FinishRaises(p)
  <2>1. At(p, "work")
    BY <1>3 DEF FinishRaises
  <2>2. PICK v \in {"success", "failed", "running"} :
          LET t == IF v = "running" THEN sync_runs ELSE Transition(sync_runs, proc[p].run, v) IN
          \/ sync_runs' = t /\ GoTo(p, "fallback") /\ UNCHANGED <<locks, lost, up, adm>>
          \/ Leave(p, t, "raised")
    BY <1>3 DEF FinishRaises
  <2> DEFINE t == IF v = "running" THEN sync_runs ELSE Transition(sync_runs, proc[p].run, v)
  <2>3. SameRows(t)
    BY <1>1, <2>1, HasRun
  <2> HIDE DEF t
  <2>4. CASE sync_runs' = t /\ GoTo(p, "fallback") /\ UNCHANGED <<locks, lost, up, adm>>
    <3>1. SameRows(sync_runs)' /\ RunsStay
      BY <2>3, <2>4, TransitionKeepsRuns
    <3> QED BY <2>1, <2>4, <3>1, HasRun, GoToInvariant
  <2>5. CASE Leave(p, t, "raised")
    BY <1>1, <2>1, <2>3, <2>5, HasRun, LeaveInvariant
  <2> QED BY <2>2, <2>4, <2>5 DEF t
<1>4. CASE Fallback(p)
  <2>1. At(p, "fallback")
    BY <1>4 DEF Fallback
  <2>2. PICK v \in {"interrupted", "failed"} :
          \/ Leave(p, Transition(sync_runs, proc[p].run, v), "raised")
          \/ Leave(p, sync_runs, "raised")
    BY <1>4 DEF Fallback
  <2> QED BY <1>1, <2>1, <2>2, HasRun, LeaveInvariant
<1> QED BY <1>2, <1>3, <1>4

\* A process that ends early frees its lock, whatever it leaves behind.
LEMMA ExitInvariant ==
  ASSUME IInv, NEW p \in Procs,
         ConsumeRaises(p) \/ SkipRun(p) \/ Interrupt(p) \/ TimeoutKill(p) \/ Kill(p)
  PROVE  IInv'
<1>1. {"skipped", "interrupted"} \subseteq Terminal
      /\ {"returned", "raised", "sigterm", "sigkill"} \subseteq Owners
  BY DEF Terminal, Owners
<1>2. CASE ConsumeRaises(p)
  BY <1>1, <1>2, HasRun, LeaveInvariant DEF ConsumeRaises
<1>3. CASE SkipRun(p)
  BY <1>1, <1>3, HasRun, LeaveInvariant DEF SkipRun
<1>4. CASE Interrupt(p)
  <2>1. \/ Leave(p, Transition(sync_runs, proc[p].run, "interrupted"), "raised")
        \/ Leave(p, sync_runs, "raised")
    BY <1>4 DEF Interrupt
  <2>2. At(p, "work") \/ At(p, "polled")
    BY <1>4 DEF Interrupt
  <2> QED BY <1>1, <2>1, <2>2, HasRun, LeaveInvariant
<1>5. CASE TimeoutKill(p) \/ Kill(p)
  BY <1>1, <1>5, CurrentSameRows, LeaveInvariant DEF TimeoutKill, Kill
<1> QED BY <1>2, <1>3, <1>4, <1>5

\* A closed session frees the lock and marks its process as lost.
LEMMA LoseSessionInvariant ==
  ASSUME IInv, NEW p \in Procs, LoseSession(p)
  PROVE  IInv'
<1>1. /\ locks' = [k \in LockKeys |-> IF locks[k] = p THEN NoProc ELSE locks[k]]
      /\ lost' = lost \cup {p}
      /\ UNCHANGED <<sync_runs, proc, up, adm>>
  BY DEF LoseSession
<1>2. TypeOK'
  BY <1>1 DEF IInv, TypeOK
<1>3. RunWhenInserted' /\ RunOfItsStage' /\ RequestsSkipped'
  BY <1>1 DEF IInv, RunWhenInserted, RunOfItsStage, RequestsSkipped, Live
<1>4. LockHeld'
  <2> SUFFICES ASSUME NEW q \in Procs, InSection(q), q \notin lost'
               PROVE  locks'[LockOf(proc[q].job)] = q
    BY <1>1 DEF LockHeld, InSection, Live
  <2>1. q # p /\ locks[LockOf(proc[q].job)] = q
    BY <1>1 DEF IInv, LockHeld
  <2>2. LockOf(proc[q].job) \in LockKeys
    BY DEF InSection, LockedStages, LockOf, LockKeys
  <2> QED BY <1>1, <2>1, <2>2
<1> QED BY <1>2, <1>3, <1>4 DEF IInv

\* Closing rows that are running keeps every row's phase and stage.
LEMMA InterruptedSameRows ==
  ASSUME IInv, NEW STATE R, R \subseteq Ids, \A r \in R : Running(r), sync_runs' = Interrupted(R)
  PROVE  SameRows(sync_runs)' /\ RunsStay
<1>1. /\ Interrupted(R) \in Table
      /\ \A r \in Ids : /\ Interrupted(R)[r].phase = sync_runs[r].phase
                        /\ Interrupted(R)[r].stage = sync_runs[r].stage
                        /\ r \notin R => Interrupted(R)[r] = sync_runs[r]
  BY InterruptedTable DEF IInv
<1>2. \A r \in R : sync_runs[r].phase = "run"
  BY DEF Running, Runs
<1> QED BY <1>1, <1>2 DEF SameRows, RunsStay, IInv, RequestsSkipped

\* The web process closes running rows and inserts requests only.
LEMMA WebInvariant ==
  ASSUME IInv, WebStep
  PROVE  IInv'
<1>1. (\A r \in Stale : Running(r)) /\ (\A r \in TimedOut : Running(r))
      /\ Stale \subseteq Ids /\ TimedOut \subseteq Ids
  BY DEF Stale, TimedOut
<1>2. adm \in [Admins -> AdmState \cup {AdmIdle}] /\ up \in BOOLEAN
  BY DEF IInv, TypeOK
<1>3. CASE AppStart
  BY <1>1, <1>2, <1>3, InterruptedSameRows, TableInvariant DEF AppStart
<1>4. CASE AppStop
  BY <1>2, <1>4, UnchangedTable, TableInvariant DEF AppStop
<1>5. CASE Reap
  BY <1>1, <1>2, <1>5, InterruptedSameRows, TableInvariant DEF Reap
<1>6. CASE AdminRecover
  BY <1>1, <1>2, <1>6, InterruptedSameRows, TableInvariant DEF AdminRecover
<1>7. ASSUME NEW r \in Ids, RequestCancel(r)
      PROVE  IInv'
  <2>1. sync_runs[r] \in Row /\ sync_runs[r].status = "running" /\ sync_runs[r].phase = "run"
    BY <1>7, FreeByPhase DEF RequestCancel, Running, Runs, Used, IInv, TypeOK
  <2>2. sync_runs' = Transition(sync_runs, r, "cancelled")
    BY <1>7 DEF RequestCancel
  <2>3. sync_runs \in Table /\ "cancelled" \in Terminal
    BY DEF IInv, TypeOK, Table, Terminal
  <2>4. /\ sync_runs' \in Table
        /\ \A q \in Ids : q # r => sync_runs'[q] = sync_runs[q]
        /\ sync_runs'[r].phase = sync_runs[r].phase
        /\ sync_runs'[r].stage = sync_runs[r].stage
    BY <1>7, <2>1, <2>2, <2>3, TransitionTable
  <2>5. SameRows(sync_runs)' /\ RunsStay
    BY <2>1, <2>4 DEF SameRows, RunsStay, IInv, RequestsSkipped
  <2> QED BY <1>2, <1>7, <2>5, TableInvariant DEF RequestCancel
<1>8. ASSUME NEW a \in Admins, NEW r \in Ids, RetryLoad(a, r)
      PROVE  IInv'
  <2>1. sync_runs[r].stage \in Stages
    BY <1>8 DEF RetryLoad, SYNC_STAGES
  <2>2. [pc |-> "check", run |-> r, stage |-> sync_runs[r].stage] \in AdmState
    BY <2>1 DEF AdmState
  <2>3. adm' \in [Admins -> AdmState \cup {AdmIdle}]
    BY <1>2, <1>8, <2>2 DEF RetryLoad
  <2> QED BY <1>2, <1>8, <2>3, UnchangedTable, TableInvariant DEF RetryLoad
<1>9. ASSUME NEW a \in Admins, RetryCheck(a)
      PROVE  IInv'
  <2>1. adm[a] \in AdmState
    BY <1>2, <1>9 DEF RetryCheck
  <2>2. [adm[a] EXCEPT !.pc = "insert"] \in AdmState
    BY <2>1 DEF AdmState
  <2>3. adm' = [adm EXCEPT ![a] = AdmIdle] \/ adm' = [adm EXCEPT ![a] = [adm[a] EXCEPT !.pc = "insert"]]
    BY <1>2, <1>9 DEF RetryCheck
  <2>4. adm' \in [Admins -> AdmState \cup {AdmIdle}]
    BY <1>2, <2>2, <2>3
  <2> QED BY <1>2, <1>9, <2>4, UnchangedTable, TableInvariant DEF RetryCheck
<1>10. ASSUME NEW a \in Admins, RetryInsert(a)
       PROVE  IInv'
  <2>1. adm[a] \in AdmState
    BY <1>2, <1>10 DEF RetryInsert
  <2> DEFINE row == [phase |-> "retry_requested", stage |-> adm[a].stage, status |-> "skipped",
                     age |-> 0, for |-> adm[a].run, by |-> 0, owner |-> "none"]
  <2>2. row \in Row /\ row.phase = "retry_requested" /\ row.status = "skipped"
    BY <2>1 DEF AdmState, Row, Owners, Terminal, Ids
  <2>3. PICK q \in Ids : IsNextId(q) /\ sync_runs' = [sync_runs EXCEPT ![q] = row]
    BY <1>10 DEF RetryInsert
  <2> HIDE DEF row
  <2>4. sync_runs[q].phase = "free"
    BY <2>3 DEF IsNextId, Used, Free
  <2>5. SameRows(sync_runs)' /\ RunsStay
    BY <2>2, <2>3, <2>4 DEF SameRows, RunsStay, Table, IInv, TypeOK, RequestsSkipped
  <2>6. adm' \in [Admins -> AdmState \cup {AdmIdle}]
    BY <1>2, <1>10 DEF RetryInsert
  <2> QED BY <1>2, <1>10, <2>5, <2>6, TableInvariant DEF RetryInsert
<1> QED BY <1>3, <1>4, <1>5, <1>6, <1>7, <1>8, <1>9, <1>10 DEF WebStep

\* Time only makes running rows and processes older.
LEMMA TickRows ==
  ASSUME IInv, Tick
  PROVE  /\ sync_runs' \in Table
         /\ \A r \in Ids : /\ sync_runs'[r].phase = sync_runs[r].phase
                           /\ sync_runs'[r].stage = sync_runs[r].stage
                           /\ sync_runs'[r].status = sync_runs[r].status
                           /\ sync_runs'[r].by = sync_runs[r].by
<1>1. sync_runs' = [r \in Ids |-> IF Running(r) THEN [sync_runs[r] EXCEPT !.age = Older(@)]
                                                ELSE sync_runs[r]]
  BY DEF Tick
<1>2. ASSUME NEW r \in Ids
      PROVE  /\ sync_runs'[r] \in Row \cup {Free}
             /\ sync_runs'[r].phase = sync_runs[r].phase
             /\ sync_runs'[r].stage = sync_runs[r].stage
             /\ sync_runs'[r].status = sync_runs[r].status
             /\ sync_runs'[r].by = sync_runs[r].by
  <2>1. CASE Running(r)
    <3>1. sync_runs[r] \in Row
      BY <2>1, FreeByPhase DEF Running, Runs, Used, IInv, TypeOK
    <3> DEFINE n == Older(sync_runs[r].age)
    <3>2. n \in Nat
      BY <3>1 DEF Older, Row
    <3>3. sync_runs'[r] = [sync_runs[r] EXCEPT !.age = n]
      BY <1>1, <2>1
    <3> HIDE DEF n
    <3> QED BY <3>1, <3>2, <3>3 DEF Row
  <2>2. CASE ~ Running(r)
    BY <1>1, <2>2 DEF IInv, TypeOK
  <2> QED BY <2>1, <2>2
<1> QED BY <1>1, <1>2 DEF Table

\* Time changes ages and elapsed budgets only.
LEMMA TickInvariant ==
  ASSUME IInv, Tick
  PROVE  IInv'
<1>1. /\ proc' = [p \in Procs |-> IF Live(p) /\ proc[p].scheduled
                                  THEN [proc[p] EXCEPT !.elapsed = @ + 1] ELSE proc[p]]
      /\ UNCHANGED <<locks, lost, up, adm>>
  BY DEF Tick
<1>2. ASSUME NEW p \in Procs
      PROVE  /\ proc'[p] \in ProcState \cup {Idle}
             /\ Live(p)' => Live(p) /\ proc'[p].pc = proc[p].pc /\ proc'[p].run = proc[p].run
                            /\ proc'[p].job = proc[p].job
  <2>1. CASE Live(p) /\ proc[p].scheduled
    <3>1. proc[p] \in ProcState
      BY <2>1 DEF Live, IInv, TypeOK
    <3>2. proc'[p] = [proc[p] EXCEPT !.elapsed = proc[p].elapsed + 1]
      BY <1>1, <2>1
    <3> QED BY <2>1, <3>1, <3>2 DEF ProcState
  <2>2. CASE ~ (Live(p) /\ proc[p].scheduled)
    BY <1>1, <2>2 DEF IInv, TypeOK, Live
  <2> QED BY <2>1, <2>2
<1>3. TypeOK'
  BY <1>1, <1>2, TickRows DEF IInv, TypeOK, Table
<1>4. RunWhenInserted'
  BY <1>2 DEF IInv, RunWhenInserted
<1>5. RunOfItsStage'
  <2> SUFFICES ASSUME NEW p \in Procs, Live(p)', proc'[p].run # 0
               PROVE  /\ sync_runs'[proc'[p].run].phase = "run"
                      /\ sync_runs'[proc'[p].run].stage = proc'[p].job
    BY DEF RunOfItsStage
  <2> QED BY <1>2, RunRow, TickRows DEF IInv, RunOfItsStage
<1>6. RequestsSkipped'
  BY TickRows DEF IInv, RequestsSkipped
<1>7. LockHeld'
  BY <1>1, <1>2 DEF IInv, LockHeld, InSection
<1> QED BY <1>3, <1>4, <1>5, <1>6, <1>7 DEF IInv

\* Every step of a stage process keeps the invariant.
LEMMA StageInvariant ==
  ASSUME IInv, NEW p \in Procs, StageStep(p)
  PROVE  IInv'
BY LaunchInvariant, TakeLockInvariant, CheckRunningInvariant, InsertRunInvariant,
   ConsumeInvariant, PollInvariant, BeatInvariant, CommitInvariant, FinishInvariant,
   ExitInvariant, LoseSessionInvariant
DEF StageStep

----------------------------------------------------------------------------
(* The theorems                                                            *)

\* The empty table satisfies it.
LEMMA InitInvariant == Init => IInv
<1> SUFFICES ASSUME Init PROVE IInv
  OBVIOUS
<1>1. TypeOK
  BY DEF Init, TypeOK
<1>2. RunWhenInserted /\ RunOfItsStage /\ LockHeld
  BY DEF Init, RunWhenInserted, RunOfItsStage, LockHeld, InSection, Live
<1>3. RequestsSkipped
  BY FreeByPhase DEF Init, RequestsSkipped
<1> QED BY <1>1, <1>2, <1>3 DEF IInv

\* It is inductive.
LEMMA NextInvariant == IInv /\ [Next]_vars => IInv'
<1> SUFFICES ASSUME IInv, [Next]_vars PROVE IInv'
  OBVIOUS
<1>1. CASE Next
  BY <1>1, StageInvariant, WebInvariant, TickInvariant DEF Next
<1>2. CASE UNCHANGED vars
  <2>1. UNCHANGED <<sync_runs, locks, lost, proc, up, adm>>
    BY <1>2 DEF vars
  <2>2. adm \in [Admins -> AdmState \cup {AdmIdle}] /\ up \in BOOLEAN
    BY DEF IInv, TypeOK
  <2> QED BY <2>1, <2>2, UnchangedTable, TableInvariant
<1> QED BY <1>1, <1>2

\* In every behaviour the rows, the locks and the processes keep their types and
\* a process's run is a row of its stage (sync_audit.py, the CHECK constraint of
\* app/db.py).
THEOREM TypeCorrect == Spec => []TypeOK
<1>1. IInv => TypeOK
  BY DEF IInv
<1> QED BY <1>1, InitInvariant, NextInvariant, PTL DEF Spec

\* The inductive invariant: the types, processes against the rows they inserted,
\* requests that are terminal from the start, and locks against program counters.
THEOREM Invariance == Spec => []IInv
BY InitInvariant, NextInvariant, PTL DEF Spec

\* Whatever admins, the reaper and crashes do to the audit rows, two processes
\* that work under one advisory lock at the same time mean that the server
\* closed the session of one of them (advisory_lock, sync_audit.py:489-524).
THEOREM MutualExclusion == Spec => []OneWorkerPerLock
<1>1. IInv => OneWorkerPerLock
  BY DEF IInv, LockHeld, OneWorkerPerLock
<1> QED BY <1>1, InitInvariant, NextInvariant, PTL DEF Spec

----------------------------------------------------------------------------
(* The audit table implements the ledger                                   *)

LedgerVar == LedgerOf(sync_runs)

\* A running row is an open run of the ledger.
LEMMA LedgerRowOfRun ==
  ASSUME IInv, NEW r \in Ids, Running(r)
  PROVE  /\ sync_runs[r] \in Row /\ sync_runs[r].stage \in Stages
         /\ LedgerVar[r] = [kind |-> "run", stage |-> sync_runs[r].stage, verdict |-> "running"]
<1>1. sync_runs[r] \in Row /\ sync_runs[r].phase = "run" /\ sync_runs[r].status = "running"
  BY FreeByPhase DEF Running, Runs, Used, IInv, TypeOK
<1>2. LedgerVar[r] = [kind |-> "run", stage |-> sync_runs[r].stage, verdict |-> "running"]
  BY <1>1 DEF LedgerVar, LedgerOf, LedgerRow
<1>3. sync_runs[r].stage \in Stages
  BY <1>1 DEF Row
<1> QED BY <1>1, <1>2, <1>3

\* A step that changes no verdict and fulfils no request stutters.
LEMMA LedgerStutter ==
  ASSUME \A r \in Ids : LedgerRow(sync_runs'[r]) = LedgerRow(sync_runs[r])
  PROVE  LedgerVar' = LedgerVar
BY DEF LedgerVar, LedgerOf

\* A step that closes the running rows R with one verdict is a Close.
LEMMA LedgerClose ==
  ASSUME IInv, NEW STATE R, R \subseteq Ids, \A r \in R : Running(r), NEW v \in Terminal,
         \A r \in R : LedgerRow(sync_runs'[r]) = LedgerRow(Closed(sync_runs[r], v)),
         \A r \in Ids \ R : LedgerRow(sync_runs'[r]) = LedgerRow(sync_runs[r])
  PROVE  Ledger!LedgerNext
<1>1. ASSUME NEW r \in R
      PROVE  /\ \E s \in Stages : Ledger!IsOpen(r, s)
             /\ LedgerVar'[r] = Ledger!ClosedRun(LedgerVar[r].stage, v)
  <2>1. /\ r \in Ids /\ sync_runs[r] \in Row /\ sync_runs[r].stage \in Stages
        /\ LedgerVar[r] = [kind |-> "run", stage |-> sync_runs[r].stage, verdict |-> "running"]
    BY <1>1, LedgerRowOfRun
  <2>2. \E s \in Stages : Ledger!IsOpen(r, s)
    BY <2>1 DEF Ledger!IsOpen, Ledger!OpenRun, LedgerVar
  <2>3. /\ Closed(sync_runs[r], v).phase = "run"
        /\ Closed(sync_runs[r], v).stage = sync_runs[r].stage
        /\ Closed(sync_runs[r], v).status = v
    BY <1>1, <2>1, ClosedRow DEF Running, Runs
  <2>4. LedgerRow(Closed(sync_runs[r], v))
          = [kind |-> "run", stage |-> sync_runs[r].stage, verdict |-> v]
    BY <2>3 DEF LedgerRow
  <2>5. LedgerVar'[r] = LedgerRow(sync_runs'[r])
    BY <2>1 DEF LedgerVar, LedgerOf
  <2> QED BY <1>1, <2>1, <2>2, <2>4, <2>5 DEF Ledger!ClosedRun
<1>2. \A r \in Ids \ R : LedgerVar'[r] = LedgerVar[r]
  BY DEF LedgerVar, LedgerOf
<1>3. LedgerVar' = [r \in Ids |-> IF r \in R THEN Ledger!ClosedRun(LedgerVar[r].stage, v)
                                             ELSE LedgerVar[r]]
  BY <1>1, <1>2 DEF LedgerVar, LedgerOf
<1>4. R \in SUBSET Ledger!OpenRuns
  BY <1>1 DEF Ledger!OpenRuns
<1>5. Ledger!Close(R, v)
  BY <1>3, <1>4 DEF Ledger!Close, LedgerVar
<1> QED BY <1>4, <1>5 DEF Ledger!LedgerNext

\* A process that ends with finish_run(v), or without a word.
LEMMA LedgerLeave ==
  ASSUME IInv, NEW p \in Procs, Live(p), NEW how \in Owners,
         \/ Leave(p, sync_runs, how)
         \/ /\ proc[p].run # 0
            /\ \E v \in Terminal : Leave(p, Transition(sync_runs, proc[p].run, v), how)
  PROVE  [Ledger!LedgerNext]_LedgerVar
<1> DEFINE x == proc[p].run
<1>1. CASE Leave(p, sync_runs, how)
  BY <1>1, CurrentSameRows, LeaveRows, LedgerStutter
<1>2. ASSUME x # 0, NEW v \in Terminal, Leave(p, Transition(sync_runs, x, v), how)
      PROVE  [Ledger!LedgerNext]_LedgerVar
  <2> DEFINE t == Transition(sync_runs, x, v)
  <2>1. x \in Ids /\ sync_runs[x] \in Row /\ sync_runs[x].phase = "run"
    BY <1>2, RunRow
  <2>2. \A r \in Ids : LedgerRow(sync_runs'[r]) = LedgerRow(t[r])
    BY <1>2, TransitionSameRows, LeaveRows
  <2>3. CASE sync_runs[x].status = "running"
    <3>1. t = [sync_runs EXCEPT ![x] = Closed(sync_runs[x], v)]
      BY <2>3 DEF Transition
    <3>2. t[x] = Closed(sync_runs[x], v) /\ \A r \in Ids : r # x => t[r] = sync_runs[r]
      BY <2>1, <3>1 DEF IInv, TypeOK
    <3>3. Running(x)
      BY <2>1, <2>3, FreeByPhase DEF Running, Runs, Used
    <3> DEFINE R == {x}
    <3>4. /\ R \subseteq Ids /\ \A r \in R : Running(r)
          /\ \A r \in R : LedgerRow(sync_runs'[r]) = LedgerRow(Closed(sync_runs[r], v))
          /\ \A r \in Ids \ R : LedgerRow(sync_runs'[r]) = LedgerRow(sync_runs[r])
      BY <2>1, <2>2, <3>2, <3>3
    <3> HIDE DEF R
    <3> QED BY <3>4, LedgerClose
  <2>4. CASE sync_runs[x].status # "running"
    <3>1. t = sync_runs
      BY <2>4 DEF Transition
    <3> QED BY <2>2, <3>1, LedgerStutter
  <2> QED BY <2>3, <2>4
<1> QED BY <1>1, <1>2

\* The INSERT of start_run opens a run.
LEMMA LedgerInsert ==
  ASSUME IInv, NEW p \in Procs, InsertRun(p)
  PROVE  [Ledger!LedgerNext]_LedgerVar
<1> DEFINE s == proc[p].job
<1>1. Live(p) /\ s \in Stages /\ proc[p].run = 0
  BY DEF InsertRun, At, Live, IInv, TypeOK, ProcState, RunWhenInserted
<1>2. CASE Leave(p, sync_runs, "returned")
  BY <1>1, <1>2, LedgerLeave DEF Owners
<1>3. ASSUME KeyIsFree(s), NEW r \in Ids, IsNextId(r),
             sync_runs' = [sync_runs EXCEPT ![r] =
               [phase |-> "run", stage |-> s, status |-> "running",
                age |-> 0, for |-> 0, by |-> 0, owner |-> "alive"]]
      PROVE  Ledger!LedgerNext
  <2>1. sync_runs[r] = Free
    BY <1>3 DEF IsNextId, Used
  <2>2. LedgerVar[r] = Ledger!Absent
    BY <2>1 DEF LedgerVar, LedgerOf, LedgerRow, Free, Ledger!Absent
  <2>3. LedgerVar' = [LedgerVar EXCEPT ![r] = Ledger!OpenRun(s)]
    <3>1. LedgerRow(sync_runs'[r]) = Ledger!OpenRun(s)
      BY <1>3 DEF LedgerRow, Ledger!OpenRun, IInv, TypeOK
    <3>2. \A q \in Ids : q # r => sync_runs'[q] = sync_runs[q]
      BY <1>3 DEF IInv, TypeOK
    <3> QED BY <3>1, <3>2 DEF LedgerVar, LedgerOf
  <2>4. ASSUME s \in KeyedStages, NEW q \in Ids, Ledger!IsOpen(q, s) PROVE FALSE
    <3>1. LedgerRow(sync_runs[q]) = [kind |-> "run", stage |-> s, verdict |-> "running"]
      BY <2>4 DEF Ledger!IsOpen, Ledger!OpenRun, LedgerVar, LedgerOf
    <3>2. sync_runs[q].phase = "run" /\ sync_runs[q].stage = s /\ sync_runs[q].status = "running"
      BY <3>1 DEF LedgerRow
    <3>3. q \in RunningOf(s)
      BY <3>2, FreeByPhase DEF RunningOf, Running, Runs, Used
    <3> QED BY <1>3, <2>4, <3>3 DEF KeyIsFree
  <2>5. Ledger!Open(r, s)
    BY <2>2, <2>3, <2>4 DEF Ledger!Open, LedgerVar
  <2> QED BY <1>1, <2>5 DEF Ledger!LedgerNext
<1> QED BY <1>2, <1>3 DEF InsertRun

\* The INSERT of request_retry asks for one more run.
LEMMA LedgerAsk ==
  ASSUME IInv, NEW a \in Admins, RetryInsert(a)
  PROVE  Ledger!LedgerNext
<1>1. adm[a].stage \in Stages
  BY DEF RetryInsert, IInv, TypeOK, AdmState
<1> DEFINE s == adm[a].stage
<1>2. PICK q \in Ids : IsNextId(q) /\ sync_runs' = [sync_runs EXCEPT ![q] =
            [phase |-> "retry_requested", stage |-> s, status |-> "skipped",
             age |-> 0, for |-> adm[a].run, by |-> 0, owner |-> "none"]]
  BY DEF RetryInsert
<1> HIDE DEF s
<1>3. sync_runs[q] = Free
  BY <1>2 DEF IsNextId, Used
<1>4. LedgerVar[q] = Ledger!Absent
  BY <1>3 DEF LedgerVar, LedgerOf, LedgerRow, Free, Ledger!Absent
<1>5. LedgerVar' = [LedgerVar EXCEPT ![q] = Ledger!Pending(s)]
  <2>1. LedgerRow(sync_runs'[q]) = Ledger!Pending(s)
    BY <1>2 DEF LedgerRow, Ledger!Pending, IInv, TypeOK
  <2>2. \A r \in Ids : r # q => sync_runs'[r] = sync_runs[r]
    BY <1>2 DEF IInv, TypeOK
  <2> QED BY <2>1, <2>2 DEF LedgerVar, LedgerOf
<1>6. Ledger!Ask(q, s)
  BY <1>4, <1>5 DEF Ledger!Ask, LedgerVar
<1> QED BY <1>1, <1>6 DEF Ledger!LedgerNext, s

\* consume_retry_requests fulfils the pending requests of the stage.
LEMMA LedgerFulfil ==
  ASSUME IInv, NEW p \in Procs, ConsumeRequests(p)
  PROVE  Ledger!LedgerNext
<1> DEFINE x == proc[p].run
<1> DEFINE s == proc[p].job
<1>1. Live(p) /\ x # 0 /\ s \in Stages
  BY HasRun DEF ConsumeRequests, IInv, TypeOK, Live, ProcState
<1>2. /\ x \in Ids /\ sync_runs[x] \in Row /\ sync_runs[x].phase = "run"
      /\ sync_runs[x].stage = s
  BY <1>1, RunRow DEF IInv, RunOfItsStage
<1>3. sync_runs' = [q \in Ids |-> IF q \in PendingOf(s) THEN [sync_runs[q] EXCEPT !.by = x]
                                                       ELSE sync_runs[q]]
  BY DEF ConsumeRequests
<1>4. Ledger!IsRunOf(x, s)
  <2>1. LedgerVar[x] = Ledger!ClosedRun(s, sync_runs[x].status)
    BY <1>2 DEF LedgerVar, LedgerOf, LedgerRow, Ledger!ClosedRun
  <2>2. sync_runs[x].status \in Terminal \cup {"running"}
    BY <1>2 DEF Row
  <2> QED BY <2>1, <2>2 DEF Ledger!IsRunOf, LedgerVar
<1> HIDE DEF x, s
<1>5. ASSUME NEW q \in Ids
      PROVE  LedgerVar'[q] = IF LedgerVar[q] = Ledger!Pending(s) THEN Ledger!Fulfilled(s, x)
                                                                ELSE LedgerVar[q]
  <2>1. LedgerVar[q] = LedgerRow(sync_runs[q]) /\ LedgerVar'[q] = LedgerRow(sync_runs'[q])
    BY DEF LedgerVar, LedgerOf
  <2>2. CASE q \in PendingOf(s)
    <3>1. /\ sync_runs[q] \in Row /\ sync_runs[q].phase = "retry_requested"
          /\ sync_runs[q].stage = s /\ sync_runs[q].by = 0
      BY <2>2, FreeByPhase DEF PendingOf, Requests, Used, IInv, TypeOK
    <3>2. LedgerVar[q] = Ledger!Pending(s)
      BY <2>1, <3>1 DEF LedgerRow, Ledger!Pending
    <3>3. sync_runs'[q] = [sync_runs[q] EXCEPT !.by = x]
      BY <1>3, <2>2
    <3>4. /\ sync_runs'[q].phase = "retry_requested"
          /\ sync_runs'[q].stage = s /\ sync_runs'[q].by = x
      BY <3>1, <3>3 DEF Row
    <3>5. LedgerRow(sync_runs'[q]) = Ledger!Fulfilled(s, x)
      BY <3>4 DEF LedgerRow, Ledger!Fulfilled
    <3> QED BY <2>1, <3>2, <3>5
  <2>3. CASE q \notin PendingOf(s)
    <3>1. LedgerVar'[q] = LedgerVar[q]
      BY <1>3, <2>1, <2>3
    <3>2. ASSUME LedgerVar[q] = Ledger!Pending(s) PROVE FALSE
      <4>1. LedgerRow(sync_runs[q]) = [kind |-> "request", stage |-> s, by |-> 0]
        BY <2>1, <3>2 DEF Ledger!Pending
      <4>2. sync_runs[q].phase # "free" /\ sync_runs[q].phase # "run"
        BY <4>1 DEF LedgerRow
      <4>3. sync_runs[q].stage = s /\ sync_runs[q].by = 0
        BY <4>1, <4>2 DEF LedgerRow
      <4>4. sync_runs[q] \in Row /\ sync_runs[q] # Free
        BY <4>2, FreeByPhase DEF IInv, TypeOK
      <4>5. sync_runs[q].phase = "retry_requested"
        BY <4>2, <4>4 DEF Row
      <4> QED BY <2>3, <4>3, <4>4, <4>5 DEF PendingOf, Requests, Used
    <3> QED BY <3>1, <3>2
  <2> QED BY <2>2, <2>3
<1>6. LedgerVar' = [q \in Ids |-> IF LedgerVar[q] = Ledger!Pending(s)
                                  THEN Ledger!Fulfilled(s, x) ELSE LedgerVar[q]]
  BY <1>5 DEF LedgerVar, LedgerOf
<1>7. Ledger!Fulfil(x, s)
  BY <1>4, <1>6 DEF Ledger!Fulfil, LedgerVar
<1> QED BY <1>1, <1>2, <1>7 DEF Ledger!LedgerNext, x, s

\* finish_run whose process lives on, to try again.
LEMMA LedgerFinishRaises ==
  ASSUME IInv, NEW p \in Procs, FinishRaises(p)
  PROVE  [Ledger!LedgerNext]_LedgerVar
<1>1. Live(p) /\ proc[p].run # 0
  BY HasRun DEF FinishRaises
<1> DEFINE x == proc[p].run
<1>2. x \in Ids /\ sync_runs[x] \in Row /\ sync_runs[x].phase = "run"
  BY <1>1, RunRow
<1>3. {"success", "failed"} \subseteq Terminal /\ "raised" \in Owners
  BY DEF Terminal, Owners
<1>4. PICK v \in {"success", "failed", "running"} :
        LET t == IF v = "running" THEN sync_runs ELSE Transition(sync_runs, x, v) IN
        sync_runs' = t \/ Leave(p, t, "raised")
  BY DEF FinishRaises
<1>5. CASE v = "running"
  BY <1>1, <1>3, <1>4, <1>5, LedgerLeave, LedgerStutter
<1>6. CASE v # "running" /\ Leave(p, Transition(sync_runs, x, v), "raised")
  BY <1>1, <1>3, <1>6, LedgerLeave
<1>7. CASE v # "running" /\ sync_runs' = Transition(sync_runs, x, v)
  <2>1. CASE sync_runs[x].status = "running"
    <3>1. sync_runs' = [sync_runs EXCEPT ![x] = Closed(sync_runs[x], v)]
      BY <1>7, <2>1 DEF Transition
    <3>2. Running(x)
      BY <1>2, <2>1, FreeByPhase DEF Running, Runs, Used
    <3> DEFINE R == {x}
    <3>3. /\ R \subseteq Ids /\ \A r \in R : Running(r)
          /\ \A r \in R : LedgerRow(sync_runs'[r]) = LedgerRow(Closed(sync_runs[r], v))
          /\ \A r \in Ids \ R : LedgerRow(sync_runs'[r]) = LedgerRow(sync_runs[r])
      BY <1>2, <3>1, <3>2 DEF IInv, TypeOK
    <3> HIDE DEF R
    <3> QED BY <1>3, <1>4, <1>7, <3>3, LedgerClose
  <2>2. CASE sync_runs[x].status # "running"
    <3>1. sync_runs' = sync_runs
      BY <1>7, <2>2 DEF Transition
    <3> QED BY <3>1, LedgerStutter
  <2> QED BY <2>1, <2>2
<1> QED BY <1>4, <1>5, <1>6, <1>7

\* Every step of a stage process is a step of the ledger, or none.
LEMMA LedgerStage ==
  ASSUME IInv, NEW p \in Procs, StageStep(p)
  PROVE  [Ledger!LedgerNext]_LedgerVar
<1>1. {"skipped", "cancelled", "success", "failed", "interrupted"} \subseteq Terminal
      /\ {"returned", "raised", "sigterm", "sigkill"} \subseteq Owners
  BY DEF Terminal, Owners
<1>2. CASE UNCHANGED sync_runs
  BY <1>2, LedgerStutter
<1>3. CASE (\E s \in Stages, b \in BOOLEAN : Launch(p, s, b)) \/ CommitBatch(p) \/ LoseSession(p)
  BY <1>2, <1>3 DEF Launch, CommitBatch, LoseSession
<1>4. CASE TakeLock(p)
  <2>1. Live(p)
    BY <1>4 DEF TakeLock, At
  <2> QED BY <1>1, <1>2, <1>4, <2>1, LedgerLeave DEF TakeLock
<1>5. CASE CheckRunning(p)
  <2>1. Live(p)
    BY <1>5 DEF CheckRunning, At
  <2> QED BY <1>1, <1>2, <1>5, <2>1, LedgerLeave DEF CheckRunning
<1>6. CASE Poll(p)
  BY <1>1, <1>2, <1>6, HasRun, LedgerLeave DEF Poll
<1>7. CASE Beat(p)
  <2>1. proc[p].run \in Ids /\ sync_runs[proc[p].run] \in Row
    BY <1>7, HasRun, RunRow DEF Beat
  <2>2. sync_runs' = [sync_runs EXCEPT ![proc[p].run].age = 0]
    BY <1>7 DEF Beat
  <2>3. \A r \in Ids : /\ sync_runs'[r].phase = sync_runs[r].phase
                       /\ sync_runs'[r].stage = sync_runs[r].stage
                       /\ sync_runs'[r].status = sync_runs[r].status
                       /\ sync_runs'[r].by = sync_runs[r].by
    BY <2>1, <2>2 DEF IInv, TypeOK, Row
  <2> QED BY <2>3, LedgerStutter DEF LedgerRow
<1>8. CASE FinishRun(p)
  BY <1>1, <1>8, HasRun, LedgerLeave DEF FinishRun
<1>9. CASE Fallback(p)
  BY <1>1, <1>9, HasRun, LedgerLeave DEF Fallback
<1>10. CASE ConsumeRaises(p) \/ SkipRun(p)
  BY <1>1, <1>10, HasRun, LedgerLeave DEF ConsumeRaises, SkipRun
<1>11. CASE Interrupt(p)
  <2>1. At(p, "work") \/ At(p, "polled")
    BY <1>11 DEF Interrupt
  <2> QED BY <1>1, <1>11, <2>1, HasRun, LedgerLeave DEF Interrupt
<1>12. CASE TimeoutKill(p) \/ Kill(p)
  BY <1>1, <1>12, LedgerLeave DEF TimeoutKill, Kill
<1> QED BY <1>3, <1>4, <1>5, <1>6, <1>7, <1>8, <1>9, <1>10, <1>11, <1>12,
           LedgerInsert, LedgerFulfil, LedgerFinishRaises DEF StageStep

\* A recovery, a reaper pass and a cancellation close running rows.
LEMMA LedgerInterrupt ==
  ASSUME IInv, NEW STATE R, R \subseteq Ids, \A r \in R : Running(r), sync_runs' = Interrupted(R)
  PROVE  Ledger!LedgerNext
<1>1. "interrupted" \in Terminal
  BY DEF Terminal
<1>2. /\ \A r \in R : sync_runs'[r] = Closed(sync_runs[r], "interrupted")
      /\ \A r \in Ids \ R : sync_runs'[r] = sync_runs[r]
  BY DEF Interrupted
<1> QED BY <1>1, <1>2, LedgerClose

\* Every step of the web process is a step of the ledger, or none.
LEMMA LedgerWeb ==
  ASSUME IInv, WebStep
  PROVE  [Ledger!LedgerNext]_LedgerVar
<1>1. (\A r \in Stale : Running(r)) /\ (\A r \in TimedOut : Running(r))
      /\ Stale \subseteq Ids /\ TimedOut \subseteq Ids
  BY DEF Stale, TimedOut
<1>2. CASE AppStart \/ Reap \/ AdminRecover
  BY <1>1, <1>2, LedgerInterrupt DEF AppStart, Reap, AdminRecover
<1>3. ASSUME NEW x \in Ids, RequestCancel(x)
      PROVE  Ledger!LedgerNext
  <2>1. Running(x) /\ sync_runs' = [sync_runs EXCEPT ![x] = Closed(sync_runs[x], "cancelled")]
    BY <1>3 DEF RequestCancel, Running, Transition
  <2> DEFINE R == {x}
  <2>2. /\ R \subseteq Ids /\ \A r \in R : Running(r) /\ "cancelled" \in Terminal
        /\ \A r \in R : LedgerRow(sync_runs'[r]) = LedgerRow(Closed(sync_runs[r], "cancelled"))
        /\ \A r \in Ids \ R : LedgerRow(sync_runs'[r]) = LedgerRow(sync_runs[r])
    BY <2>1 DEF IInv, TypeOK, Terminal
  <2>3. "cancelled" \in Terminal
    BY DEF Terminal
  <2> HIDE DEF R
  <2> QED BY <2>2, <2>3, LedgerClose
<1>4. CASE UNCHANGED sync_runs
  BY <1>4, LedgerStutter
<1>5. ASSUME NEW a \in Admins, (\E r \in Ids : RetryLoad(a, r)) \/ RetryCheck(a) \/ RetryInsert(a)
      PROVE  [Ledger!LedgerNext]_LedgerVar
  BY <1>4, <1>5, LedgerAsk DEF RetryLoad, RetryCheck
<1>6. CASE AppStop
  BY <1>4, <1>6 DEF AppStop
<1> QED BY <1>2, <1>3, <1>5, <1>6 DEF WebStep

\* Every step of the processes, the reaper and the admins is a step of the
\* ledger, or leaves it alone: verdicts are final whoever writes last (Issue
\* #28), a key has one open run (Issue #38), a request is fulfilled once, by a
\* run of its stage (Issue #77).
THEOREM LedgerImplementation == Spec => ImplementsLedger
<1>1. Init => Ledger!LedgerInit
  BY DEF Init, Ledger!LedgerInit, LedgerOf, LedgerRow, Free, Ledger!Absent
<1>2. IInv /\ [Next]_vars => [Ledger!LedgerNext]_(LedgerOf(sync_runs))
  <2> SUFFICES ASSUME IInv, [Next]_vars PROVE [Ledger!LedgerNext]_(LedgerOf(sync_runs))
    OBVIOUS
  <2>1. CASE \E p \in Procs : StageStep(p)
    BY <2>1, LedgerStage DEF LedgerVar
  <2>2. CASE WebStep
    BY <2>2, LedgerWeb DEF LedgerVar
  <2>3. CASE Tick
    BY <2>3, TickRows, LedgerStutter DEF LedgerRow, LedgerVar
  <2>4. CASE UNCHANGED vars
    BY <2>4, LedgerStutter DEF LedgerVar, vars
  <2> QED BY <2>1, <2>2, <2>3, <2>4 DEF Next
<1> QED BY <1>1, <1>2, Invariance, PTL DEF Spec, ImplementsLedger, Ledger!LedgerSpec

----------------------------------------------------------------------------
(* What a step may do to a row                                             *)

\* The process that holds the run r has nothing more to say about it, or only
\* its fallback.
DoneWith(p, r) == /\ Live(p) /\ proc[p].run = r
                  /\ Live(p)' => proc'[p].pc = "fallback"

\* A row stays in its phase and stage, a verdict is final, and a request stays
\* fulfilled.
RowKept(r) ==
  /\ sync_runs'[r] \in Row
  /\ sync_runs'[r].phase = sync_runs[r].phase /\ sync_runs'[r].stage = sync_runs[r].stage
  /\ sync_runs[r].status # "running" => sync_runs'[r].status = sync_runs[r].status
  /\ sync_runs[r].by # 0 => sync_runs'[r].by # 0

\* The clock of a row does not advance and its verdict does not change.
RowQuiet(r) == /\ sync_runs'[r].status = sync_runs[r].status
               /\ sync_runs'[r].age \in {sync_runs[r].age, 0}

\* What a step of the process p does to the table: rows appear at the next id
\* only, and p closes no row but its own, on its way out.
RowsOfStage(p) ==
  \A r \in Ids :
    /\ r \notin Used => sync_runs'[r] = Free \/ IsNextId(r)
    /\ r \in Used => RowKept(r) /\ (RowQuiet(r) \/ DoneWith(p, r))

\* A used row is a row.
LEMMA UsedRow == ASSUME TypeOK, NEW r \in Ids
                 PROVE  (r \in Used => sync_runs[r] \in Row) /\ (r \notin Used => sync_runs[r] = Free)
BY DEF TypeOK, Used

\* A running row is used, and a run.
LEMMA RunningRow == ASSUME TypeOK, NEW r \in Ids
                    PROVE  r \in Used => (Running(r) <=> sync_runs[r].phase = "run"
                                                         /\ sync_runs[r].status = "running")
BY DEF TypeOK, Used, Running, Runs

\* A step that leaves the table alone.
LEMMA RowsUnchanged == ASSUME IInv, UNCHANGED sync_runs
                       PROVE  \A r \in Ids : /\ r \notin Used => sync_runs'[r] = Free
                                             /\ r \in Used => RowKept(r) /\ RowQuiet(r)
BY UsedRow DEF IInv, RowKept, RowQuiet

\* finish_run touches the row of the run only, and only while it is running.
LEMMA TransitionRow ==
  ASSUME IInv, NEW p \in Procs, Live(p), proc[p].run # 0, NEW v \in Terminal, NEW r \in Ids
  PROVE  LET t == Transition(sync_runs, proc[p].run, v) IN
         /\ r # proc[p].run => t[r] = sync_runs[r]
         /\ r = proc[p].run => /\ t[r] \in Row
                               /\ t[r].phase = sync_runs[r].phase
                               /\ t[r].stage = sync_runs[r].stage
                               /\ t[r].by = sync_runs[r].by
                               /\ sync_runs[r].status # "running" => t[r] = sync_runs[r]
<1> DEFINE x == proc[p].run
<1> DEFINE t == Transition(sync_runs, x, v)
<1>1. x \in Ids /\ sync_runs[x] \in Row
  BY RunRow
<1>2. CASE sync_runs[x].status = "running"
  <2>1. t = [sync_runs EXCEPT ![x] = Closed(sync_runs[x], v)]
    BY <1>2 DEF Transition
  <2>2. t[x] = Closed(sync_runs[x], v) /\ (r # x => t[r] = sync_runs[r])
    BY <1>1, <2>1 DEF IInv, TypeOK
  <2> QED BY <1>1, <1>2, <2>2, ClosedRow
<1>3. CASE sync_runs[x].status # "running"
  <2>1. t = sync_runs
    BY <1>3 DEF Transition
  <2> QED BY <1>1, <2>1
<1> QED BY <1>2, <1>3

\* The end of a process leaves its row as finish_run made it, with a new owner.
LEMMA OwnedRow ==
  ASSUME NEW t \in Table, NEW x \in Ids, t[x] \in Row, NEW how \in Owners, NEW r \in Ids
  PROVE  LET u == [t EXCEPT ![x].owner = how] IN
         /\ r # x => u[r] = t[r]
         /\ u[x] \in Row
         /\ u[x].phase = t[x].phase /\ u[x].stage = t[x].stage /\ u[x].status = t[x].status
         /\ u[x].age = t[x].age /\ u[x].by = t[x].by
BY DEF Table, Row

\* A process that ends with finish_run(v), or without a word.
LEMMA RowsOfLeave ==
  ASSUME IInv, NEW p \in Procs, Live(p), NEW how \in Owners,
         \/ Leave(p, sync_runs, how)
         \/ /\ proc[p].run # 0
            /\ \E v \in Terminal : Leave(p, Transition(sync_runs, proc[p].run, v), how)
  PROVE  RowsOfStage(p)
<1> DEFINE x == proc[p].run
<1>1. ~ Live(p)'
  BY DEF Leave, Live, IInv, TypeOK
<1>2. PICK t : /\ Leave(p, t, how)
               /\ \/ t = sync_runs
                  \/ x # 0 /\ \E v \in Terminal : t = Transition(sync_runs, x, v)
  OBVIOUS
<1>3. t \in Table
  BY <1>2, CurrentSameRows, TransitionSameRows DEF SameRows
<1>4. x # 0 => x \in Ids /\ sync_runs[x] \in Row /\ x \in Used
  BY RunRow, FreeByPhase DEF Used
<1>5. ASSUME NEW r \in Ids
      PROVE  /\ r # x => sync_runs'[r] = sync_runs[r]
             /\ r = x => /\ sync_runs'[r] \in Row
                         /\ sync_runs'[r].phase = sync_runs[r].phase
                         /\ sync_runs'[r].stage = sync_runs[r].stage
                         /\ sync_runs'[r].by = sync_runs[r].by
                         /\ sync_runs[r].status # "running"
                              => sync_runs'[r].status = sync_runs[r].status
  <2>1. /\ r # x => t[r] = sync_runs[r]
        /\ r = x => /\ t[r] \in Row
                    /\ t[r].phase = sync_runs[r].phase
                    /\ t[r].stage = sync_runs[r].stage
                    /\ t[r].by = sync_runs[r].by
                    /\ sync_runs[r].status # "running" => t[r].status = sync_runs[r].status
    <3>1. CASE t = sync_runs
      BY <1>4, <3>1 DEF Ids
    <3>2. CASE x # 0 /\ \E v \in Terminal : t = Transition(sync_runs, x, v)
      BY <3>2, TransitionRow
    <3> QED BY <1>2, <3>1, <3>2
  <2>2. CASE x # 0 /\ t[x].status = "running"
    <3>1. sync_runs' = [t EXCEPT ![x].owner = how] /\ x \in Ids /\ t[x] \in Row
      BY <1>2, <1>3, <1>4, <2>1, <2>2, TransitionRow DEF Leave
    <3> QED BY <1>3, <2>1, <3>1, OwnedRow
  <2>3. CASE ~ (x # 0 /\ t[x].status = "running")
    BY <1>2, <2>1, <2>3 DEF Leave
  <2> QED BY <2>2, <2>3
<1>6. ASSUME NEW r \in Ids
      PROVE  /\ r \notin Used => sync_runs'[r] = Free
             /\ r \in Used => RowKept(r) /\ (RowQuiet(r) \/ DoneWith(p, r))
  <2>1. CASE r = x
    BY <1>1, <1>4, <1>5, <2>1 DEF RowKept, DoneWith, Ids
  <2>2. CASE r # x
    <3>1. sync_runs'[r] = sync_runs[r]
      BY <1>5, <2>2
    <3> QED BY <3>1, UsedRow DEF IInv, RowKept, RowQuiet
  <2> QED BY <2>1, <2>2
<1> QED BY <1>6 DEF RowsOfStage

\* start_run inserts a row and touches no other.
LEMMA RowsOfInsert ==
  ASSUME IInv, NEW p \in Procs, InsertRun(p)
  PROVE  RowsOfStage(p)
<1>1. Live(p)
  BY DEF InsertRun, At
<1>2. CASE Leave(p, sync_runs, "returned")
  BY <1>1, <1>2, RowsOfLeave DEF Owners
<1>3. ASSUME NEW x \in Ids, IsNextId(x), NEW row, sync_runs' = [sync_runs EXCEPT ![x] = row]
      PROVE  RowsOfStage(p)
  <2>1. \A r \in Ids : r # x => sync_runs'[r] = sync_runs[r]
    BY <1>3 DEF IInv, TypeOK
  <2>2. x \notin Used
    BY <1>3 DEF IsNextId
  <2> QED BY <1>3, <2>1, <2>2, UsedRow DEF IInv, RowsOfStage, RowKept, RowQuiet
<1> QED BY <1>2, <1>3 DEF InsertRun

\* consume_retry_requests touches pending requests only.
LEMMA RowsOfConsume ==
  ASSUME IInv, NEW p \in Procs, ConsumeRequests(p)
  PROVE  /\ RowsOfStage(p)
         /\ \A q \in PendingOf(proc[p].job) : sync_runs'[q].by # 0
<1> DEFINE x == proc[p].run
<1>1. Live(p) /\ x # 0
  BY HasRun DEF ConsumeRequests
<1>2. x \in Nat
  BY <1>1, RunRow DEF Ids
<1>3. sync_runs' = [q \in Ids |-> IF q \in PendingOf(proc[p].job)
                                  THEN [sync_runs[q] EXCEPT !.by = x] ELSE sync_runs[q]]
  BY DEF ConsumeRequests
<1>4. ASSUME NEW r \in PendingOf(proc[p].job)
      PROVE  r \in Ids /\ r \in Used /\ RowKept(r) /\ RowQuiet(r) /\ sync_runs'[r].by = x
  <2>1. r \in Ids /\ r \in Used /\ sync_runs[r] \in Row
    BY UsedRow DEF PendingOf, Requests, Used, IInv
  <2>2. sync_runs'[r] = [sync_runs[r] EXCEPT !.by = x]
    BY <1>3, <2>1
  <2> QED BY <1>1, <1>2, <2>1, <2>2 DEF Row, RowKept, RowQuiet
<1>5. ASSUME NEW r \in Ids, r \notin PendingOf(proc[p].job)
      PROVE  /\ r \notin Used => sync_runs'[r] = Free
             /\ r \in Used => RowKept(r) /\ RowQuiet(r)
  <2>1. sync_runs'[r] = sync_runs[r]
    BY <1>3, <1>5
  <2> QED BY <2>1, UsedRow DEF IInv, RowKept, RowQuiet
<1> QED BY <1>1, <1>4, <1>5 DEF RowsOfStage

\* A heartbeat sets an age back to zero.
LEMMA RowsOfBeat ==
  ASSUME IInv, NEW p \in Procs, Beat(p)
  PROVE  RowsOfStage(p)
<1> DEFINE x == proc[p].run
<1>1. x \in Ids /\ sync_runs[x] \in Row
  BY HasRun, RunRow DEF Beat
<1>2. x \in Used
  BY <1>1, FreeByPhase DEF Used
<1>3. /\ sync_runs'[x] = [sync_runs[x] EXCEPT !.age = 0]
      /\ \A r \in Ids : r # x => sync_runs'[r] = sync_runs[r]
  BY <1>1 DEF Beat, IInv, TypeOK
<1>4. RowKept(x) /\ RowQuiet(x)
  BY <1>1, <1>3 DEF Row, RowKept, RowQuiet
<1>5. ASSUME NEW r \in Ids, r # x
      PROVE  /\ r \notin Used => sync_runs'[r] = Free
             /\ r \in Used => RowKept(r) /\ RowQuiet(r)
  <2>1. sync_runs'[r] = sync_runs[r]
    BY <1>3, <1>5
  <2> QED BY <2>1, UsedRow DEF IInv, RowKept, RowQuiet
<1> QED BY <1>2, <1>4, <1>5 DEF RowsOfStage

\* finish_run whose process lives on: it may only fall back.
LEMMA RowsOfFinishRaises ==
  ASSUME IInv, NEW p \in Procs, FinishRaises(p)
  PROVE  RowsOfStage(p)
<1> DEFINE x == proc[p].run
<1>1. Live(p) /\ x # 0 /\ {"success", "failed"} \subseteq Terminal /\ "raised" \in Owners
  BY HasRun DEF FinishRaises, Terminal, Owners
<1>2. x \in Ids /\ x \in Used
  BY <1>1, RunRow, FreeByPhase DEF Used
<1>3. PICK v \in {"success", "failed", "running"} :
        LET t == IF v = "running" THEN sync_runs ELSE Transition(sync_runs, x, v) IN
        (sync_runs' = t /\ GoTo(p, "fallback")) \/ Leave(p, t, "raised")
  BY DEF FinishRaises
<1>4. CASE v = "running" /\ sync_runs' = sync_runs
  BY <1>4, RowsUnchanged DEF RowsOfStage
<1>5. CASE v = "running" /\ Leave(p, sync_runs, "raised")
  BY <1>1, <1>5, RowsOfLeave
<1>6. CASE v # "running" /\ Leave(p, Transition(sync_runs, x, v), "raised")
  BY <1>1, <1>6, RowsOfLeave
<1>7. CASE v # "running" /\ sync_runs' = Transition(sync_runs, x, v) /\ GoTo(p, "fallback")
  <2>1. proc[p] \in ProcState
    BY <1>1 DEF Live, IInv, TypeOK
  <2>2. proc'[p].pc = "fallback"
    BY <1>7, <2>1 DEF GoTo, IInv, TypeOK, ProcState
  <2>3. ASSUME NEW r \in Ids
        PROVE  /\ r \notin Used => sync_runs'[r] = Free
               /\ r \in Used => RowKept(r) /\ (RowQuiet(r) \/ DoneWith(p, r))
    <3>1. CASE r = x
      <4>1. /\ sync_runs'[x] \in Row
            /\ sync_runs'[x].phase = sync_runs[x].phase
            /\ sync_runs'[x].stage = sync_runs[x].stage
            /\ sync_runs'[x].by = sync_runs[x].by
            /\ sync_runs[x].status # "running" => sync_runs'[x] = sync_runs[x]
        BY <1>1, <1>2, <1>3, <1>7, TransitionRow
      <4> QED BY <1>1, <1>2, <2>2, <3>1, <4>1 DEF RowKept, DoneWith
    <3>2. CASE r # x
      <4>1. sync_runs'[r] = sync_runs[r]
        BY <1>1, <1>3, <1>7, <3>2, TransitionRow
      <4> QED BY <4>1, UsedRow DEF IInv, RowKept, RowQuiet
    <3> QED BY <3>1, <3>2
  <2> QED BY <2>3 DEF RowsOfStage
<1> QED BY <1>3, <1>4, <1>5, <1>6, <1>7

\* Every step of a stage process.
LEMMA RowsOfStageStep ==
  ASSUME IInv, NEW p \in Procs, StageStep(p)
  PROVE  RowsOfStage(p)
<1>1. {"skipped", "cancelled", "success", "failed", "interrupted"} \subseteq Terminal
      /\ {"returned", "raised", "sigterm", "sigkill"} \subseteq Owners
  BY DEF Terminal, Owners
<1>2. CASE UNCHANGED sync_runs
  BY <1>2, RowsUnchanged DEF RowsOfStage
<1>3. CASE (\E s \in Stages, b \in BOOLEAN : Launch(p, s, b)) \/ CommitBatch(p) \/ LoseSession(p)
  BY <1>2, <1>3 DEF Launch, CommitBatch, LoseSession
<1>4. CASE TakeLock(p)
  <2>1. Live(p)
    BY <1>4 DEF TakeLock, At
  <2> QED BY <1>1, <1>2, <1>4, <2>1, RowsOfLeave DEF TakeLock
<1>5. CASE CheckRunning(p)
  <2>1. Live(p)
    BY <1>5 DEF CheckRunning, At
  <2> QED BY <1>1, <1>2, <1>5, <2>1, RowsOfLeave DEF CheckRunning
<1>6. CASE Poll(p)
  BY <1>1, <1>2, <1>6, HasRun, RowsOfLeave DEF Poll
<1>7. CASE FinishRun(p)
  BY <1>1, <1>7, HasRun, RowsOfLeave DEF FinishRun
<1>8. CASE Fallback(p)
  BY <1>1, <1>8, HasRun, RowsOfLeave DEF Fallback
<1>9. CASE ConsumeRaises(p) \/ SkipRun(p)
  BY <1>1, <1>9, HasRun, RowsOfLeave DEF ConsumeRaises, SkipRun
<1>10. CASE Interrupt(p)
  <2>1. At(p, "work") \/ At(p, "polled")
    BY <1>10 DEF Interrupt
  <2> QED BY <1>1, <1>10, <2>1, HasRun, RowsOfLeave DEF Interrupt
<1>11. CASE TimeoutKill(p) \/ Kill(p)
  BY <1>1, <1>11, RowsOfLeave DEF TimeoutKill, Kill
<1> QED BY <1>3, <1>4, <1>5, <1>6, <1>7, <1>8, <1>9, <1>10, <1>11,
           RowsOfInsert, RowsOfConsume, RowsOfBeat, RowsOfFinishRaises DEF StageStep

\* What a step of the web process does to the table: it closes a row that an
\* admin cancels or that has outlived its budget.
RowsOfWeb ==
  \A r \in Ids :
    /\ r \notin Used => sync_runs'[r] = Free \/ IsNextId(r)
    /\ r \in Used => /\ RowKept(r)
                     /\ \/ sync_runs'[r] = sync_runs[r]
                        \/ sync_runs'[r].status = "cancelled"
                        \/ Running(r) /\ sync_runs[r].age > Budget[sync_runs[r].stage]

\* A recovery or a reaper pass.
LEMMA RowsOfInterrupted ==
  ASSUME IInv, NEW R \in SUBSET Ids, sync_runs' = Interrupted(R),
         \A r \in R : Running(r) /\ sync_runs[r].age > Budget[sync_runs[r].stage]
  PROVE  RowsOfWeb
<1>1. "interrupted" \in Terminal
  BY DEF Terminal
<1>2. ASSUME NEW r \in Ids
      PROVE  /\ r \notin Used => sync_runs'[r] = Free
             /\ r \in Used => /\ RowKept(r)
                              /\ \/ sync_runs'[r] = sync_runs[r]
                                 \/ Running(r) /\ sync_runs[r].age > Budget[sync_runs[r].stage]
  <2>1. CASE r \in R
    <3>1. r \in Used /\ sync_runs[r] \in Row /\ sync_runs[r].status = "running"
      BY <2>1, UsedRow DEF Running, Runs, IInv
    <3>2. sync_runs'[r] = Closed(sync_runs[r], "interrupted")
      BY <2>1 DEF Interrupted
    <3> QED BY <1>1, <2>1, <3>1, <3>2, ClosedRow DEF RowKept
  <2>2. CASE r \notin R
    <3>1. sync_runs'[r] = sync_runs[r]
      BY <2>2 DEF Interrupted
    <3> QED BY <3>1, UsedRow DEF IInv, RowKept
  <2> QED BY <2>1, <2>2
<1> QED BY <1>2 DEF RowsOfWeb

\* A row older than the grace of the recovery is older than its own budget.
LEMMA StaleIsOverdue ==
  ASSUME IInv, NEW r \in Stale
  PROVE  Running(r) /\ sync_runs[r].age > Budget[sync_runs[r].stage]
<1>1. r \in Ids /\ Running(r) /\ sync_runs[r].age > RecoverAfter
  BY DEF Stale
<1>2. sync_runs[r] \in Row
  BY <1>1, UsedRow DEF Running, Runs, IInv
<1>3. sync_runs[r].age \in Nat /\ sync_runs[r].stage \in Stages
  BY <1>2 DEF Row
<1> QED BY <1>1, <1>3, ConstantsAssumption

\* Every step of the web process.
LEMMA RowsOfWebStep ==
  ASSUME IInv, WebStep
  PROVE  RowsOfWeb
<1>1. CASE UNCHANGED sync_runs
  <2> SUFFICES ASSUME NEW r \in Ids
               PROVE  /\ r \notin Used => sync_runs'[r] = Free
                      /\ r \in Used => RowKept(r) /\ sync_runs'[r] = sync_runs[r]
    BY DEF RowsOfWeb
  <2>1. sync_runs'[r] = sync_runs[r]
    BY <1>1
  <2> QED BY <2>1, UsedRow DEF IInv, RowKept
<1>2. CASE AppStart \/ AdminRecover
  <2>1. Stale \in SUBSET Ids /\ sync_runs' = Interrupted(Stale)
    BY <1>2 DEF Stale, AppStart, AdminRecover
  <2> QED BY <2>1, StaleIsOverdue, RowsOfInterrupted
<1>3. CASE Reap
  <2>1. TimedOut \in SUBSET Ids /\ sync_runs' = Interrupted(TimedOut)
    BY <1>3 DEF TimedOut, Reap
  <2>2. \A r \in TimedOut : Running(r) /\ sync_runs[r].age > Budget[sync_runs[r].stage]
    BY DEF TimedOut
  <2> QED BY <2>1, <2>2, RowsOfInterrupted
<1>4. ASSUME NEW x \in Ids, RequestCancel(x)
      PROVE  RowsOfWeb
  <2>1. x \in Used /\ sync_runs[x] \in Row /\ sync_runs[x].status = "running"
    BY <1>4, UsedRow DEF RequestCancel, Running, Runs, IInv
  <2>2. sync_runs' = [sync_runs EXCEPT ![x] = Closed(sync_runs[x], "cancelled")]
    BY <1>4, <2>1 DEF RequestCancel, Transition
  <2>3. /\ sync_runs'[x] = Closed(sync_runs[x], "cancelled")
        /\ \A r \in Ids : r # x => sync_runs'[r] = sync_runs[r]
    BY <2>2 DEF IInv, TypeOK
  <2>4. RowKept(x) /\ sync_runs'[x].status = "cancelled"
    BY <2>1, <2>3, ClosedRow DEF RowKept, Terminal
  <2>5. ASSUME NEW r \in Ids, r # x
        PROVE  /\ r \notin Used => sync_runs'[r] = Free
               /\ r \in Used => RowKept(r) /\ sync_runs'[r] = sync_runs[r]
    <3>1. sync_runs'[r] = sync_runs[r]
      BY <2>3, <2>5
    <3> QED BY <3>1, UsedRow DEF IInv, RowKept
  <2> QED BY <2>1, <2>4, <2>5 DEF RowsOfWeb
<1>5. ASSUME NEW a \in Admins, RetryInsert(a)
      PROVE  RowsOfWeb
  <2>1. PICK x \in Ids : IsNextId(x) /\ \A r \in Ids : r # x => sync_runs'[r] = sync_runs[r]
    BY <1>5 DEF RetryInsert, IInv, TypeOK
  <2>2. x \notin Used
    BY <2>1 DEF IsNextId
  <2> QED BY <2>1, <2>2, UsedRow DEF IInv, RowsOfWeb, RowKept
<1>6. CASE AppStop \/ \E a \in Admins : (\E r \in Ids : RetryLoad(a, r)) \/ RetryCheck(a)
  BY <1>1, <1>6 DEF AppStop, RetryLoad, RetryCheck
<1> QED BY <1>2, <1>3, <1>4, <1>5, <1>6 DEF WebStep

\* Time changes ages only, each by one tick at most.
LEMMA RowsOfTick ==
  ASSUME IInv, Tick, NEW r \in Ids
  PROVE  /\ r \notin Used => sync_runs'[r] = Free
         /\ r \in Used => /\ RowKept(r)
                          /\ sync_runs'[r].status = sync_runs[r].status
                          /\ sync_runs'[r].age \in Nat
                          /\ sync_runs'[r].age <= sync_runs[r].age + 1
<1>1. sync_runs'[r] = IF Running(r) THEN [sync_runs[r] EXCEPT !.age = Older(@)] ELSE sync_runs[r]
  BY DEF Tick
<1>2. CASE Running(r)
  <2>1. r \in Used /\ sync_runs[r] \in Row
    BY <1>2, UsedRow DEF Running, Runs, IInv
  <2> DEFINE n == Older(sync_runs[r].age)
  <2>2. n \in Nat /\ n <= sync_runs[r].age + 1
    BY <2>1 DEF Older, Row
  <2>3. sync_runs'[r] = [sync_runs[r] EXCEPT !.age = n]
    BY <1>1, <1>2
  <2> HIDE DEF n
  <2> QED BY <2>1, <2>2, <2>3 DEF Row, RowKept
<1>3. CASE ~ Running(r)
  <2>1. sync_runs'[r] = sync_runs[r]
    BY <1>1, <1>3
  <2>2. r \in Used => sync_runs[r].age \in Nat
    BY UsedRow DEF IInv, Row
  <2> QED BY <2>1, <2>2, UsedRow DEF IInv, RowKept
<1> QED BY <1>2, <1>3

\* Whatever the step, rows appear at the next id only, and a used row is kept.
LEMMA RowsOfNext ==
  ASSUME IInv, [Next]_vars, NEW r \in Ids
  PROVE  /\ r \notin Used => sync_runs'[r] = Free \/ IsNextId(r)
         /\ r \in Used => RowKept(r)
<1>1. CASE \E p \in Procs : StageStep(p)
  BY <1>1, RowsOfStageStep DEF RowsOfStage
<1>2. CASE WebStep
  BY <1>2, RowsOfWebStep DEF RowsOfWeb
<1>3. CASE Tick
  BY <1>3, RowsOfTick
<1>4. CASE UNCHANGED vars
  BY <1>4, RowsUnchanged DEF vars
<1> QED BY <1>1, <1>2, <1>3, <1>4 DEF Next

----------------------------------------------------------------------------
(* What a step may do to a process                                         *)

\* The step of p leaves its run, job and clock alone.
SameJob(p) ==
  /\ proc'[p].job = proc[p].job /\ proc'[p].run = proc[p].run
  /\ proc'[p].scheduled = proc[p].scheduled /\ proc'[p].elapsed = proc[p].elapsed

\* The moves of a process that stays alive.
Moved(p) ==
  \/ /\ proc'[p].late = proc[p].late
     /\ \/ proc'[p].pc = proc[p].pc
        \/ proc[p].pc \notin {"consume", "fallback"} /\ proc'[p].pc # "polled"
        \/ proc[p].pc = "consume" /\ ConsumeRequests(p) /\ proc'[p].pc # "polled"
        \/ /\ proc[p].pc = "work" /\ proc'[p].pc = "polled"
           /\ (proc[p].job \in PollingStages => Running(proc[p].run))
  \/ CommitBatch(p)

\* A process that is alive after a step was launched by it, inserted its run,
\* or made one of its moves.
ProcessStep(p) ==
  Live(p)' =>
    \/ ~ Live(p) /\ proc'[p].run = 0 /\ proc'[p].elapsed = 0 /\ proc'[p].late = 0
    \/ Live(p) /\ SameJob(p) /\ Moved(p)
    \/ /\ Live(p) /\ InsertRun(p) /\ proc'[p].pc = "consume"
       /\ proc'[p].run \in Ids /\ IsNextId(proc'[p].run)
       /\ sync_runs'[proc'[p].run].age = 0 /\ sync_runs'[proc'[p].run].status = "running"
       /\ proc'[p].job = proc[p].job /\ proc'[p].scheduled = proc[p].scheduled
       /\ proc'[p].elapsed = proc[p].elapsed /\ proc'[p].late = proc[p].late

\* A process that leaves is gone, and no other process moves.
LEMMA ProcessLeaves ==
  ASSUME IInv, NEW p \in Procs, NEW STATE t, NEW how, Leave(p, t, how)
  PROVE  ~ Live(p)' /\ \A q \in Procs : q # p => proc'[q] = proc[q]
BY DEF Leave, Live, IInv, TypeOK

\* A process that goes to another program counter keeps the rest of its state.
LEMMA ProcessGoes ==
  ASSUME IInv, NEW p \in Procs, Live(p), NEW pc, GoTo(p, pc)
  PROVE  /\ proc'[p].pc = pc /\ SameJob(p) /\ proc'[p].late = proc[p].late
         /\ \A q \in Procs : q # p => proc'[q] = proc[q]
<1>1. proc[p] \in ProcState
  BY DEF Live, IInv, TypeOK
<1>2. proc'[p] = [proc[p] EXCEPT !.pc = pc] /\ \A q \in Procs : q # p => proc'[q] = proc[q]
  BY DEF GoTo, IInv, TypeOK
<1> QED BY <1>1, <1>2 DEF ProcState, SameJob

\* A launched process starts without a run, on a clock of its own.
LEMMA LaunchMoves ==
  ASSUME IInv, NEW p \in Procs, NEW s \in Stages, NEW b \in BOOLEAN, Launch(p, s, b)
  PROVE  ProcessStep(p) /\ \A q \in Procs : q # p => proc'[q] = proc[q]
<1>1. /\ ~ Live(p)
      /\ proc'[p].run = 0 /\ proc'[p].elapsed = 0 /\ proc'[p].late = 0
      /\ \A q \in Procs : q # p => proc'[q] = proc[q]
  BY DEF Launch, IInv, TypeOK
<1> QED BY <1>1 DEF ProcessStep

\* The INSERT of start_run gives the process the run it inserted.
LEMMA InsertMoves ==
  ASSUME IInv, NEW p \in Procs, InsertRun(p)
  PROVE  ProcessStep(p) /\ \A q \in Procs : q # p => proc'[q] = proc[q]
<1>1. Live(p) /\ proc[p] \in ProcState
  BY DEF InsertRun, At, Live, IInv, TypeOK
<1>2. CASE Leave(p, sync_runs, "returned")
  BY <1>2, ProcessLeaves DEF ProcessStep
<1>3. ASSUME NEW r \in Ids, IsNextId(r),
             sync_runs' = [sync_runs EXCEPT ![r] =
               [phase |-> "run", stage |-> proc[p].job, status |-> "running",
                age |-> 0, for |-> 0, by |-> 0, owner |-> "alive"]],
             proc' = [proc EXCEPT ![p].pc = "consume", ![p].run = r]
      PROVE  ProcessStep(p) /\ \A q \in Procs : q # p => proc'[q] = proc[q]
  <2>1. /\ proc'[p] = [proc[p] EXCEPT !.pc = "consume", !.run = r]
        /\ \A q \in Procs : q # p => proc'[q] = proc[q]
    BY <1>3 DEF IInv, TypeOK
  <2>2. /\ proc'[p].pc = "consume" /\ proc'[p].run = r
        /\ proc'[p].job = proc[p].job /\ proc'[p].scheduled = proc[p].scheduled
        /\ proc'[p].elapsed = proc[p].elapsed /\ proc'[p].late = proc[p].late
    BY <1>1, <2>1 DEF ProcState
  <2>3. sync_runs'[r].age = 0 /\ sync_runs'[r].status = "running"
    BY <1>3 DEF IInv, TypeOK
  <2> QED BY <1>1, <1>3, <2>1, <2>2, <2>3 DEF ProcessStep
<1> QED BY <1>2, <1>3 DEF InsertRun

\* Every other step of a process is a GoTo, a batch, or its end.
LEMMA StageMoves ==
  ASSUME IInv, NEW p \in Procs, StageStep(p)
  PROVE  ProcessStep(p) /\ \A q \in Procs : q # p => proc'[q] = proc[q]
<1>1. CASE UNCHANGED proc
  BY <1>1 DEF ProcessStep, Live, SameJob, Moved
<1>2. ASSUME NEW t, NEW how, Leave(p, t, how)
      PROVE  ProcessStep(p) /\ \A q \in Procs : q # p => proc'[q] = proc[q]
  BY <1>2, ProcessLeaves DEF ProcessStep
<1>3. CASE TakeLock(p)
  BY <1>2, <1>3, ProcessGoes DEF TakeLock, At, ProcessStep, Moved
<1>4. CASE CheckRunning(p)
  BY <1>2, <1>4, ProcessGoes DEF CheckRunning, At, ProcessStep, Moved
<1>5. CASE ConsumeRequests(p)
  <2>1. PICK pc \in {"work", "unavailable"} : GoTo(p, pc)
    BY <1>5 DEF ConsumeRequests
  <2>2. Live(p) /\ proc[p].pc = "consume"
    BY <1>5 DEF ConsumeRequests, At
  <2> QED BY <1>5, <2>1, <2>2, ProcessGoes DEF ProcessStep, Moved
<1>6. CASE Poll(p)
  BY <1>2, <1>6, ProcessGoes DEF Poll, At, ProcessStep, Moved
<1>7. CASE CommitBatch(p)
  <2>1. Live(p) /\ proc[p] \in ProcState
    BY <1>7 DEF CommitBatch, At, Live, IInv, TypeOK
  <2>2. /\ \E n : proc'[p] = [proc[p] EXCEPT !.pc = "work", !.late = n]
        /\ \A q \in Procs : q # p => proc'[q] = proc[q]
    BY <1>7 DEF CommitBatch, IInv, TypeOK
  <2>3. SameJob(p)
    BY <2>1, <2>2 DEF SameJob, ProcState
  <2> QED BY <1>7, <2>1, <2>2, <2>3 DEF ProcessStep, Moved
<1>8. CASE FinishRaises(p)
  <2>1. At(p, "work")
    BY <1>8 DEF FinishRaises
  <2>2. GoTo(p, "fallback") \/ \E t : Leave(p, t, "raised")
    BY <1>8 DEF FinishRaises
  <2> QED BY <1>2, <2>1, <2>2, ProcessGoes DEF At, ProcessStep, Moved
<1>9. CASE ConsumeRaises(p) \/ SkipRun(p) \/ FinishRun(p) \/ Fallback(p)
  BY <1>2, <1>9 DEF ConsumeRaises, SkipRun, FinishRun, Fallback
<1>10. CASE Interrupt(p) \/ TimeoutKill(p) \/ Kill(p)
  BY <1>2, <1>10 DEF Interrupt, TimeoutKill, Kill
<1>11. CASE Beat(p) \/ LoseSession(p)
  BY <1>1, <1>11 DEF Beat, LoseSession
<1> QED BY <1>3, <1>4, <1>5, <1>6, <1>7, <1>8, <1>9, <1>10, <1>11,
           LaunchMoves, InsertMoves DEF StageStep

\* Time moves the clocks of the scheduled processes.
LEMMA TickMoves ==
  ASSUME IInv, Tick, NEW p \in Procs
  PROVE  /\ Live(p)' <=> Live(p)
         /\ Live(p) => /\ proc[p] \in ProcState
                       /\ proc'[p].pc = proc[p].pc /\ proc'[p].job = proc[p].job
                       /\ proc'[p].run = proc[p].run /\ proc'[p].late = proc[p].late
                       /\ proc'[p].scheduled = proc[p].scheduled
                       /\ proc[p].scheduled => proc'[p].elapsed = proc[p].elapsed + 1
<1>1. Live(p) => proc[p] \in ProcState
  BY DEF Live, IInv, TypeOK
<1>2. proc'[p] = IF Live(p) /\ proc[p].scheduled
                 THEN [proc[p] EXCEPT !.elapsed = proc[p].elapsed + 1] ELSE proc[p]
  BY DEF Tick
<1>3. CASE Live(p) /\ proc[p].scheduled
  <2>1. proc'[p] = [proc[p] EXCEPT !.elapsed = proc[p].elapsed + 1]
    BY <1>2, <1>3
  <2>2. proc'[p] # Idle
    BY <1>1, <1>3, <2>1 DEF ProcState, Idle
  <2> QED BY <1>1, <1>3, <2>1, <2>2 DEF ProcState, Live
<1>4. CASE ~ (Live(p) /\ proc[p].scheduled)
  BY <1>1, <1>2, <1>4 DEF Live
<1> QED BY <1>3, <1>4

\* A step that is not a tick is a step of each process, or leaves it alone.
LEMMA ProcessOfNext ==
  ASSUME IInv, [Next]_vars, NEW p \in Procs
  PROVE  ProcessStep(p) \/ Tick
<1>1. CASE proc'[p] = proc[p]
  BY <1>1 DEF ProcessStep, Live, SameJob, Moved
<1>2. CASE \E q \in Procs : StageStep(q)
  BY <1>1, <1>2, StageMoves
<1>3. CASE WebStep
  BY <1>1, <1>3 DEF WebStep, AppStart, AppStop, Reap, AdminRecover, RequestCancel,
                    RetryLoad, RetryCheck, RetryInsert
<1>4. CASE UNCHANGED vars
  BY <1>1, <1>4 DEF vars
<1> QED BY <1>2, <1>3, <1>4 DEF Next

----------------------------------------------------------------------------
(* What a run and its process know of each other                           *)

\* No two processes share a run.
OwnRuns == \A p, q \in Procs : p # q /\ Live(p) /\ Live(q) /\ proc[p].run # 0
                                 => proc[p].run # proc[q].run

\* A process under `timeout` is within its budget, and its run is no older than
\* the process: the reaper sees an age that `timeout` has bounded.
WithinBudget ==
  \A p \in Procs : Live(p) /\ proc[p].scheduled =>
    /\ proc[p].elapsed <= Budget[proc[p].job]
    /\ /\ proc[p].run # 0 /\ proc[p].pc # "fallback"
       /\ sync_runs[proc[p].run].status = "running"
       => sync_runs[proc[p].run].age <= proc[p].elapsed

\* A batch after the end of its run leaves a polling process in front of a poll
\* that it cannot pass.
LateBatches ==
  \A p \in Procs : Live(p) =>
    \/ proc[p].late = 0
    \/ /\ proc[p].late = 1 /\ proc[p].job \in PollingStages
       /\ proc[p].run # 0 /\ sync_runs[proc[p].run].status # "running" /\ proc[p].pc # "polled"

\* The ids in use have no gaps, so a row inserted later has a higher id.
NoGaps == \A q, r \in Ids : r \in Used /\ q < r => q \in Used

\* The invariant of the audit trail.
Audit == /\ OwnRuns /\ WithinBudget /\ LateBatches /\ NoGaps
         /\ ScheduledRunKeepsVerdict /\ EarlierRequestsFulfilled

\* The run of a process is used, and stays it; if its row was running after the
\* step it was before.
LEMMA RunOfProcess ==
  ASSUME IInv, NEW p \in Procs, Live(p), proc[p].run # 0
  PROVE  /\ proc[p].run \in Ids /\ proc[p].run \in Used
         /\ sync_runs[proc[p].run] \in Row
         /\ sync_runs[proc[p].run].phase = "run"
         /\ sync_runs[proc[p].run].stage = proc[p].job
         /\ proc[p].job \in Stages /\ proc[p] \in ProcState
<1>1. /\ proc[p].run \in Ids /\ sync_runs[proc[p].run] \in Row
      /\ sync_runs[proc[p].run].phase = "run"
  BY RunRow
<1>2. sync_runs[proc[p].run].stage = proc[p].job /\ proc[p] \in ProcState
  BY DEF IInv, RunOfItsStage, Live, TypeOK
<1> QED BY <1>1, <1>2, FreeByPhase DEF Used, ProcState

\* Of two processes, one stays where it is.
LEMMA OneMoves ==
  ASSUME IInv, [Next]_vars, NEW p \in Procs, NEW q \in Procs, p # q
  PROVE  proc'[p] = proc[p] \/ proc'[q] = proc[q] \/ Tick
<1>1. CASE \E x \in Procs : StageStep(x)
  BY <1>1, StageMoves
<1>2. CASE WebStep
  BY <1>2 DEF WebStep, AppStart, AppStop, Reap, AdminRecover, RequestCancel,
              RetryLoad, RetryCheck, RetryInsert
<1>3. CASE UNCHANGED vars
  BY <1>3 DEF vars
<1> QED BY <1>1, <1>2, <1>3 DEF Next

\* An inserted row is new, so nobody else holds it.
LEMMA OwnRunsNext == IInv /\ OwnRuns /\ [Next]_vars => OwnRuns'
<1> SUFFICES ASSUME IInv, OwnRuns, [Next]_vars,
                    NEW p \in Procs, NEW q \in Procs, p # q, Live(p)', Live(q)',
                    proc'[p].run # 0, proc'[p].run = proc'[q].run
             PROVE  FALSE
  BY DEF OwnRuns
<1>1. CASE Tick
  BY <1>1, TickMoves DEF OwnRuns
<1>2. ASSUME ~ Tick, NEW x \in Procs, NEW y \in Procs, x # y, proc'[x] = proc[x],
             Live(x)', Live(y)', proc'[x].run # 0, proc'[x].run = proc'[y].run
      PROVE  FALSE
  <2>1. Live(x) /\ proc[x].run # 0 /\ proc[x].run \in Used
    BY <1>2, RunOfProcess DEF Live
  <2>2. ProcessStep(y)
    BY <1>2, ProcessOfNext
  <2>3. CASE ~ Live(y) /\ proc'[y].run = 0
    BY <1>2, <2>3
  <2>4. CASE Live(y) /\ proc'[y].run = proc[y].run
    BY <1>2, <2>1, <2>4 DEF OwnRuns
  <2>5. CASE IsNextId(proc'[y].run)
    BY <1>2, <2>1, <2>5 DEF IsNextId
  <2>6. CASE Live(y) /\ SameJob(y)
    BY <2>4, <2>6 DEF SameJob
  <2> QED BY <1>2, <2>2, <2>3, <2>5, <2>6 DEF ProcessStep
<1>3. CASE ~ Tick
  BY <1>2, <1>3, OneMoves
<1> QED BY <1>1, <1>3

\* Rows appear at the next id only.
LEMMA NoGapsNext == IInv /\ NoGaps /\ [Next]_vars => NoGaps'
<1> SUFFICES ASSUME IInv, NoGaps, [Next]_vars, NEW q \in Ids, NEW r \in Ids, r \in Used', q < r
             PROVE  q \in Used'
  BY DEF NoGaps
<1>1. q \in Used
  <2>1. CASE r \in Used
    BY <2>1 DEF NoGaps
  <2>2. CASE r \notin Used
    BY <2>2, RowsOfNext DEF Used, IsNextId
  <2> QED BY <2>1, <2>2
<1> QED BY <1>1, RowsOfNext, FreeByPhase DEF Used, RowKept

\* A process that is past its start_run got there by consuming the requests, and
\* the requests inserted since have higher ids.
LEMMA EarlierRequestsNext ==
  IInv /\ NoGaps /\ EarlierRequestsFulfilled /\ [Next]_vars => EarlierRequestsFulfilled'
<1> SUFFICES ASSUME IInv, NoGaps, EarlierRequestsFulfilled, [Next]_vars,
                    NEW p \in Procs, Live(p)', proc'[p].run # 0, proc'[p].pc # "consume",
                    NEW q \in Requests', q < proc'[p].run, sync_runs'[q].stage = proc'[p].job
             PROVE  sync_runs'[q].by # 0
  BY DEF EarlierRequestsFulfilled
<1>1. /\ Live(p) /\ proc'[p].run = proc[p].run /\ proc'[p].job = proc[p].job
      /\ proc[p].pc # "consume" \/ ConsumeRequests(p)
  <2>1. CASE Tick
    BY <2>1, TickMoves
  <2>2. CASE ProcessStep(p)
    <3>1. Live(p) /\ SameJob(p) /\ Moved(p)
      BY <2>2 DEF ProcessStep
    <3>2. proc[p].pc # "consume" \/ ConsumeRequests(p)
      <4>1. CommitBatch(p) => proc[p].pc = "polled"
        BY DEF CommitBatch, At
      <4> QED BY <3>1, <4>1 DEF Moved
    <3> QED BY <3>1, <3>2 DEF SameJob
  <2> QED BY <2>1, <2>2, ProcessOfNext
<1>2. proc[p].run \in Ids /\ proc[p].run \in Used
  BY <1>1, RunOfProcess
<1>3. q \in Ids /\ q \in Used /\ RowKept(q)
  <2>1. q \in Ids
    BY DEF Requests, Used
  <2> QED BY <1>1, <1>2, <2>1, RowsOfNext DEF NoGaps
<1>4. q \in Requests /\ sync_runs[q].stage = proc[p].job
  BY <1>1, <1>3 DEF Requests, RowKept
<1>5. CASE sync_runs[q].by # 0
  BY <1>3, <1>5 DEF RowKept
<1>6. CASE sync_runs[q].by = 0
  <2>1. ConsumeRequests(p)
    BY <1>1, <1>4, <1>6 DEF EarlierRequestsFulfilled
  <2>2. q \in PendingOf(proc[p].job)
    BY <1>4, <1>6 DEF PendingOf
  <2> QED BY <2>1, <2>2, RowsOfConsume
<1> QED BY <1>5, <1>6

\* A process that committed a batch after the end of its run cannot pass the
\* next poll, because the run never opens again.
LEMMA LateBatchesNext ==
  ASSUME IInv, LateBatches, [Next]_vars
  PROVE  LateBatches'
<1> SUFFICES ASSUME NEW p \in Procs, Live(p)'
             PROVE  \/ proc'[p].late = 0
                    \/ /\ proc'[p].late = 1 /\ proc'[p].job \in PollingStages
                       /\ proc'[p].run # 0 /\ sync_runs'[proc'[p].run].status # "running"
                       /\ proc'[p].pc # "polled"
  BY DEF LateBatches
<1>1. ASSUME Live(p), proc[p].run # 0, proc'[p].run = proc[p].run,
             sync_runs[proc[p].run].status # "running"
      PROVE  sync_runs'[proc'[p].run].status # "running"
  <2>1. proc[p].run \in Ids /\ proc[p].run \in Used
    BY <1>1, RunOfProcess
  <2>2. RowKept(proc[p].run)
    BY <2>1, RowsOfNext
  <2> QED BY <1>1, <2>2 DEF RowKept
<1>2. CASE Tick
  <2>1. /\ Live(p) /\ proc'[p].pc = proc[p].pc /\ proc'[p].job = proc[p].job
        /\ proc'[p].run = proc[p].run /\ proc'[p].late = proc[p].late
    BY <1>2, TickMoves
  <2> QED BY <1>1, <2>1 DEF LateBatches
<1>3. CASE ~ Tick
  <2>1. ProcessStep(p)
    BY <1>3, ProcessOfNext
  <2>2. CASE ~ Live(p) /\ proc'[p].late = 0
    BY <2>2
  <2>3. CASE Live(p) /\ SameJob(p) /\ CommitBatch(p)
    <3>1. proc[p].late = 0 /\ proc[p] \in ProcState /\ proc[p].run # 0
      BY <2>3, HasRun DEF LateBatches, CommitBatch, At, Live, IInv, TypeOK
    <3> DEFINE after == proc[p].job \in PollingStages /\ ~ Running(proc[p].run)
    <3>2. proc'[p] = [proc[p] EXCEPT !.pc = "work", !.late = IF after THEN 1 ELSE 0]
      BY <2>3, <3>1 DEF CommitBatch, IInv, TypeOK
    <3>3. proc'[p].pc = "work" /\ proc'[p].late = IF after THEN 1 ELSE 0
      BY <3>1, <3>2 DEF ProcState
    <3>4. CASE after
      <4>1. sync_runs[proc[p].run].status # "running"
        BY <2>3, <3>1, <3>4, RunOfProcess, RunningRow DEF IInv
      <4> QED BY <1>1, <2>3, <3>1, <3>3, <3>4, <4>1 DEF SameJob
    <3> QED BY <3>3, <3>4
  <2>4. CASE Live(p) /\ SameJob(p) /\ Moved(p) /\ ~ CommitBatch(p)
    <3>1. proc'[p].late = proc[p].late
      BY <2>4 DEF Moved
    <3>2. CASE proc[p].late = 0
      BY <3>1, <3>2
    <3>3. CASE proc[p].late # 0
      <4>1. /\ proc[p].late = 1 /\ proc[p].job \in PollingStages
            /\ proc[p].run # 0 /\ sync_runs[proc[p].run].status # "running"
            /\ proc[p].pc # "polled"
        BY <2>4, <3>3 DEF LateBatches
      <4>2. ~ Running(proc[p].run)
        BY <4>1 DEF Running
      <4>3. proc'[p].pc # "polled"
        BY <2>4, <4>1, <4>2 DEF Moved
      <4> QED BY <1>1, <2>4, <3>1, <4>1, <4>3 DEF SameJob
    <3> QED BY <3>2, <3>3
  <2>5. CASE proc'[p].late = proc[p].late /\ InsertRun(p) /\ Live(p)
    <3>1. proc[p].run = 0
      BY <2>5 DEF InsertRun, At, IInv, RunWhenInserted
    <3> QED BY <2>5, <3>1 DEF LateBatches
  <2> QED BY <2>1, <2>2, <2>3, <2>4, <2>5 DEF ProcessStep
<1> QED BY <1>2, <1>3

\* The types of a process that is alive.
LEMMA LiveProcess ==
  ASSUME TypeOK, NEW p \in Procs, Live(p)
  PROVE  /\ proc[p].job \in Stages /\ proc[p].elapsed \in Nat
         /\ Budget[proc[p].job] \in Nat /\ Budget[proc[p].job] > 0
BY ConstantsAssumption DEF TypeOK, Live, ProcState

\* Nobody but an admin closes the run of a scheduled process that still works:
\* the reaper and the recoveries judge by an age within its budget, and no other
\* process holds the run.
LEMMA RunOfScheduled ==
  ASSUME IInv, OwnRuns, WithinBudget, [Next]_vars, ~ Tick, NEW p \in Procs,
         Live(p), Live(p)', proc[p].scheduled, proc[p].run # 0,
         proc[p].pc # "fallback", proc'[p].pc # "fallback"
  PROVE  RowQuiet(proc[p].run) \/ sync_runs'[proc[p].run].status = "cancelled"
<1> DEFINE x == proc[p].run
<1>1. /\ x \in Ids /\ x \in Used /\ sync_runs[x] \in Row
      /\ sync_runs[x].stage = proc[p].job
  BY RunOfProcess
<1>2. CASE \E q \in Procs : StageStep(q)
  <2>1. PICK q \in Procs : StageStep(q)
    BY <1>2
  <2>2. RowQuiet(x) \/ DoneWith(q, x)
    BY <1>1, <2>1, RowsOfStageStep DEF RowsOfStage
  <2>3. ~ DoneWith(q, x)
    BY DEF DoneWith, OwnRuns
  <2> QED BY <2>2, <2>3
<1>3. CASE WebStep
  <2>1. \/ sync_runs'[x] = sync_runs[x]
        \/ sync_runs'[x].status = "cancelled"
        \/ Running(x) /\ sync_runs[x].age > Budget[sync_runs[x].stage]
    BY <1>1, <1>3, RowsOfWebStep DEF RowsOfWeb
  <2>2. CASE sync_runs'[x] = sync_runs[x]
    BY <2>2 DEF RowQuiet
  <2>3. CASE Running(x) /\ sync_runs[x].age > Budget[sync_runs[x].stage]
    <3>1. sync_runs[x].status = "running"
      BY <2>3 DEF Running
    <3>2. sync_runs[x].age <= proc[p].elapsed /\ proc[p].elapsed <= Budget[proc[p].job]
      BY <3>1 DEF WithinBudget
    <3>3. sync_runs[x].age \in Nat
      BY <1>1 DEF Row
    <3> QED BY <1>1, <2>3, <3>2, <3>3, LiveProcess DEF IInv
  <2> QED BY <2>1, <2>2, <2>3
<1>4. CASE UNCHANGED vars
  BY <1>4 DEF vars, RowQuiet
<1> QED BY <1>2, <1>3, <1>4 DEF Next

\* A clock within its budget ticks on only below it; the run of a process starts
\* with the age zero and ages with the process.
LEMMA WithinBudgetNext ==
  ASSUME IInv, IInv', OwnRuns, WithinBudget, [Next]_vars
  PROVE  WithinBudget'
<1> SUFFICES ASSUME NEW p \in Procs, Live(p)', proc'[p].scheduled
             PROVE  /\ proc'[p].elapsed <= Budget[proc'[p].job]
                    /\ /\ proc'[p].run # 0 /\ proc'[p].pc # "fallback"
                       /\ sync_runs'[proc'[p].run].status = "running"
                       => sync_runs'[proc'[p].run].age <= proc'[p].elapsed
  BY DEF WithinBudget
<1>1. CASE Tick
  <2>1. /\ Live(p) /\ proc[p].scheduled
        /\ proc'[p].pc = proc[p].pc /\ proc'[p].job = proc[p].job
        /\ proc'[p].run = proc[p].run /\ proc'[p].elapsed = proc[p].elapsed + 1
    BY <1>1, TickMoves
  <2>2. proc[p].elapsed < Budget[proc[p].job]
    BY <1>1, <2>1 DEF Tick
  <2>3. proc'[p].elapsed <= Budget[proc'[p].job]
    BY <2>1, <2>2, LiveProcess DEF IInv
  <2>4. ASSUME proc'[p].run # 0, proc'[p].pc # "fallback",
               sync_runs'[proc'[p].run].status = "running"
        PROVE  sync_runs'[proc'[p].run].age <= proc'[p].elapsed
    <3> DEFINE x == proc[p].run
    <3>1. x \in Ids /\ x \in Used /\ sync_runs[x].age \in Nat
      BY <2>1, <2>4, RunOfProcess DEF Row
    <3>2. /\ sync_runs'[x].status = sync_runs[x].status
          /\ sync_runs'[x].age \in Nat /\ sync_runs'[x].age <= sync_runs[x].age + 1
      BY <1>1, <3>1, RowsOfTick
    <3>3. sync_runs[x].age <= proc[p].elapsed
      BY <2>1, <2>4, <3>2 DEF WithinBudget
    <3> QED BY <2>1, <3>1, <3>2, <3>3, LiveProcess DEF IInv
  <2> QED BY <2>3, <2>4
<1>2. CASE ~ Tick
  <2>1. ProcessStep(p)
    BY <1>2, ProcessOfNext
  <2>2. CASE ~ Live(p) /\ proc'[p].run = 0 /\ proc'[p].elapsed = 0
    <3>1. proc'[p].job \in Stages
      BY DEF IInv, TypeOK, Live, ProcState
    <3> QED BY <2>2, <3>1, ConstantsAssumption
  <2>3. CASE Live(p) /\ SameJob(p) /\ Moved(p)
    <3>1. proc'[p].elapsed <= Budget[proc'[p].job]
      BY <2>3 DEF WithinBudget, SameJob
    <3>2. ASSUME proc'[p].run # 0, proc'[p].pc # "fallback",
                 sync_runs'[proc'[p].run].status = "running"
          PROVE  sync_runs'[proc'[p].run].age <= proc'[p].elapsed
      <4>1. CommitBatch(p) => proc[p].pc = "polled"
        BY DEF CommitBatch, At
      <4>2. proc[p].pc # "fallback"
        BY <2>3, <3>2, <4>1 DEF Moved
      <4>3. RowQuiet(proc[p].run)
        BY <1>2, <2>3, <3>2, <4>2, RunOfScheduled DEF SameJob
      <4>4. sync_runs[proc[p].run].age <= proc[p].elapsed /\ proc[p].elapsed \in Nat
        BY <2>3, <3>2, <4>2, <4>3, LiveProcess DEF WithinBudget, SameJob, RowQuiet, IInv
      <4> QED BY <2>3, <4>3, <4>4 DEF RowQuiet, SameJob
    <3> QED BY <3>1, <3>2
  <2>4. CASE /\ Live(p) /\ proc'[p].job = proc[p].job /\ proc'[p].scheduled = proc[p].scheduled
             /\ proc'[p].elapsed = proc[p].elapsed /\ sync_runs'[proc'[p].run].age = 0
    <3>1. proc[p].elapsed <= Budget[proc[p].job] /\ proc[p].elapsed \in Nat
      BY <2>4, LiveProcess DEF WithinBudget, IInv
    <3> QED BY <2>4, <3>1
  <2> QED BY <2>1, <2>2, <2>3, <2>4 DEF ProcessStep
<1> QED BY <1>1, <1>2

\* So a scheduled process finds its run as it left it, or cancelled.
LEMMA KeepsVerdictNext ==
  ASSUME IInv, OwnRuns, WithinBudget, ScheduledRunKeepsVerdict, [Next]_vars
  PROVE  ScheduledRunKeepsVerdict'
<1> SUFFICES ASSUME NEW p \in Procs, Live(p)', proc'[p].scheduled,
                    proc'[p].run # 0, proc'[p].pc # "fallback"
             PROVE  sync_runs'[proc'[p].run].status \in {"running", "cancelled"}
  BY DEF ScheduledRunKeepsVerdict
<1>1. CASE Tick
  <2>1. /\ Live(p) /\ proc[p].scheduled /\ proc'[p].pc = proc[p].pc /\ proc'[p].run = proc[p].run
    BY <1>1, TickMoves
  <2>2. proc[p].run \in Ids /\ proc[p].run \in Used
    BY <2>1, RunOfProcess
  <2>3. sync_runs'[proc[p].run].status = sync_runs[proc[p].run].status
    BY <1>1, <2>2, RowsOfTick
  <2> QED BY <2>1, <2>3 DEF ScheduledRunKeepsVerdict
<1>2. CASE ~ Tick
  <2>1. ProcessStep(p)
    BY <1>2, ProcessOfNext
  <2>2. CASE Live(p) /\ SameJob(p) /\ Moved(p)
    <3>1. CommitBatch(p) => proc[p].pc = "polled"
      BY DEF CommitBatch, At
    <3>2. proc[p].pc # "fallback"
      BY <2>2, <3>1 DEF Moved
    <3>3. RowQuiet(proc[p].run) \/ sync_runs'[proc[p].run].status = "cancelled"
      BY <1>2, <2>2, <3>2, RunOfScheduled DEF SameJob
    <3>4. sync_runs[proc[p].run].status \in {"running", "cancelled"}
      BY <2>2, <3>2 DEF ScheduledRunKeepsVerdict, SameJob
    <3> QED BY <2>2, <3>3, <3>4 DEF RowQuiet, SameJob
  <2> QED BY <2>1, <2>2 DEF ProcessStep
<1> QED BY <1>1, <1>2

----------------------------------------------------------------------------
(* The theorems about the audit trail                                      *)

\* No process is alive and no row is used at first.
LEMMA InitAudit == Init => Audit
<1> SUFFICES ASSUME Init PROVE Audit
  OBVIOUS
<1>1. \A p \in Procs : ~ Live(p)
  BY DEF Init, Live
<1>2. Used = {}
  BY DEF Init, Used
<1> QED BY <1>1, <1>2 DEF Audit, OwnRuns, WithinBudget, LateBatches, NoGaps,
                          ScheduledRunKeepsVerdict, EarlierRequestsFulfilled

\* Together with the invariant of the rows it is inductive.
LEMMA NextAudit == IInv /\ IInv' /\ Audit /\ [Next]_vars => Audit'
BY OwnRunsNext, NoGapsNext, EarlierRequestsNext, LateBatchesNext, WithinBudgetNext,
   KeepsVerdictNext DEF Audit

\* The invariant of the audit trail: runs have one process, clocks stay within
\* their budgets and bound the ages of the rows, a late batch meets a poll that
\* stops it, and ids are drawn without gaps.
THEOREM AuditInvariance == Spec => []Audit
BY Invariance, InitAudit, NextAudit, PTL DEF Spec

\* As long as a stage that the pipeline started is alive, its row is running or
\* was cancelled by an admin, whatever the budgets: neither the reaper nor a
\* recovery discards its verdict, because `timeout` bounds the age they judge by
\* and no budget exceeds the grace of the recovery (Issues #33, #78).
THEOREM VerdictsAreKept == Spec => []ScheduledRunKeepsVerdict
BY AuditInvariance, PTL DEF Audit

\* A polling stage commits at most one batch after somebody else closed its run
\* (check_cancelled before every batch, Issue #28).
THEOREM CancellationStops == Spec => []CancelledRunStops
<1>1. Audit => CancelledRunStops
  BY DEF Audit, LateBatches, CancelledRunStops
<1> QED BY <1>1, AuditInvariance, PTL

\* A run that has reached its work has fulfilled every earlier request of its
\* stage, however many processes and admins write in between (Issue #77).
THEOREM RequestsAreFulfilled == Spec => []EarlierRequestsFulfilled
BY AuditInvariance, PTL DEF Audit
============================================================================
