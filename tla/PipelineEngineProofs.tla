----------------------- MODULE PipelineEngineProofs -----------------------
(***************************************************************************)
(* What holds of the engine for every pipeline, whatever its tasks, plans  *)
(* and spawned jobs, and for every value of the bounds: its types, the     *)
(* inductive invariant Consistent, and that the run's status keeps the     *)
(* promise of PipelineContract. Then what holds of a chain of tasks,       *)
(* whatever its length: it is worked in order and each step once, a        *)
(* completed row stays completed, and a run whose jobs are over tells its  *)
(* end.                                                                    *)
(***************************************************************************)
EXTENDS PipelineEngine, SequenceTheorems, TLAPS

-----------------------------------------------------------------------------
(* The rows River writes are jobs. *)

(* An unused job ID stands for a well-formed row. *)
LEMMA NoJobType == NoJob \in Job
<1>1. NoPlan \in Plan
  BY EmptySeq DEF NoPlan, Finishes, Plan
<1>2. QED
  BY <1>1, EngineAssumption DEF NoJob, Job, JobState, Working

(* A job that is inserted is a well-formed row. *)
LEMMA NewJobType ==
    ASSUME NEW t \in Tasks, NEW tracked \in BOOLEAN
    PROVE  NewJob(t, tracked) \in Job
BY NoJobType DEF NewJob, Job, JobState

(* So is the row of a job whose execution is over: completed, discarded or *)
(* available again.                                                        *)
LEMMA EndedType ==
    ASSUME NEW r \in Job, NEW failed \in BOOLEAN
    PROVE  Ended(r, failed) \in Job
<1>1. r.kind \in Tasks /\ r.tracked \in BOOLEAN /\ r.attempt \in 0 .. MaxAttempts
  BY DEF Job
<1>2. [NewJob(r.kind, r.tracked) EXCEPT !.attempt = r.attempt] \in Job
  BY <1>1, NewJobType DEF Job
<1>3. [NoJob EXCEPT !.kind = r.kind,
                    !.state = IF failed THEN "discarded" ELSE "completed"] \in Job
  BY <1>1, NoJobType DEF Job, JobState
<1>4. QED
  BY <1>2, <1>3 DEF Ended

(* The rest of a plan is a plan. *)
LEMMA ChainRestType ==
    ASSUME NEW p \in Plan, p.chain # <<>>
    PROVE  ChainRest(p) \in Plan /\ Head(p.chain) \in Tasks
BY HeadTailProperties DEF ChainRest, Plan

(* The places an execution goes to after a plan step. *)
LEMMA NextPlaces ==
    ASSUME NEW p \in Plan
    PROVE  AfterCheck(p) \in {"review", "return"}
           /\ AfterMark(p) \in {"chain", "check", "review", "return"}
BY DEF AfterCheck, AfterMark

Places == Working \cup {"idle", "lost"}

(* An execution that moves on stays well-formed. *)
LEMMA MoveType ==
    ASSUME NEW f \in [JobIds -> Job], NEW j \in JobIds, NEW pc \in Places
    PROVE  [f EXCEPT ![j].pc = pc] \in [JobIds -> Job]
<1>1. [f[j] EXCEPT !.pc = pc] \in Job
  BY DEF Job, Places
<1>2. QED
  BY <1>1

(* Whether a statement succeeds or errs, the bounds are respected. *)
LEMMA StatementType ==
    ASSUME TypeOK, NEW j \in JobIds, Succeeds(j) \/ Errs(j) \/ Fault
    PROVE  budget' \in Budget
BY EngineAssumption DEF TypeOK, Succeeds, Errs, Fault, CanFault, Budget

(* A task is only ever set to a status. *)
LEMMA SetTaskType ==
    ASSUME TypeOK, NEW j \in JobIds, NEW status \in TaskStatus, SetTask(j, status)
    PROVE  /\ taskStatus' \in [Tasks -> TaskStatus]
           /\ everCompleted' \in SUBSET Tasks
           /\ everFailed' \in BOOLEAN
           /\ budget' \in Budget
<1>1. jobs[j].kind \in Tasks
  BY DEF TypeOK, Job
<1>2. budget' \in Budget
  BY StatementType DEF SetTask, TypeOK, rowVars
<1>3. QED
  BY <1>1, <1>2 DEF SetTask, TypeOK, rowVars

-----------------------------------------------------------------------------
(* Every step keeps the types. *)

LEMMA TypeStep ==
    ASSUME TypeOK, ExecutionSound, VerdictGiven, Next
    PROVE  TypeOK'
<1> USE EngineAssumption
<1>1. CASE Create
  <2>1. CASE CreateRun
    BY <2>1 DEF TypeOK, CreateRun, RunStatus, rowVars
  <2>2. ASSUME NEW t \in Tasks, CreateTask(t) PROVE TypeOK'
    BY <2>2 DEF TypeOK, CreateTask, TaskStatus, runVars
  <2>3. ASSUME NEW n \in JobIds, EnqueueEntry(n) PROVE TypeOK'
    BY <2>3, NewJobType DEF TypeOK, EnqueueEntry, runVars, rowVars
  <2>4. QED
    BY <1>1, <2>1, <2>2, <2>3 DEF Create
<1>2. CASE CreateAborts
  BY <1>2 DEF TypeOK, CreateAborts, Fault, CanFault, Budget, runVars, rowVars
<1>3. ASSUME NEW j \in JobIds, Work(j) PROVE TypeOK'
  <2>1. CASE StartTask(j)
    <3>1. jobs[j] \in Job /\ jobs[j].attempt + 1 \in 0 .. MaxAttempts
      BY <2>1 DEF StartTask, TypeOK, ExecutionSound, Job
    <3>2. [jobs[j] EXCEPT !.state = "running", !.pc = "body", !.attempt = @ + 1] \in Job
      BY <3>1 DEF Job, JobState, Working
    <3>3. jobs' \in [JobIds -> Job]
      BY <2>1, <3>2 DEF StartTask, TypeOK
    <3>4. SetTask(j, "running") /\ "running" \in TaskStatus
      BY <2>1 DEF StartTask, TaskStatus
    <3>5. QED
      BY <2>1, <3>3, <3>4, SetTaskType DEF StartTask, TypeOK, runVars
  <2>2. ASSUME NEW t \in Spawns[jobs[j].kind], NEW n \in JobIds, Spawn(j, t, n)
        PROVE  TypeOK'
    <3>1. jobs[j] \in Job /\ jobs[j].spawned + 1 \in 0 .. MaxSpawns /\ t \in Tasks
      BY <2>2 DEF Spawn, TypeOK, Job
    <3>2. [jobs[j] EXCEPT !.spawned = @ + 1] \in Job
      BY <3>1 DEF Job
    <3>3. PICK tracked \in BOOLEAN :
             /\ jobs' = [jobs EXCEPT ![n] = NewJob(t, tracked), ![j].spawned = @ + 1]
             /\ IF tracked THEN UNCHANGED budget ELSE Fault
      BY <2>2 DEF Spawn
    <3>4. jobs' \in [JobIds -> Job]
      <4>1. n # j
        BY <2>2 DEF Spawn, IsNextId, TypeOK, ExecutionSound
      <4>2. QED
        BY <3>1, <3>2, <3>3, <4>1, NewJobType DEF TypeOK
    <3>5. budget' \in Budget
      BY <3>3, StatementType DEF TypeOK
    <3>6. QED
      BY <2>2, <3>4, <3>5 DEF Spawn, TypeOK, runVars, rowVars
  <2>3. ASSUME NEW p \in Plans[jobs[j].kind], MarkTask(j, p) PROVE TypeOK'
    <3>1. jobs[j] \in Job /\ p \in Plan /\ p.mark \in TaskStatus
      BY DEF TypeOK, Job, Plan, TaskStatus
    <3>2. [jobs[j] EXCEPT !.pc = AfterMark(p), !.plan = p] \in Job
      BY <3>1, NextPlaces DEF Job, Working
    <3>3. jobs' \in [JobIds -> Job]
      BY <2>3, <3>2 DEF MarkTask, TypeOK
    <3>4. QED
      BY <2>3, <3>1, <3>3, SetTaskType DEF MarkTask, TypeOK, runVars
  <2>4. ASSUME jobs[j].pc = "chain", jobs[j].plan.chain # <<>>
        PROVE  Chained(j) \in [JobIds -> Job]
    <3>1. jobs[j] \in Job /\ jobs[j].plan \in Plan
      BY DEF TypeOK, Job
    <3>2. ChainRest(jobs[j].plan) \in Plan
      BY <2>4, <3>1, ChainRestType
    <3>3. [jobs[j] EXCEPT !.plan = ChainRest(@),
                          !.pc = AfterMark(ChainRest(jobs[j].plan))] \in Job
      BY <3>1, <3>2, NextPlaces DEF Job, Working
    <3>4. QED
      BY <3>3 DEF Chained, TypeOK
  <2>5. ASSUME NEW n \in JobIds, ChainInsert(j, n) PROVE TypeOK'
    <3>1. Chained(j) \in [JobIds -> Job]
      BY <2>4, <2>5 DEF ChainInsert
    <3>2. Head(jobs[j].plan.chain) \in Tasks
      BY <2>5, ChainRestType DEF ChainInsert, TypeOK, Job
    <3>3. PICK tracked \in BOOLEAN :
             /\ jobs' = [Chained(j) EXCEPT
                            ![n] = NewJob(Head(jobs[j].plan.chain), tracked)]
             /\ IF tracked THEN UNCHANGED budget ELSE Fault
      BY <2>5 DEF ChainInsert
    <3>4. jobs' \in [JobIds -> Job]
      BY <3>1, <3>2, <3>3, NewJobType
    <3>5. budget' \in Budget
      BY <3>3, StatementType DEF TypeOK
    <3>6. QED
      BY <2>5, <3>4, <3>5 DEF ChainInsert, TypeOK, runVars, rowVars
  <2>6. CASE ChainLost(j)
    BY <2>4, <2>6, StatementType DEF ChainLost, TypeOK, runVars, rowVars
  <2>7. ASSUME jobs[j].plan \in Plan, NEW pc \in Places, AdvanceTo(j, pc)
        PROVE  jobs' \in [JobIds -> Job]
    BY <2>7, MoveType DEF AdvanceTo, TypeOK
  <2>8. jobs[j] \in Job /\ jobs[j].plan \in Plan
    BY DEF TypeOK, Job
  <2>9. AfterCheck(jobs[j].plan) \in Places
    BY <2>8, NextPlaces DEF Places, Working
  <2>10. CASE CheckRead(j)
    <3>1. Verdict \in {"none", "completed", "failed"}
      BY DEF Verdict
    <3>2. [jobs[j] EXCEPT !.verdict = Verdict,
                          !.pc = IF Verdict = "none"
                                 THEN AfterCheck(jobs[j].plan) ELSE "status"] \in Job
      BY <2>8, <2>9, <3>1 DEF Job, Places, Working
    <3>3. jobs' \in [JobIds -> Job]
      BY <2>10, <2>7, <2>8, <2>9, <3>2 DEF CheckRead, TypeOK
    <3>4. budget' \in Budget
      BY <2>10, StatementType DEF CheckRead
    <3>5. QED
      BY <2>10, <3>3, <3>4 DEF CheckRead, TypeOK, runVars, rowVars
  <2>11. CASE CheckWriteStatus(j)
    <3>1. jobs' \in [JobIds -> Job]
      BY <2>11, <2>7, <2>8 DEF CheckWriteStatus, Places, Working
    <3>2. runStatus' \in RunStatus
      BY <2>11, <2>8 DEF CheckWriteStatus, TypeOK, RunStatus, Job
    <3>3. budget' \in Budget
      BY <2>11, StatementType DEF CheckWriteStatus
    <3>4. QED
      BY <2>11, <3>1, <3>2, <3>3 DEF CheckWriteStatus, TypeOK, rowVars
  <2>12. CASE CheckWriteError(j)
    <3>1. jobs' \in [JobIds -> Job]
      BY <2>12, <2>7, <2>8 DEF CheckWriteError, Places, Working
    <3>2. budget' \in Budget
      BY <2>12, StatementType DEF CheckWriteError
    <3>3. QED
      BY <2>12, <3>1, <3>2 DEF CheckWriteError, TypeOK, rowVars
  <2>13. ASSUME NEW m \in Sent, Send(j, m)
         PROVE  sent' \in [Sent -> 0 .. MaxCount] /\ budget' \in Budget
    BY <2>13, StatementType DEF Send, TypeOK
  <2>14. CASE CheckNotify(j)
    <3>1. jobs' \in [JobIds -> Job]
      BY <2>14, <2>7, <2>8, <2>9 DEF CheckNotify
    <3>2. jobs[j].verdict \in Sent
      BY <2>14, <2>8 DEF CheckNotify, VerdictGiven, Reporting, Job, Sent
    <3>3. QED
      BY <2>14, <2>13, <3>1, <3>2 DEF CheckNotify, TypeOK, rowVars
  <2>15. CASE AskReview(j)
    <3>1. jobs' \in [JobIds -> Job]
      BY <2>15, <2>7, <2>8 DEF AskReview, Places, Working
    <3>2. QED
      BY <2>15, <2>13, <3>1 DEF AskReview, Sent, TypeOK, rowVars
  <2>16. CASE Return(j)
    BY <2>16, <2>8, EndedType DEF Return, TypeOK, runVars, rowVars
  <2>17. CASE WorkStatement(j)
    BY <2>17, StatementType DEF WorkStatement, TypeOK, runVars, rowVars
  <2>18. QED
    BY <1>3, <2>1, <2>2, <2>3, <2>5, <2>6, <2>10, <2>11, <2>12, <2>14, <2>15,
       <2>16, <2>17 DEF Work
<1>4. ASSUME NEW j \in JobIds, Timeout(j) PROVE TypeOK'
  <2>1. [jobs[j] EXCEPT !.ctx = "done"] \in Job
    BY DEF TypeOK, Job
  <2>2. jobs' \in [JobIds -> Job] /\ budget' \in Budget
    BY <1>4, <2>1, StatementType DEF Timeout, TypeOK
  <2>3. QED
    BY <1>4, <2>2 DEF Timeout, TypeOK, runVars, rowVars
<1>5. ASSUME NEW j \in JobIds, Crash(j) PROVE TypeOK'
  <2>1. budget' \in Budget
    BY <1>5 DEF Crash, TypeOK, Budget
  <2>2. CASE AdvanceTo(j, "lost")
    BY <1>5, <2>1, <2>2, MoveType DEF Crash, AdvanceTo, Places, TypeOK, runVars, rowVars
  <2>3. CASE jobs[j].state = "available"
             /\ jobs' = [jobs EXCEPT ![j].state = "running", ![j].pc = "lost",
                                     ![j].attempt = @ + 1]
    <3>1. jobs[j] \in Job /\ jobs[j].attempt + 1 \in 0 .. MaxAttempts
      BY <2>3 DEF TypeOK, ExecutionSound, Job
    <3>2. [jobs[j] EXCEPT !.state = "running", !.pc = "lost", !.attempt = @ + 1] \in Job
      BY <3>1 DEF Job, JobState
    <3>3. jobs' \in [JobIds -> Job]
      BY <2>3, <3>2 DEF TypeOK
    <3>4. QED
      BY <1>5, <2>1, <3>3 DEF Crash, TypeOK, runVars, rowVars
  <2>4. QED
    BY <1>5, <2>2, <2>3 DEF Crash
<1>6. ASSUME NEW j \in JobIds, Rescue(j) PROVE TypeOK'
  BY <1>6, EndedType DEF Rescue, TypeOK, runVars, rowVars
<1>7. CASE Retry
  <2>1. CASE RetryRead
    BY <1>7, <2>1 DEF RetryRead, TypeOK, Budget, runVars, rowVars
  <2>2. ASSUME NEW t \in Tasks, RetryResetTask(t) PROVE TypeOK'
    <3>1. budget' \in Budget
      BY <2>2 DEF RetryResetTask, Fault, CanFault, TypeOK, Budget
    <3>2. QED
      BY <2>2, <3>1 DEF RetryResetTask, TypeOK, TaskStatus, runVars
  <2>3. CASE RetrySetRunning
    <3>1. budget' \in Budget
      BY <2>3 DEF RetrySetRunning, Fault, CanFault, TypeOK, Budget
    <3>2. QED
      BY <2>3, <3>1 DEF RetrySetRunning, TypeOK, RunStatus, rowVars
  <2>4. QED
    BY <1>7, <2>1, <2>2, <2>3 DEF Retry
<1>8. CASE Rest
  BY <1>8 DEF Rest, TypeOK, vars
<1>9. QED
  BY <1>1, <1>2, <1>3, <1>4, <1>5, <1>6, <1>7, <1>8 DEF Next

-----------------------------------------------------------------------------
(* Every step keeps the invariant.  What has been true of the tasks stays  *)
(* recorded, so a verdict read long ago is still covered.                  *)

(* Nothing is ever taken off the record of the tasks. *)
LEMMA HistoryGrows ==
    ASSUME TypeOK, Next
    PROVE  everCompleted \subseteq everCompleted' /\ (everFailed => everFailed')
<1>1. ASSUME NEW j \in JobIds, NEW status \in TaskStatus, SetTask(j, status)
      PROVE  everCompleted \subseteq everCompleted' /\ (everFailed => everFailed')
  BY <1>1 DEF SetTask, rowVars, TypeOK
<1>2. ASSUME NEW j \in JobIds, Work(j)
      PROVE  everCompleted \subseteq everCompleted' /\ (everFailed => everFailed')
  <2>1. CASE StartTask(j)
    BY <1>1, <2>1 DEF StartTask, TaskStatus
  <2>2. ASSUME NEW p \in Plans[jobs[j].kind], MarkTask(j, p)
        PROVE  everCompleted \subseteq everCompleted' /\ (everFailed => everFailed')
    <3>1. p.mark \in TaskStatus
      BY EngineAssumption DEF TypeOK, Job, Plan, TaskStatus
    <3>2. QED
      BY <1>1, <2>2, <3>1 DEF MarkTask
  <2>3. QED
    BY <1>2, <2>1, <2>2 DEF Work, Spawn, WorkStatement, ChainInsert, ChainLost, CheckRead,
       CheckWriteStatus, CheckWriteError, CheckNotify, AskReview, Return, rowVars
<1>3. CASE Create
  <2>1. UNCHANGED <<everCompleted, everFailed>>
    BY <1>3 DEF Create, CreateRun, CreateTask, EnqueueEntry, rowVars
  <2>2. QED
    BY <2>1
<1>4. CASE Retry
  BY <1>4 DEF Retry, RetryRead, RetryResetTask, RetrySetRunning, rowVars
<1>5. ASSUME NEW j \in JobIds, Timeout(j) \/ Crash(j) \/ Rescue(j)
      PROVE  UNCHANGED rowVars
  BY <1>5 DEF Timeout, Crash, Rescue
<1>6. CASE CreateAborts \/ Rest
  BY <1>6 DEF CreateAborts, Rest, vars, rowVars
<1>7. QED
  BY <1>2, <1>3, <1>4, <1>5, <1>6 DEF Next, rowVars

(* A task's row says completed or failed only if that is on record. *)
LEMMA HistoryStep ==
    ASSUME TypeOK, HistoryKept, Next
    PROVE  HistoryKept'
<1>1. ASSUME NEW j \in JobIds, NEW status \in TaskStatus, SetTask(j, status)
      PROVE  HistoryKept'
  BY <1>1 DEF SetTask, HistoryKept, TypeOK, Job, rowVars
<1>2. ASSUME NEW j \in JobIds, Work(j) PROVE HistoryKept'
  <2>1. CASE StartTask(j)
    BY <1>1, <2>1 DEF StartTask, TaskStatus
  <2>2. ASSUME NEW p \in Plans[jobs[j].kind], MarkTask(j, p) PROVE HistoryKept'
    <3>1. p.mark \in TaskStatus
      BY EngineAssumption DEF TypeOK, Job, Plan, TaskStatus
    <3>2. QED
      BY <1>1, <2>2, <3>1 DEF MarkTask
  <2>3. QED
    BY <1>2, <2>1, <2>2 DEF Work, Spawn, WorkStatement, ChainInsert, ChainLost, CheckRead,
       CheckWriteStatus, CheckWriteError, CheckNotify, AskReview, Return,
       rowVars, HistoryKept
<1>3. CASE Create
  BY <1>3 DEF Create, CreateRun, CreateTask, EnqueueEntry, rowVars, HistoryKept, TypeOK
<1>4. CASE Retry
  BY <1>4 DEF Retry, RetryRead, RetryResetTask, RetrySetRunning, rowVars,
     HistoryKept, TypeOK
<1>5. ASSUME NEW j \in JobIds, Timeout(j) \/ Crash(j) \/ Rescue(j)
      PROVE  UNCHANGED rowVars
  BY <1>5 DEF Timeout, Crash, Rescue
<1>6. CASE CreateAborts \/ Rest
  BY <1>6 DEF CreateAborts, Rest, vars, rowVars, HistoryKept
<1>7. QED
  BY <1>2, <1>3, <1>4, <1>5, <1>6 DEF Next, rowVars, HistoryKept

(* What a job knows of the run changes only by a check of its own. *)
SameVerdict(r, s) ==
    \/ s.verdict = r.verdict /\ (s.pc \in Reporting => r.pc \in Reporting)
    \/ s.verdict = "none" /\ s.pc \notin Reporting

(* A row River has just written knows nothing. *)
LEMMA FreshVerdict ==
    /\ \A t, tracked, r : SameVerdict(r, NewJob(t, tracked))
    /\ \A r, failed : SameVerdict(r, Ended(r, failed))
BY DEF SameVerdict, NewJob, NoJob, Ended, Reporting

(* No other step touches the verdict of a job. *)
LEMMA VerdictFrame ==
    ASSUME TypeOK, ExecutionSound, Next, NEW i \in JobIds
    PROVE  CheckRead(i) \/ SameVerdict(jobs[i], jobs'[i])
<1>1. ASSUME UNCHANGED jobs PROVE SameVerdict(jobs[i], jobs'[i])
  BY <1>1 DEF SameVerdict
<1>2. ASSUME NEW j \in JobIds, NEW pc, AdvanceTo(j, pc),
             pc \in Reporting => jobs[j].pc \in Reporting
      PROVE  SameVerdict(jobs[i], jobs'[i])
  BY <1>2 DEF AdvanceTo, SameVerdict, TypeOK, Job
<1>3. \A j \in JobIds : AfterCheck(jobs[j].plan) \notin Reporting
  BY DEF AfterCheck, Reporting
<1>4. ASSUME NEW j \in JobIds, Work(j), ~CheckRead(i)
      PROVE  SameVerdict(jobs[i], jobs'[i])
  <2>1. CASE StartTask(j)
    BY <2>1 DEF StartTask, SameVerdict, TypeOK, Job, Reporting
  <2>2. ASSUME NEW t \in Spawns[jobs[j].kind], NEW n \in JobIds, Spawn(j, t, n)
        PROVE  SameVerdict(jobs[i], jobs'[i])
    <3>1. PICK tracked \in BOOLEAN :
             jobs' = [jobs EXCEPT ![n] = NewJob(t, tracked), ![j].spawned = @ + 1]
      BY <2>2 DEF Spawn
    <3>2. n # j
      BY <2>2 DEF Spawn, IsNextId, ExecutionSound
    <3>3. CASE i = n
      BY <3>1, <3>2, <3>3, FreshVerdict DEF TypeOK
    <3>4. CASE i # n
      BY <3>1, <3>2, <3>4 DEF SameVerdict, TypeOK, Job
    <3>5. QED
      BY <3>3, <3>4
  <2>3. ASSUME NEW p \in Plans[jobs[j].kind], MarkTask(j, p)
        PROVE  SameVerdict(jobs[i], jobs'[i])
    <3>1. AfterMark(p) \notin Reporting
      BY DEF AfterMark, AfterCheck, Reporting
    <3>2. QED
      BY <2>3, <3>1 DEF MarkTask, SameVerdict, TypeOK, Job
  <2>4. ASSUME NEW f, f = Chained(j) PROVE SameVerdict(jobs[i], f[i])
    <3>1. AfterMark(ChainRest(jobs[j].plan)) \notin Reporting
      BY DEF AfterMark, AfterCheck, Reporting
    <3>2. QED
      BY <2>4, <3>1 DEF Chained, SameVerdict, TypeOK, Job
  <2>5. ASSUME NEW n \in JobIds, ChainInsert(j, n)
        PROVE  SameVerdict(jobs[i], jobs'[i])
    <3>1. PICK tracked \in BOOLEAN :
             jobs' = [Chained(j) EXCEPT
                        ![n] = NewJob(Head(jobs[j].plan.chain), tracked)]
      BY <2>5 DEF ChainInsert
    <3>2. DOMAIN Chained(j) = JobIds
      BY DEF Chained, TypeOK
    <3>3. CASE i = n
      BY <3>1, <3>2, <3>3, FreshVerdict
    <3>4. CASE i # n
      BY <2>4, <3>1, <3>2, <3>4
    <3>5. QED
      BY <3>3, <3>4
  <2>6. CASE ChainLost(j)
    BY <2>4, <2>6 DEF ChainLost
  <2>7. CASE CheckRead(j)
    <3>1. j # i
      BY <1>4, <2>7
    <3>2. QED
      BY <1>2, <1>3, <2>7, <3>1 DEF CheckRead, SameVerdict, TypeOK
  <2>8. CASE CheckWriteStatus(j) \/ CheckWriteError(j) \/ CheckNotify(j) \/ AskReview(j)
    BY <1>2, <1>3, <2>8
       DEF CheckWriteStatus, CheckWriteError, CheckNotify, AskReview, Reporting
  <2>9. CASE Return(j)
    BY <2>9, FreshVerdict DEF Return, SameVerdict, TypeOK
  <2>10. CASE WorkStatement(j)
    BY <1>1, <2>10 DEF WorkStatement
  <2>11. QED
    BY <1>4, <2>1, <2>2, <2>3, <2>5, <2>6, <2>7, <2>8, <2>9, <2>10 DEF Work
<1>5. ASSUME NEW j \in JobIds, Timeout(j) PROVE SameVerdict(jobs[i], jobs'[i])
  BY <1>5 DEF Timeout, SameVerdict, TypeOK, Job
<1>6. ASSUME NEW j \in JobIds, Crash(j) PROVE SameVerdict(jobs[i], jobs'[i])
  BY <1>6 DEF Crash, AdvanceTo, SameVerdict, TypeOK, Job, Reporting
<1>7. ASSUME NEW j \in JobIds, Rescue(j) PROVE SameVerdict(jobs[i], jobs'[i])
  BY <1>7, FreshVerdict DEF Rescue, SameVerdict, TypeOK
<1>8. CASE Create
  <2>1. ASSUME NEW n \in JobIds, EnqueueEntry(n)
        PROVE  SameVerdict(jobs[i], jobs'[i])
    BY <2>1, FreshVerdict DEF EnqueueEntry, SameVerdict, TypeOK
  <2>2. QED
    BY <1>1, <1>8, <2>1 DEF Create, CreateRun, CreateTask
<1>9. CASE CreateAborts \/ Retry \/ Rest
  BY <1>1, <1>9 DEF CreateAborts, Retry, RetryRead, RetryResetTask,
     RetrySetRunning, Rest, vars
<1>10. QED
  BY <1>4, <1>5, <1>6, <1>7, <1>8, <1>9 DEF Next

(* A verdict that is held is covered by the record. *)
LEMMA VerdictStep ==
    ASSUME TypeOK, Consistent, Next
    PROVE  VerdictGiven'
<1> USE DEF Consistent
<1>1. everCompleted' \subseteq Tasks
  BY TypeStep DEF TypeOK
<1>2. SUFFICES ASSUME NEW i \in JobIds
               PROVE  /\ jobs'[i].verdict = "completed" => everCompleted' = Tasks
                      /\ jobs'[i].verdict = "failed" => everFailed'
                      /\ jobs'[i].pc \in Reporting => jobs'[i].verdict # "none"
  BY DEF VerdictGiven
<1>3. CASE SameVerdict(jobs[i], jobs'[i])
  BY <1>1, <1>3, HistoryGrows DEF SameVerdict, VerdictGiven
<1>4. CASE CheckRead(i)
  <2>1. UNCHANGED <<everCompleted, everFailed>>
    BY <1>4 DEF CheckRead, rowVars
  <2>2. CASE /\ jobs' = [jobs EXCEPT
                            ![i].verdict = Verdict,
                            ![i].pc = IF Verdict = "none"
                                      THEN AfterCheck(jobs[i].plan) ELSE "status"]
    <3>1. /\ jobs'[i].verdict = Verdict
          /\ jobs'[i].pc \in Reporting => Verdict # "none"
      BY <2>2 DEF TypeOK, Job, AfterCheck, Reporting
    <3>2. Rows = Tasks
      <4>1. jobs[i].state # "none"
        BY <1>4 DEF CheckRead, ExecutionSound
      <4>2. QED
        BY <4>1 DEF RunCreatedFirst
    <3>3. Verdict = "completed" => everCompleted = Tasks
      BY <3>2 DEF Verdict, HistoryKept, TypeOK
    <3>4. Verdict = "failed" => everFailed
      BY <3>2 DEF Verdict, HistoryKept
    <3>5. QED
      BY <2>1, <3>1, <3>3, <3>4
  <2>3. CASE AdvanceTo(i, AfterCheck(jobs[i].plan))
    BY <2>1, <2>3 DEF AdvanceTo, VerdictGiven, TypeOK, Job, AfterCheck, Reporting
  <2>4. QED
    BY <1>4, <2>2, <2>3 DEF CheckRead
<1>5. QED
  BY <1>3, <1>4, VerdictFrame

(* Jobs exist only once the creator of the run has finished. *)
LEMMA CreationStep ==
    ASSUME TypeOK, Consistent, Next
    PROVE  RunCreatedFirst'
<1> USE DEF Consistent
<1>1. ASSUME NEW j \in JobIds, jobs[j].state # "none"
      PROVE  creator = "finished" /\ Rows = Tasks /\ runStatus # "none"
  BY <1>1 DEF RunCreatedFirst
<1>2. ASSUME UNCHANGED <<runStatus, creator, taskStatus, jobs>>,
             api'.pc = "idle" \/ runStatus # "none"
      PROVE  RunCreatedFirst'
  BY <1>2 DEF RunCreatedFirst, Rows
<1>3. ASSUME UNCHANGED creator, creator = "finished", runStatus' # "none", Rows' = Tasks
      PROVE  RunCreatedFirst'
  BY <1>3 DEF RunCreatedFirst
<1>4. ASSUME NEW j \in JobIds, NEW status \in TaskStatus \ {"absent"}, SetTask(j, status),
             Rows = Tasks
      PROVE  Rows' = Tasks
  BY <1>4 DEF SetTask, Rows, rowVars, TypeOK
<1>5. ASSUME NEW j \in JobIds, Work(j) PROVE RunCreatedFirst'
  <2>1. /\ UNCHANGED creator
        /\ jobs[j].state # "none"
        /\ runStatus' = runStatus \/ CheckWriteStatus(j)
    BY <1>5 DEF Work, StartTask, Spawn, WorkStatement, MarkTask, ChainInsert, ChainLost, CheckRead,
       CheckWriteStatus, CheckWriteError, CheckNotify, AskReview, Return, runVars,
       ExecutionSound
  <2>2. runStatus' # "none"
    <3>1. CASE CheckWriteStatus(j)
      BY <1>1, <2>1, <3>1 DEF CheckWriteStatus, VerdictGiven, Reporting
    <3>2. QED
      BY <1>1, <2>1, <3>1
  <2>3. Rows' = Tasks
    <3>1. CASE StartTask(j)
      BY <1>1, <1>4, <2>1, <3>1 DEF StartTask, TaskStatus
    <3>2. ASSUME NEW p \in Plans[jobs[j].kind], MarkTask(j, p) PROVE Rows' = Tasks
      <4>1. p.mark \in TaskStatus \ {"absent"}
        BY EngineAssumption DEF TypeOK, Job, Plan, TaskStatus
      <4>2. QED
        BY <1>1, <1>4, <2>1, <3>2, <4>1 DEF MarkTask
    <3>3. QED
      BY <1>1, <1>5, <2>1, <3>1, <3>2 DEF Work, Spawn, WorkStatement, ChainInsert, ChainLost,
         CheckRead, CheckWriteStatus, CheckWriteError, CheckNotify, AskReview,
         Return, rowVars, Rows
  <2>4. QED
    BY <1>1, <1>3, <2>1, <2>2, <2>3
<1>6. ASSUME NEW j \in JobIds, Timeout(j) \/ Crash(j) \/ Rescue(j)
      PROVE  RunCreatedFirst'
  <2>1. jobs[j].state # "none"
    BY <1>6 DEF Timeout, Crash, Rescue, ExecutionSound, Working
  <2>2. UNCHANGED <<creator, runStatus, taskStatus>>
    BY <1>6 DEF Timeout, Crash, Rescue, runVars, rowVars
  <2>3. QED
    BY <1>1, <1>3, <2>1, <2>2 DEF Rows
<1>7. CASE Create
  <2>1. CASE CreateRun
    BY <2>1 DEF CreateRun, RunCreatedFirst, Rows, rowVars
  <2>2. ASSUME NEW t \in Tasks, CreateTask(t) PROVE RunCreatedFirst'
    BY <2>2 DEF CreateTask, RunCreatedFirst, Rows, TypeOK, runVars
  <2>3. ASSUME NEW n \in JobIds, EnqueueEntry(n) PROVE RunCreatedFirst'
    BY <2>3 DEF EnqueueEntry, RunCreatedFirst, Rows, runVars, rowVars
  <2>4. QED
    BY <1>7, <2>1, <2>2, <2>3 DEF Create
<1>8. CASE CreateAborts
  BY <1>8 DEF CreateAborts, RunCreatedFirst, Rows, runVars, rowVars
<1>9. CASE Retry
  <2>1. CASE RetryRead
    BY <1>2, <2>1 DEF RetryRead, runVars, rowVars
  <2>2. ASSUME NEW t \in Tasks, RetryResetTask(t) PROVE RunCreatedFirst'
    BY <2>2 DEF RetryResetTask, RunCreatedFirst, Rows, TypeOK, runVars
  <2>3. CASE RetrySetRunning
    BY <2>3 DEF RetrySetRunning, RunCreatedFirst, Rows, rowVars
  <2>4. QED
    BY <1>9, <2>1, <2>2, <2>3 DEF Retry
<1>10. CASE Rest
  BY <1>2, <1>10 DEF Rest, vars, RunCreatedFirst
<1>11. QED
  BY <1>5, <1>6, <1>7, <1>8, <1>9, <1>10 DEF Next

(* Only running jobs are executed, and only while attempts are left. *)
SoundRow(r) ==
    /\ r.pc # "idle" => r.state = "running"
    /\ r.state = "available" => r.attempt < MaxAttempts

(* The rows River writes are sound. *)
LEMMA FreshRow ==
    /\ \A t, tracked : SoundRow(NewJob(t, tracked))
    /\ \A r, failed : SoundRow(Ended(r, failed))
BY EngineAssumption DEF SoundRow, NewJob, NoJob, Ended

(* Every step leaves all of them sound. *)
LEMMA ExecutionStep ==
    ASSUME TypeOK, Consistent, Next
    PROVE  ExecutionSound'
<1> USE DEF Consistent
<1>1. \A j \in JobIds : SoundRow(jobs[j])
  BY DEF ExecutionSound, SoundRow
<1>2. SUFFICES ASSUME NEW i \in JobIds PROVE SoundRow(jobs'[i])
  BY DEF ExecutionSound, SoundRow
<1>3. ASSUME NEW j \in JobIds, NEW pc, AdvanceTo(j, pc), jobs[j].pc # "idle"
      PROVE  SoundRow(jobs'[i])
  BY <1>1, <1>3 DEF AdvanceTo, SoundRow, TypeOK, Job
<1>4. ASSUME NEW j \in JobIds, Work(j) PROVE SoundRow(jobs'[i])
  <2>1. CASE StartTask(j)
    BY <1>1, <2>1 DEF StartTask, SoundRow, TypeOK, Job
  <2>2. ASSUME NEW t \in Spawns[jobs[j].kind], NEW n \in JobIds, Spawn(j, t, n)
        PROVE  SoundRow(jobs'[i])
    <3>1. PICK tracked \in BOOLEAN :
             jobs' = [jobs EXCEPT ![n] = NewJob(t, tracked), ![j].spawned = @ + 1]
      BY <2>2 DEF Spawn
    <3>2. n # j
      BY <2>2 DEF Spawn, IsNextId, ExecutionSound
    <3>3. CASE i = n
      BY <3>1, <3>2, <3>3, FreshRow DEF TypeOK
    <3>4. CASE i # n
      BY <1>1, <3>1, <3>2, <3>4 DEF SoundRow, TypeOK, Job
    <3>5. QED
      BY <3>3, <3>4
  <2>3. ASSUME NEW p \in Plans[jobs[j].kind], MarkTask(j, p) PROVE SoundRow(jobs'[i])
    BY <1>1, <2>3 DEF MarkTask, SoundRow, TypeOK, Job
  <2>4. ASSUME jobs[j].pc = "chain", NEW f, f = Chained(j) PROVE SoundRow(f[i])
    BY <1>1, <2>4 DEF Chained, SoundRow, TypeOK, Job
  <2>5. ASSUME NEW n \in JobIds, ChainInsert(j, n) PROVE SoundRow(jobs'[i])
    <3>1. PICK tracked \in BOOLEAN :
             jobs' = [Chained(j) EXCEPT
                        ![n] = NewJob(Head(jobs[j].plan.chain), tracked)]
      BY <2>5 DEF ChainInsert
    <3>2. DOMAIN Chained(j) = JobIds
      BY DEF Chained, TypeOK
    <3>3. CASE i = n
      BY <3>1, <3>2, <3>3, FreshRow
    <3>4. CASE i # n
      BY <2>4, <2>5, <3>1, <3>2, <3>4 DEF ChainInsert
    <3>5. QED
      BY <3>3, <3>4
  <2>6. CASE ChainLost(j)
    BY <2>4, <2>6 DEF ChainLost
  <2>7. CASE CheckRead(j)
    BY <1>1, <1>3, <2>7 DEF CheckRead, SoundRow, TypeOK, Job
  <2>8. CASE CheckWriteStatus(j) \/ CheckWriteError(j) \/ CheckNotify(j) \/ AskReview(j)
    BY <1>3, <2>8 DEF CheckWriteStatus, CheckWriteError, CheckNotify, AskReview
  <2>9. CASE Return(j)
    BY <1>1, <2>9, FreshRow DEF Return, TypeOK
  <2>10. CASE WorkStatement(j)
    BY <1>1, <2>10 DEF WorkStatement
  <2>11. QED
    BY <1>4, <2>1, <2>2, <2>3, <2>5, <2>6, <2>7, <2>8, <2>9, <2>10 DEF Work
<1>5. ASSUME NEW j \in JobIds, Timeout(j) PROVE SoundRow(jobs'[i])
  BY <1>1, <1>5 DEF Timeout, SoundRow, TypeOK, Job
<1>6. ASSUME NEW j \in JobIds, Crash(j) PROVE SoundRow(jobs'[i])
  BY <1>1, <1>6 DEF Crash, AdvanceTo, SoundRow, TypeOK, Job, Working
<1>7. ASSUME NEW j \in JobIds, Rescue(j) PROVE SoundRow(jobs'[i])
  BY <1>1, <1>7, FreshRow DEF Rescue, TypeOK
<1>8. CASE Create
  <2>1. ASSUME NEW n \in JobIds, EnqueueEntry(n) PROVE SoundRow(jobs'[i])
    BY <1>1, <2>1, FreshRow DEF EnqueueEntry, TypeOK
  <2>2. QED
    BY <1>1, <1>8, <2>1 DEF Create, CreateRun, CreateTask
<1>9. CASE CreateAborts \/ Retry \/ Rest
  BY <1>1, <1>9 DEF CreateAborts, Retry, RetryRead, RetryResetTask,
     RetrySetRunning, Rest, vars
<1>10. QED
  BY <1>4, <1>5, <1>6, <1>7, <1>8, <1>9 DEF Next

-----------------------------------------------------------------------------
(* The theorems. *)

(* The first state, with no run and no job, has the types and the invariant. *)
LEMMA InitSound == Init => TypeOK /\ Consistent
<1> SUFFICES ASSUME Init PROVE TypeOK /\ Consistent
  OBVIOUS
<1>1. TypeOK
  <2>1. budget \in Budget /\ sent \in [Sent -> 0 .. MaxCount]
    BY EngineAssumption DEF Init, Budget
  <2>2. jobs \in [JobIds -> Job] /\ taskStatus \in [Tasks -> TaskStatus]
    BY NoJobType DEF Init, TaskStatus
  <2>3. QED
    BY <2>1, <2>2 DEF Init, TypeOK, RunStatus
<1>2. Consistent
  BY DEF Init, Consistent, HistoryKept, VerdictGiven, RunCreatedFirst, ExecutionSound,
     NoJob, Reporting
<1>3. QED
  BY <1>1, <1>2

(* Types and invariant are inductive: no step of a worker, River, the      *)
(* creator or a user leads out of them.                                    *)
LEMMA Inductive == TypeOK /\ Consistent /\ [Next]_vars => (TypeOK /\ Consistent)'
<1> SUFFICES ASSUME TypeOK, Consistent, [Next]_vars PROVE (TypeOK /\ Consistent)'
  OBVIOUS
<1>1. CASE Next
  <2>1. TypeOK'
    BY <1>1, TypeStep DEF Consistent
  <2>2. HistoryKept' /\ VerdictGiven' /\ RunCreatedFirst' /\ ExecutionSound'
    BY <1>1, HistoryStep, VerdictStep, CreationStep, ExecutionStep DEF Consistent
  <2>3. QED
    BY <2>1, <2>2 DEF Consistent
<1>2. CASE UNCHANGED vars
  BY <1>2 DEF vars, TypeOK, Consistent, HistoryKept, VerdictGiven, RunCreatedFirst,
     ExecutionSound, Rows
<1>3. QED
  BY <1>1, <1>2

(* The rows of the run, its tasks and its jobs always have their types.    *)
THEOREM TypeCorrect == Spec => []TypeOK
<1>1. QED
  BY InitSound, Inductive, PTL DEF Spec

(* Whatever runs twice, crashes or is taken back, a verdict that an        *)
(* execution is about to write is one the tasks have given.                *)
THEOREM VerdictsAreCovered == Spec => []Consistent
<1>1. QED
  BY InitSound, Inductive, PTL DEF Spec

(* A step of the program that changes the run's status, or what is on      *)
(* record of its tasks, is a step of the contract.                         *)
LEMMA ContractStep ==
    TypeOK /\ Consistent /\ [Next]_vars
        => [Contract!ContractNext]_Contract!contractVars
<1> SUFFICES ASSUME TypeOK, Consistent, Next
             PROVE  [Contract!ContractNext]_Contract!contractVars
  BY DEF vars, Contract!contractVars
<1> USE DEF Consistent, Contract!contractVars
<1>1. ASSUME UNCHANGED <<runStatus, rowVars>>
      PROVE  UNCHANGED Contract!contractVars
  BY <1>1 DEF rowVars
<1>2. ASSUME NEW j \in JobIds, jobs[j].state # "none"
      PROVE  runStatus # "none"
  BY <1>2 DEF RunCreatedFirst
<1>3. ASSUME NEW j \in JobIds, NEW status \in TaskStatus, SetTask(j, status),
             UNCHANGED runStatus, runStatus # "none"
      PROVE  [Contract!ContractNext]_Contract!contractVars
  <2>1. jobs[j].kind \in Tasks
    BY DEF TypeOK, Job
  <2>2. CASE UNCHANGED rowVars
    BY <1>1, <1>3, <2>2
  <2>3. CASE /\ everCompleted' =
                   everCompleted \cup (IF status = "completed" THEN {jobs[j].kind} ELSE {})
             /\ everFailed' = (everFailed \/ status = "failed")
    <3>1. CASE status = "completed" /\ jobs[j].kind \notin everCompleted
      <4>1. everFailed' = everFailed
        BY <2>3, <3>1 DEF TypeOK
      <4>2. Contract!TaskCompletes
        BY <1>3, <2>1, <2>3, <3>1, <4>1 DEF Contract!TaskCompletes
      <4>3. QED
        BY <4>2 DEF Contract!ContractNext
    <3>2. CASE status = "failed"
      <4>1. everFailed' = TRUE /\ everCompleted' = everCompleted
        BY <2>3, <3>2
      <4>2. Contract!TaskFails
        BY <1>3, <4>1 DEF Contract!TaskFails
      <4>3. QED
        BY <4>2 DEF Contract!ContractNext
    <3>3. CASE status # "failed" /\ (status = "completed" => jobs[j].kind \in everCompleted)
      <4>1. everFailed' = everFailed /\ everCompleted' = everCompleted
        BY <2>3, <3>3 DEF TypeOK
      <4>2. QED
        BY <1>3, <4>1
    <3>4. QED
      BY <3>1, <3>2, <3>3
  <2>4. QED
    BY <1>3, <2>2, <2>3 DEF SetTask
<1>4. ASSUME NEW j \in JobIds, Work(j)
      PROVE  [Contract!ContractNext]_Contract!contractVars
  <2>1. CASE StartTask(j)
    BY <1>2, <1>3, <2>1 DEF StartTask, TaskStatus, runVars
  <2>2. ASSUME NEW p \in Plans[jobs[j].kind], MarkTask(j, p)
        PROVE  [Contract!ContractNext]_Contract!contractVars
    <3>1. p.mark \in TaskStatus
      BY EngineAssumption DEF TypeOK, Job, Plan, TaskStatus
    <3>2. runStatus # "none"
      BY <1>2, <2>2 DEF MarkTask, ExecutionSound
    <3>3. QED
      BY <1>3, <2>2, <3>1, <3>2 DEF MarkTask, runVars
  <2>3. CASE CheckWriteStatus(j)
    <3>1. runStatus # "none" /\ UNCHANGED <<everCompleted, everFailed>>
      BY <1>2, <2>3 DEF CheckWriteStatus, ExecutionSound, rowVars
    <3>2. CASE UNCHANGED runStatus
      BY <3>1, <3>2
    <3>3. CASE runStatus' = jobs[j].verdict
      <4>1. CASE jobs[j].verdict = "completed"
        BY <3>1, <3>3, <4>1
           DEF VerdictGiven, Contract!ReportCompleted, Contract!ContractNext
      <4>2. CASE jobs[j].verdict = "failed"
        BY <3>1, <3>3, <4>2
           DEF VerdictGiven, Contract!ReportFailed, Contract!ContractNext
      <4>3. QED
        BY <2>3, <4>1, <4>2 DEF CheckWriteStatus, VerdictGiven, Reporting, TypeOK, Job
    <3>4. QED
      BY <2>3, <3>2, <3>3 DEF CheckWriteStatus
  <2>4. QED
    BY <1>1, <1>4, <2>1, <2>2, <2>3 DEF Work, Spawn, WorkStatement, ChainInsert, ChainLost,
       CheckRead, CheckWriteError, CheckNotify, AskReview, Return, runVars
<1>5. ASSUME NEW j \in JobIds, Timeout(j) \/ Crash(j) \/ Rescue(j)
      PROVE  UNCHANGED Contract!contractVars
  BY <1>1, <1>5 DEF Timeout, Crash, Rescue, runVars
<1>6. CASE Create
  <2>1. CASE CreateRun
    BY <2>1 DEF CreateRun, RunCreatedFirst, rowVars, Contract!Begin, Contract!ContractNext
  <2>2. ASSUME NEW t \in Tasks, CreateTask(t) PROVE UNCHANGED Contract!contractVars
    BY <2>2 DEF CreateTask, runVars
  <2>3. QED
    BY <1>1, <1>6, <2>1, <2>2 DEF Create, EnqueueEntry, runVars
<1>7. CASE Retry
  <2>1. ASSUME NEW t \in Tasks, RetryResetTask(t) PROVE UNCHANGED Contract!contractVars
    BY <2>1 DEF RetryResetTask, runVars
  <2>2. CASE RetrySetRunning
    BY <2>2 DEF RetrySetRunning, RunCreatedFirst, rowVars, Contract!UserRetries,
       Contract!ContractNext
  <2>3. QED
    BY <1>1, <1>7, <2>1, <2>2 DEF Retry, RetryRead, runVars
<1>8. CASE CreateAborts \/ Rest
  BY <1>8 DEF CreateAborts, Rest, runVars, rowVars, vars
<1>9. QED
  BY <1>4, <1>5, <1>6, <1>7, <1>8 DEF Next

(* The engine implements the contract: a run is reported completed only    *)
(* when every task has been completed, failed only when one has failed.    *)
THEOREM ContractIsKept == Spec => KeepsContract
<1>1. Init => Contract!ContractInit
  BY DEF Init, Contract!ContractInit
<1>2. QED
  BY <1>1, InitSound, Inductive, ContractStep, PTL
     DEF Spec, KeepsContract, Contract!ContractSpec
-----------------------------------------------------------------------------
(* What each step does to the jobs, field by field. *)

Others(j) == \A i \in JobIds : i # j => jobs'[i] = jobs[i]

(* The execution of job j moves on, and stays what it is. *)
Stays(j) ==
    /\ jobs'[j].kind = jobs[j].kind
    /\ jobs'[j].tracked = jobs[j].tracked
    /\ jobs'[j].ctx = jobs[j].ctx
    /\ jobs'[j].state = "running"

(* A row that River has just inserted for worker t. *)
Inserted(r, t) ==
    /\ r.state = "available" /\ r.kind = t
    /\ r.pc = "idle" /\ r.ctx = "live" /\ r.verdict = "none"

(* A job inserted is fresh; a tracked one is inserted tracked. *)
LEMMA NewJobInserted ==
    ASSUME NEW t \in Tasks, NEW tracked \in BOOLEAN
    PROVE  Inserted(NewJob(t, tracked), t) /\ NewJob(t, tracked).tracked = tracked
BY DEF Inserted, NewJob, NoJob

(* StartTask and the loss of an execution that has not begun. *)
LEMMA StartEffect ==
    ASSUME TypeOK, NEW j \in JobIds, StartTask(j)
    PROVE  /\ Others(j) /\ Stays(j)
           /\ jobs[j].state = "available" /\ jobs'[j].pc = "body"
           /\ jobs'[j].verdict = jobs[j].verdict
           /\ SetTask(j, "running")
           /\ UNCHANGED <<runVars, creator, api>>
BY DEF StartTask, TypeOK, Job, Others, Stays

(* Working jobs are running. *)
LEMMA MarkEffect ==
    ASSUME TypeOK, ExecutionSound, NEW j \in JobIds, NEW p, MarkTask(j, p)
    PROVE  /\ Others(j) /\ Stays(j)
           /\ jobs[j].pc = "body" /\ jobs[j].state = "running"
           /\ p \in Plans[jobs[j].kind] /\ p \in Plan
           /\ jobs'[j].pc = AfterMark(p) /\ jobs'[j].plan = p
           /\ jobs'[j].verdict = jobs[j].verdict
           /\ SetTask(j, p.mark)
           /\ UNCHANGED <<runVars, creator, api>>
<1>1. p \in Plan
  BY EngineAssumption DEF MarkTask, TypeOK, Job
<1>2. jobs[j].state = "running"
  BY DEF MarkTask, ExecutionSound
<1>3. QED
  BY <1>1, <1>2 DEF MarkTask, TypeOK, Job, Others, Stays

(* The execution of j has left its chain. *)
LEMMA ChainedEffect ==
    ASSUME TypeOK, ExecutionSound, NEW j \in JobIds, jobs[j].pc = "chain",
           NEW f, f = Chained(j)
    PROVE  /\ \A i \in JobIds : i # j => f[i] = jobs[i]
           /\ f[j].kind = jobs[j].kind /\ f[j].tracked = jobs[j].tracked
           /\ f[j].ctx = jobs[j].ctx /\ f[j].state = "running"
           /\ f[j].plan = ChainRest(jobs[j].plan)
           /\ f[j].pc = AfterMark(ChainRest(jobs[j].plan))
           /\ f[j].verdict = jobs[j].verdict
           /\ DOMAIN f = JobIds
<1>1. jobs[j].state = "running"
  BY DEF ExecutionSound
<1>2. QED
  BY <1>1 DEF Chained, TypeOK, Job

LEMMA ChainInsertEffect ==
    ASSUME TypeOK, ExecutionSound, NEW j \in JobIds, NEW n \in JobIds, ChainInsert(j, n)
    PROVE  /\ n # j /\ Stays(j)
           /\ \A i \in JobIds : i # j /\ i # n => jobs'[i] = jobs[i]
           /\ jobs[j].pc = "chain" /\ jobs[j].state = "running"
           /\ jobs[j].plan \in Plan /\ jobs[j].plan.chain # <<>>
           /\ jobs'[j].plan = ChainRest(jobs[j].plan)
           /\ jobs'[j].pc = AfterMark(ChainRest(jobs[j].plan))
           /\ jobs'[j].verdict = jobs[j].verdict
           /\ jobs[n].state = "none"
           /\ Inserted(jobs'[n], Head(jobs[j].plan.chain))
           /\ \/ jobs'[n].tracked /\ UNCHANGED budget
              \/ Fault
           /\ UNCHANGED <<runVars, rowVars, creator, api>>
<1>1. /\ jobs[j].pc = "chain" /\ jobs[j].plan.chain # <<>> /\ jobs[n].state = "none"
      /\ UNCHANGED <<runVars, rowVars, creator, api>>
  BY DEF ChainInsert, IsNextId
<1>2. jobs[j].state = "running" /\ jobs[j].plan \in Plan
  BY <1>1 DEF ExecutionSound, TypeOK, Job
<1>3. n # j
  BY <1>1, <1>2
<1>4. PICK tracked \in BOOLEAN :
         /\ jobs' = [Chained(j) EXCEPT
                        ![n] = NewJob(Head(jobs[j].plan.chain), tracked)]
         /\ IF tracked THEN UNCHANGED budget ELSE Fault
  BY DEF ChainInsert
<1>5. DOMAIN Chained(j) = JobIds
  BY DEF Chained, TypeOK
<1>6. /\ jobs'[n] = NewJob(Head(jobs[j].plan.chain), tracked)
      /\ \A i \in JobIds : i # n => jobs'[i] = Chained(j)[i]
  BY <1>4, <1>5
<1>7. Head(jobs[j].plan.chain) \in Tasks
  BY <1>1, <1>2, ChainRestType
<1>8. Inserted(jobs'[n], Head(jobs[j].plan.chain)) /\ jobs'[n].tracked = tracked
  BY <1>6, <1>7, NewJobInserted
<1>9. /\ \A i \in JobIds : i # j => Chained(j)[i] = jobs[i]
      /\ Chained(j)[j].kind = jobs[j].kind /\ Chained(j)[j].tracked = jobs[j].tracked
      /\ Chained(j)[j].ctx = jobs[j].ctx /\ Chained(j)[j].state = "running"
      /\ Chained(j)[j].plan = ChainRest(jobs[j].plan)
      /\ Chained(j)[j].pc = AfterMark(ChainRest(jobs[j].plan))
      /\ Chained(j)[j].verdict = jobs[j].verdict
  BY <1>1, ChainedEffect
<1>10. QED
  BY <1>1, <1>2, <1>3, <1>4, <1>6, <1>8, <1>9 DEF Stays

LEMMA ChainLostEffect ==
    ASSUME TypeOK, ExecutionSound, NEW j \in JobIds, ChainLost(j)
    PROVE  /\ Others(j) /\ Stays(j)
           /\ jobs[j].pc = "chain" /\ jobs[j].state = "running"
           /\ jobs'[j].plan = ChainRest(jobs[j].plan)
           /\ jobs'[j].pc = AfterMark(ChainRest(jobs[j].plan))
           /\ jobs'[j].verdict = jobs[j].verdict
           /\ Errs(j)
           /\ UNCHANGED <<runVars, rowVars, creator, api>>
<1>1. jobs[j].pc = "chain" /\ jobs' = Chained(j) /\ Errs(j)
      /\ UNCHANGED <<runVars, rowVars, creator, api>>
  BY DEF ChainLost
<1>2. jobs[j].state = "running"
  BY <1>1 DEF ExecutionSound
<1>3. QED
  BY <1>1, <1>2, ChainedEffect DEF Others, Stays

(* An execution at work that only moves on. *)
LEMMA AdvanceEffect ==
    ASSUME TypeOK, ExecutionSound, NEW j \in JobIds, jobs[j].pc # "idle",
           NEW pc, AdvanceTo(j, pc)
    PROVE  /\ Others(j) /\ Stays(j)
           /\ jobs[j].state = "running"
           /\ jobs'[j].pc = pc /\ jobs'[j].plan = jobs[j].plan
           /\ jobs'[j].verdict = jobs[j].verdict
<1>1. jobs[j].state = "running"
  BY DEF ExecutionSound
<1>2. QED
  BY <1>1 DEF AdvanceTo, TypeOK, Job, Others, Stays

LEMMA CheckReadEffect ==
    ASSUME TypeOK, ExecutionSound, NEW j \in JobIds, CheckRead(j)
    PROVE  /\ Others(j) /\ Stays(j)
           /\ jobs[j].pc = "check" /\ jobs[j].state = "running"
           /\ jobs'[j].plan = jobs[j].plan
           /\ \/ /\ Succeeds(j) /\ jobs'[j].verdict = Verdict
                 /\ jobs'[j].pc = IF Verdict = "none" THEN AfterCheck(jobs[j].plan)
                                  ELSE "status"
              \/ /\ Errs(j) /\ jobs'[j].verdict = jobs[j].verdict
                 /\ jobs'[j].pc = AfterCheck(jobs[j].plan)
           /\ UNCHANGED <<runVars, rowVars, creator, api>>
<1>1. jobs[j].pc = "check" /\ UNCHANGED <<runVars, rowVars, creator, api>>
  BY DEF CheckRead
<1>2. jobs[j].state = "running"
  BY <1>1 DEF ExecutionSound
<1>3. CASE /\ Succeeds(j)
           /\ jobs' = [jobs EXCEPT
                         ![j].verdict = Verdict,
                         ![j].pc = IF Verdict = "none"
                                   THEN AfterCheck(jobs[j].plan) ELSE "status"]
  BY <1>1, <1>2, <1>3 DEF TypeOK, Job, Others, Stays
<1>4. CASE Errs(j) /\ AdvanceTo(j, AfterCheck(jobs[j].plan))
  BY <1>1, <1>4, AdvanceEffect
<1>5. QED
  BY <1>3, <1>4 DEF CheckRead

(* The three writes of the check and the request for a review. *)
LEMMA StatusEffect ==
    ASSUME TypeOK, ExecutionSound, NEW j \in JobIds, CheckWriteStatus(j)
    PROVE  /\ Others(j) /\ Stays(j)
           /\ jobs[j].pc = "status" /\ jobs[j].state = "running"
           /\ jobs'[j].pc = IF jobs[j].verdict = "failed" THEN "error" ELSE "notify"
           /\ jobs'[j].plan = jobs[j].plan /\ jobs'[j].verdict = jobs[j].verdict
           /\ \/ Succeeds(j) /\ runStatus' = jobs[j].verdict
              \/ Errs(j) /\ UNCHANGED runStatus
           /\ UNCHANGED <<runError, sent, rowVars, creator, api>>
<1>1. /\ jobs[j].pc = "status"
      /\ AdvanceTo(j, IF jobs[j].verdict = "failed" THEN "error" ELSE "notify")
      /\ \/ Succeeds(j) /\ runStatus' = jobs[j].verdict
         \/ Errs(j) /\ UNCHANGED runStatus
      /\ UNCHANGED <<runError, sent, rowVars, creator, api>>
  BY DEF CheckWriteStatus
<1> DEFINE next == IF jobs[j].verdict = "failed" THEN "error" ELSE "notify"
<1> HIDE DEF next
<1>2. AdvanceTo(j, next)
  BY <1>1 DEF next
<1>3. /\ Others(j) /\ Stays(j)
      /\ jobs[j].state = "running"
      /\ jobs'[j].pc = next /\ jobs'[j].plan = jobs[j].plan
      /\ jobs'[j].verdict = jobs[j].verdict
  BY <1>1, <1>2, AdvanceEffect
<1>4. QED
  BY <1>1, <1>3 DEF next

LEMMA ErrorEffect ==
    ASSUME TypeOK, ExecutionSound, NEW j \in JobIds, CheckWriteError(j)
    PROVE  /\ Others(j) /\ Stays(j)
           /\ jobs[j].pc = "error" /\ jobs[j].state = "running"
           /\ jobs'[j].pc = "notify"
           /\ jobs'[j].plan = jobs[j].plan /\ jobs'[j].verdict = jobs[j].verdict
           /\ Succeeds(j) \/ Errs(j)
           /\ UNCHANGED <<runStatus, sent, rowVars, creator, api>>
BY AdvanceEffect DEF CheckWriteError

LEMMA NotifyEffect ==
    ASSUME TypeOK, ExecutionSound, NEW j \in JobIds, CheckNotify(j)
    PROVE  /\ Others(j) /\ Stays(j)
           /\ jobs[j].pc = "notify" /\ jobs[j].state = "running"
           /\ jobs'[j].pc = AfterCheck(jobs[j].plan)
           /\ jobs'[j].plan = jobs[j].plan /\ jobs'[j].verdict = jobs[j].verdict
           /\ Send(j, jobs[j].verdict)
           /\ UNCHANGED <<runStatus, runError, rowVars, creator, api>>
BY AdvanceEffect DEF CheckNotify

LEMMA ReviewEffect ==
    ASSUME TypeOK, ExecutionSound, NEW j \in JobIds, AskReview(j)
    PROVE  /\ Others(j) /\ Stays(j)
           /\ jobs[j].pc = "review" /\ jobs[j].state = "running"
           /\ jobs'[j].pc = "return"
           /\ jobs'[j].plan = jobs[j].plan /\ jobs'[j].verdict = jobs[j].verdict
           /\ Send(j, "review")
           /\ UNCHANGED <<runStatus, runError, rowVars, creator, api>>
BY AdvanceEffect DEF AskReview

(* What an execution that is over leaves in the row of job r. *)
LEMMA EndedEffect ==
    ASSUME NEW r \in Job, NEW failed \in BOOLEAN
    PROVE  /\ Ended(r, failed).kind = r.kind
           /\ Ended(r, failed).pc = "idle" /\ Ended(r, failed).ctx = "live"
           /\ Ended(r, failed).verdict = "none"
           /\ r.tracked => Ended(r, failed).tracked
           /\ Ended(r, failed).state =
                IF ~failed THEN "completed"
                ELSE IF r.attempt < MaxAttempts THEN "available" ELSE "discarded"
BY DEF Ended, NewJob, NoJob, Job

LEMMA ReturnEffect ==
    ASSUME TypeOK, ExecutionSound, NEW j \in JobIds, Return(j)
    PROVE  /\ Others(j)
           /\ jobs[j].pc = "return" /\ jobs[j].state = "running"
           /\ jobs'[j].kind = jobs[j].kind
           /\ jobs'[j].pc = "idle" /\ jobs'[j].ctx = "live" /\ jobs'[j].verdict = "none"
           /\ jobs[j].tracked => jobs'[j].tracked
           /\ jobs'[j].state =
                IF jobs[j].plan.mark # "failed" THEN "completed"
                ELSE IF jobs[j].attempt < MaxAttempts THEN "available" ELSE "discarded"
           /\ UNCHANGED <<runVars, rowVars, creator, api, budget>>
<1>1. jobs[j].pc = "return" /\ UNCHANGED <<runVars, rowVars, creator, api, budget>>
      /\ jobs' = [jobs EXCEPT ![j] = Ended(@, @.plan.mark = "failed")]
  BY DEF Return
<1>2. jobs[j].state = "running"
  BY <1>1 DEF ExecutionSound
<1>3. jobs'[j] = Ended(jobs[j], jobs[j].plan.mark = "failed") /\ Others(j)
  BY <1>1 DEF TypeOK, Others
<1> DEFINE fails == jobs[j].plan.mark = "failed"
           e == Ended(jobs[j], fails)
<1>4. /\ e.kind = jobs[j].kind
      /\ e.pc = "idle" /\ e.ctx = "live" /\ e.verdict = "none"
      /\ jobs[j].tracked => e.tracked
      /\ e.state = IF ~fails THEN "completed"
                   ELSE IF jobs[j].attempt < MaxAttempts THEN "available" ELSE "discarded"
  <2>1. jobs[j] \in Job /\ fails \in BOOLEAN
    BY DEF TypeOK
  <2> HIDE DEF fails
  <2>2. QED
    BY <2>1, EndedEffect
<1>5. jobs'[j] = e
  BY <1>3
<1> HIDE DEF e
<1>6. QED
  BY <1>1, <1>2, <1>3, <1>4, <1>5

LEMMA RescueEffect ==
    ASSUME TypeOK, ExecutionSound, NEW j \in JobIds, Rescue(j)
    PROVE  /\ Others(j)
           /\ jobs[j].pc = "lost" /\ jobs[j].state = "running"
           /\ jobs'[j].kind = jobs[j].kind
           /\ jobs'[j].pc = "idle" /\ jobs'[j].ctx = "live" /\ jobs'[j].verdict = "none"
           /\ jobs[j].tracked => jobs'[j].tracked
           /\ jobs'[j].state =
                IF jobs[j].attempt < MaxAttempts THEN "available" ELSE "discarded"
           /\ UNCHANGED <<runVars, rowVars, creator, api, budget>>
<1>1. jobs[j].pc = "lost" /\ UNCHANGED <<runVars, rowVars, creator, api, budget>>
      /\ jobs' = [jobs EXCEPT ![j] = Ended(@, TRUE)]
  BY DEF Rescue
<1>2. jobs[j].state = "running"
  BY <1>1 DEF ExecutionSound
<1>3. jobs'[j] = Ended(jobs[j], TRUE) /\ Others(j)
  BY <1>1 DEF TypeOK, Others
<1> DEFINE e == Ended(jobs[j], TRUE)
<1>4. /\ e.kind = jobs[j].kind
      /\ e.pc = "idle" /\ e.ctx = "live" /\ e.verdict = "none"
      /\ jobs[j].tracked => e.tracked
      /\ e.state = IF jobs[j].attempt < MaxAttempts THEN "available" ELSE "discarded"
  <2>1. jobs[j] \in Job
    BY DEF TypeOK
  <2>2. QED
    BY <2>1, EndedEffect
<1>5. jobs'[j] = e
  BY <1>3
<1> HIDE DEF e
<1>6. QED
  BY <1>1, <1>2, <1>3, <1>4, <1>5

LEMMA TimeoutEffect ==
    ASSUME TypeOK, ExecutionSound, NEW j \in JobIds, Timeout(j)
    PROVE  /\ Others(j) /\ Fault
           /\ jobs[j].pc \in Working \ {"return"} /\ jobs[j].state = "running"
           /\ jobs'[j].state = "running" /\ jobs'[j].kind = jobs[j].kind
           /\ jobs'[j].pc = jobs[j].pc /\ jobs'[j].plan = jobs[j].plan
           /\ jobs'[j].verdict = jobs[j].verdict
           /\ UNCHANGED <<runVars, rowVars, creator, api>>
<1>1. jobs[j].state = "running"
  BY DEF ExecutionSound, Timeout, Working
<1>2. QED
  BY <1>1 DEF Timeout, TypeOK, Job, Others

LEMMA CrashEffect ==
    ASSUME TypeOK, ExecutionSound, NEW j \in JobIds, Crash(j)
    PROVE  /\ Others(j) /\ Stays(j)
           /\ \/ jobs[j].pc \in Working /\ jobs[j].state = "running"
              \/ jobs[j].state = "available"
           /\ jobs'[j].pc = "lost" /\ jobs'[j].plan = jobs[j].plan
           /\ jobs'[j].verdict = jobs[j].verdict
           /\ budget'.crashes = budget.crashes + 1 /\ budget'.faults = budget.faults
           /\ UNCHANGED <<runVars, rowVars, creator, api>>
<1>1. /\ budget'.crashes = budget.crashes + 1 /\ budget'.faults = budget.faults
      /\ UNCHANGED <<runVars, rowVars, creator, api>>
  BY DEF Crash, TypeOK, Budget
<1>2. CASE jobs[j].pc \in Working /\ AdvanceTo(j, "lost")
  BY <1>1, <1>2, AdvanceEffect DEF Working
<1>3. CASE /\ jobs[j].state = "available"
           /\ jobs' = [jobs EXCEPT ![j].state = "running", ![j].pc = "lost",
                                   ![j].attempt = @ + 1]
  BY <1>1, <1>3 DEF TypeOK, Job, Others, Stays
<1>4. QED
  BY <1>2, <1>3 DEF Crash

LEMMA SpawnEffect ==
    ASSUME TypeOK, ExecutionSound, NEW j \in JobIds, NEW t, NEW n \in JobIds, Spawn(j, t, n)
    PROVE  /\ n # j /\ Stays(j)
           /\ \A i \in JobIds : i # j /\ i # n => jobs'[i] = jobs[i]
           /\ jobs[j].pc = "body" /\ jobs[j].state = "running"
           /\ t \in Spawns[jobs[j].kind] /\ t \in Tasks
           /\ jobs'[j].pc = "body" /\ jobs'[j].plan = jobs[j].plan
           /\ jobs'[j].verdict = jobs[j].verdict
           /\ jobs[n].state = "none"
           /\ Inserted(jobs'[n], t)
           /\ \/ jobs'[n].tracked /\ UNCHANGED budget
              \/ Fault
           /\ UNCHANGED <<runVars, rowVars, creator, api>>
<1>1. /\ jobs[j].pc = "body" /\ jobs[n].state = "none" /\ t \in Spawns[jobs[j].kind]
      /\ UNCHANGED <<runVars, rowVars, creator, api>>
  BY DEF Spawn, IsNextId
<1>2. jobs[j].state = "running" /\ t \in Tasks /\ n # j
  BY <1>1, EngineAssumption DEF ExecutionSound, TypeOK, Job
<1>3. PICK tracked \in BOOLEAN :
         /\ jobs' = [jobs EXCEPT ![n] = NewJob(t, tracked), ![j].spawned = @ + 1]
         /\ IF tracked THEN UNCHANGED budget ELSE Fault
  BY DEF Spawn
<1>4. jobs'[n] = NewJob(t, tracked)
  BY <1>2, <1>3 DEF TypeOK
<1>5. Inserted(jobs'[n], t) /\ jobs'[n].tracked = tracked
  BY <1>2, <1>4, NewJobInserted
<1>6. QED
  BY <1>1, <1>2, <1>3, <1>5 DEF Stays, TypeOK, Job

LEMMA EnqueueEffect ==
    ASSUME TypeOK, RunCreatedFirst, NEW n \in JobIds, EnqueueEntry(n)
    PROVE  /\ \A i \in JobIds : jobs[i].state = "none"
           /\ Others(n) /\ Inserted(jobs'[n], Entry) /\ jobs'[n].tracked
           /\ Rows = Tasks
           /\ creator' = "finished"
           /\ UNCHANGED <<runVars, rowVars, api, budget>>
<1>1. jobs'[n] = NewJob(Entry, TRUE) /\ Others(n)
  BY DEF EnqueueEntry, TypeOK, Others
<1>2. Inserted(jobs'[n], Entry) /\ jobs'[n].tracked
  BY <1>1, NewJobInserted, EngineAssumption
<1>3. QED
  BY <1>1, <1>2 DEF EnqueueEntry, RunCreatedFirst

(* A step of the check, or the request for a review. *)
Reports(j) == \/ CheckRead(j) \/ CheckWriteStatus(j) \/ CheckWriteError(j)
              \/ CheckNotify(j) \/ AskReview(j)

ReportPlaces == {"check", "status", "error", "notify", "review"}

LEMMA ReportEffect ==
    ASSUME TypeOK, ExecutionSound, NEW j \in JobIds, Reports(j)
    PROVE  /\ Others(j) /\ Stays(j)
           /\ jobs[j].pc \in ReportPlaces /\ jobs[j].state = "running"
           /\ jobs'[j].pc \in (ReportPlaces \ {"check"}) \cup {"return"}
           /\ jobs'[j].plan = jobs[j].plan
           /\ Succeeds(j) \/ Errs(j)
           /\ UNCHANGED <<rowVars, creator, api>>
<1>1. AfterCheck(jobs[j].plan) \in {"review", "return"}
  BY DEF AfterCheck
<1>2. CASE CheckRead(j)
  BY <1>1, <1>2, CheckReadEffect DEF ReportPlaces
<1>3. CASE CheckWriteStatus(j)
  BY <1>3, StatusEffect DEF ReportPlaces
<1>4. CASE CheckWriteError(j)
  BY <1>4, ErrorEffect DEF ReportPlaces
<1>5. CASE CheckNotify(j)
  BY <1>1, <1>5, NotifyEffect DEF ReportPlaces, Send
<1>6. CASE AskReview(j)
  BY <1>6, ReviewEffect DEF ReportPlaces, Send
<1>7. QED
  BY <1>2, <1>3, <1>4, <1>5, <1>6 DEF Reports

(* A step that leaves every job alone: the creation of the run's rows, a   *)
(* statement of the work, a user.                                          *)
LeavesJobs ==
    \/ CreateRun \/ (\E t \in Tasks : CreateTask(t)) \/ CreateAborts
    \/ (\E j \in JobIds : WorkStatement(j))
    \/ Retry \/ Rest

LEMMA LeavesJobsEffect ==
    ASSUME LeavesJobs
    PROVE  UNCHANGED jobs
BY DEF LeavesJobs, CreateRun, CreateTask, CreateAborts, WorkStatement, Retry, RetryRead,
   RetryResetTask, RetrySetRunning, Rest, vars

(* The steps, by what they do to the jobs. *)
LEMMA StepCases ==
    ASSUME Next
    PROVE  \/ LeavesJobs
           \/ \E n \in JobIds : EnqueueEntry(n)
           \/ \E j \in JobIds :
                 \/ StartTask(j)
                 \/ \E t \in Spawns[jobs[j].kind], n \in JobIds : Spawn(j, t, n)
                 \/ \E p \in Plans[jobs[j].kind] : MarkTask(j, p)
                 \/ \E n \in JobIds : ChainInsert(j, n)
                 \/ ChainLost(j) \/ Reports(j) \/ Return(j)
                 \/ Timeout(j) \/ Crash(j) \/ Rescue(j)
BY DEF Next, Create, Work, LeavesJobs, Reports

(* Bounds that are used up stay used up. *)
LEMMA BudgetGrows ==
    ASSUME TypeOK, Next
    PROVE  /\ budget'.faults \in Nat /\ budget'.crashes \in Nat /\ budget'.retries \in Nat
           /\ budget.faults <= budget'.faults
           /\ budget.crashes <= budget'.crashes
           /\ budget.retries <= budget'.retries
           /\ budget'.faults = 0 => ~Fault
<1>0. /\ budget.faults \in Nat /\ budget.crashes \in Nat /\ budget.retries \in Nat
      /\ DOMAIN budget = {"crashes", "faults", "retries"}
  BY EngineAssumption DEF TypeOK, Budget
<1>1. Fault => /\ budget'.faults = budget.faults + 1
               /\ budget'.crashes = budget.crashes /\ budget'.retries = budget.retries
  BY <1>0 DEF Fault, TypeOK, Budget
<1>2. \/ UNCHANGED budget \/ Fault
      \/ /\ budget'.crashes = budget.crashes + 1
         /\ budget'.faults = budget.faults /\ budget'.retries = budget.retries
      \/ /\ budget'.retries = budget.retries + 1
         /\ budget'.faults = budget.faults /\ budget'.crashes = budget.crashes
  <2>1. ASSUME NEW j \in JobIds, NEW s, SetTask(j, s) PROVE UNCHANGED budget \/ Fault
    BY <2>1 DEF SetTask, Succeeds, Errs
  <2>2. ASSUME NEW j \in JobIds, Reports(j) \/ ChainLost(j) \/ WorkStatement(j)
        PROVE  UNCHANGED budget \/ Fault
    BY <2>2 DEF Reports, ChainLost, WorkStatement, CheckRead, CheckWriteStatus,
       CheckWriteError, CheckNotify, AskReview, Send, Succeeds, Errs
  <2>3. ASSUME NEW j \in JobIds, StartTask(j) \/ \E p : MarkTask(j, p)
        PROVE  UNCHANGED budget \/ Fault
    BY <2>1, <2>3 DEF StartTask, MarkTask
  <2>4. ASSUME NEW j \in JobIds, NEW n \in JobIds, ChainInsert(j, n) \/ \E t : Spawn(j, t, n)
        PROVE  UNCHANGED budget \/ Fault
    BY <2>4 DEF ChainInsert, Spawn
  <2>5. ASSUME NEW j \in JobIds, Return(j) \/ Rescue(j) \/ Timeout(j)
        PROVE  UNCHANGED budget \/ Fault
    BY <2>5 DEF Return, Rescue, Timeout
  <2>6. ASSUME NEW j \in JobIds, Crash(j)
        PROVE  /\ budget'.crashes = budget.crashes + 1
               /\ budget'.faults = budget.faults /\ budget'.retries = budget.retries
    BY <2>6 DEF Crash, TypeOK, Budget
  <2>7. CASE Create \/ CreateAborts \/ Rest
    BY <2>7 DEF Create, CreateRun, CreateTask, EnqueueEntry, CreateAborts, Rest, vars
  <2>8. CASE RetryRead
    BY <2>8 DEF RetryRead, TypeOK, Budget
  <2>9. CASE (\E t \in Tasks : RetryResetTask(t)) \/ RetrySetRunning
    BY <2>9 DEF RetryResetTask, RetrySetRunning
  <2>10. QED
    BY <2>2, <2>3, <2>4, <2>5, <2>6, <2>7, <2>8, <2>9 DEF Next, Work, Retry, Reports
<1>3. QED
  BY <1>0, <1>1, <1>2

-----------------------------------------------------------------------------
(* Pipelines with one chain. *)

(* A plan of worker t that chains: the next task of the chain follows at   *)
(* once, the task is completed, and nothing else is left to do.            *)
Links(Main, t, p) ==
    /\ t \in Main /\ Head(p.chain) \in Main
    /\ p.mark = "completed" /\ ~p.check /\ ~p.review /\ Tail(p.chain) = <<>>
    /\ SortOrder[t] < SortOrder[Head(p.chain)]
    /\ \A u \in Main : SortOrder[u] < SortOrder[Head(p.chain)]
                           => SortOrder[u] <= SortOrder[t]

(* The tasks of Main are a chain that begins with the run's entry; jobs    *)
(* that are inserted in the middle of the work are not of the chain.       *)
IsChain(Main) ==
    /\ Main \subseteq Tasks /\ Entry \in Main
    /\ \A t, u \in Main : SortOrder[t] = SortOrder[u] => t = u
    /\ \A t \in Main : SortOrder[Entry] <= SortOrder[t]
    /\ \A t \in Tasks : Spawns[t] \cap Main = {}
    /\ \A t \in Tasks, p \in Plan :
          p \in Plans[t] /\ p.chain # <<>> => Links(Main, t, p)

(* Where an execution is when it has marked its task and inserted what     *)
(* comes next.                                                             *)
Past == ReportPlaces \cup {"return"}

Exists(r) == r.state # "none"

(* The job's work is done, whatever of its reports is still to come.       *)
Done(r) == r.state = "completed" \/ (r.pc \in Past /\ r.plan.mark = "completed")

(* An execution carries a plan of its worker, or what is left of it. *)
PlanHeld(r) ==
    /\ r.pc = "chain" => r.plan \in Plans[r.kind] /\ r.plan.chain # <<>>
    /\ r.pc \in Past =>
          /\ r.plan.chain = <<>>
          /\ \E p \in Plans[r.kind] :
                /\ p.mark = r.plan.mark
                /\ IF p.chain # <<>> THEN r.pc = "return" ELSE r.plan = p

PlansHeld == \A j \in JobIds : PlanHeld(jobs[j])

(* Without a fault every job knows its task and no context has expired. *)
Unhurt == budget.faults = 0 => \A j \in JobIds : jobs[j].ctx = "live" /\ jobs[j].tracked

(* A job of the chain exists only after the tasks before it. *)
EarlierCompleted(Main) ==
    budget.faults = 0 => \A j \in JobIds :
        /\ jobs[j].pc = "chain" => jobs[j].kind \in everCompleted
        /\ Exists(jobs[j]) /\ jobs[j].kind \in Main
              => \A t \in Main : SortOrder[t] < SortOrder[jobs[j].kind]
                                    => t \in everCompleted

(* Without a crash the chain has one job for each of its tasks, and those  *)
(* before the last are done.                                               *)
OneAtATime(Main) ==
    budget.crashes = 0 =>
        /\ \A j \in JobIds : jobs[j].pc # "lost"
        /\ \A i, j \in JobIds :
              /\ Exists(jobs[i]) /\ jobs[i].kind \in Main
              /\ Exists(jobs[j]) /\ jobs[j].kind \in Main
              => /\ jobs[i].kind = jobs[j].kind => i = j
                 /\ SortOrder[jobs[i].kind] < SortOrder[jobs[j].kind] => Done(jobs[i])

(* A task is completed by a job, a run by all its tasks. *)
CompletedByJobs ==
    \A t \in everCompleted : \E j \in JobIds : Exists(jobs[j]) /\ jobs[j].kind = t
CompletionCovered == runStatus = "completed" => everCompleted = Tasks

ChainInv(Main) ==
    /\ PlansHeld /\ Unhurt /\ EarlierCompleted(Main) /\ OneAtATime(Main)
    /\ CompletedByJobs /\ CompletionCovered

-----------------------------------------------------------------------------
(* A row whose execution is not between body and return holds no plan. *)
LEMMA PlansHeldStep ==
    ASSUME NEW Main, IsChain(Main), TypeOK, Consistent, PlansHeld, Next
    PROVE  PlansHeld'
<1> USE DEF Past, ReportPlaces
<1>1. SUFFICES ASSUME NEW i \in JobIds PROVE PlanHeld(jobs'[i])
  BY DEF PlansHeld
<1>2. PlanHeld(jobs[i])
  BY DEF PlansHeld
<1>3. ExecutionSound /\ RunCreatedFirst
  BY DEF Consistent
<1>4. ASSUME jobs'[i].pc \notin {"chain"} \cup Past PROVE PlanHeld(jobs'[i])
  BY <1>4 DEF PlanHeld
<1>5. ASSUME NEW j \in JobIds, Others(j), i # j PROVE PlanHeld(jobs'[i])
  BY <1>2, <1>5 DEF Others
<1>6. CASE LeavesJobs
  BY <1>2, <1>6, LeavesJobsEffect
<1>7. ASSUME NEW n \in JobIds, EnqueueEntry(n) PROVE PlanHeld(jobs'[i])
  BY <1>3, <1>4, <1>5, <1>7, EnqueueEffect DEF Inserted
<1>8. ASSUME NEW j \in JobIds, StartTask(j) PROVE PlanHeld(jobs'[i])
  BY <1>4, <1>5, <1>8, StartEffect
<1>9. ASSUME NEW j \in JobIds, NEW t \in Spawns[jobs[j].kind], NEW n \in JobIds, Spawn(j, t, n)
      PROVE  PlanHeld(jobs'[i])
  <2>1. CASE i \in {j, n}
    BY <1>3, <1>4, <1>9, <2>1, SpawnEffect DEF Inserted
  <2>2. CASE i \notin {j, n}
    BY <1>2, <1>3, <1>9, <2>2, SpawnEffect
  <2>3. QED
    BY <2>1, <2>2
<1>10. ASSUME NEW j \in JobIds, NEW p \in Plans[jobs[j].kind], MarkTask(j, p)
       PROVE  PlanHeld(jobs'[i])
  <2>1. /\ Others(j) /\ jobs'[j].kind = jobs[j].kind
        /\ jobs'[j].pc = AfterMark(p) /\ jobs'[j].plan = p
    BY <1>3, <1>10, MarkEffect DEF Stays
  <2>2. PlanHeld(jobs'[j])
    BY <2>1 DEF PlanHeld, AfterMark, AfterCheck
  <2>3. QED
    BY <1>5, <2>1, <2>2
<1>11. ASSUME NEW j \in JobIds, jobs[j].pc = "chain",
              jobs'[j].kind = jobs[j].kind, jobs'[j].plan = ChainRest(jobs[j].plan),
              jobs'[j].pc = AfterMark(ChainRest(jobs[j].plan))
       PROVE  PlanHeld(jobs'[j])
  <2> DEFINE p == jobs[j].plan
  <2>1. p \in Plan /\ p \in Plans[jobs[j].kind] /\ p.chain # <<>> /\ jobs[j].kind \in Tasks
    BY <1>11 DEF PlansHeld, PlanHeld, TypeOK, Job
  <2>2. Links(Main, jobs[j].kind, p)
    BY <2>1 DEF IsChain
  <2> HIDE DEF p
  <2>3. /\ ChainRest(p).chain = <<>> /\ ChainRest(p).mark = "completed"
        /\ ~ChainRest(p).check /\ ~ChainRest(p).review
    BY <2>1, <2>2 DEF ChainRest, Links, Plan
  <2>4. jobs'[j].pc = "return" /\ jobs'[j].plan = ChainRest(p)
    BY <1>11, <2>3 DEF AfterMark, AfterCheck, p
  <2>5. p.mark = jobs'[j].plan.mark
    BY <2>2, <2>3, <2>4 DEF Links
  <2>6. QED
    BY <1>11, <2>1, <2>3, <2>4, <2>5 DEF PlanHeld
<1>12. ASSUME NEW j \in JobIds, NEW n \in JobIds, ChainInsert(j, n) PROVE PlanHeld(jobs'[i])
  <2>1. CASE i = j
    BY <1>3, <1>11, <1>12, <2>1, ChainInsertEffect DEF Stays
  <2>2. CASE i = n
    BY <1>3, <1>4, <1>12, <2>2, ChainInsertEffect DEF Inserted
  <2>3. CASE i \notin {j, n}
    BY <1>2, <1>3, <1>12, <2>3, ChainInsertEffect
  <2>4. QED
    BY <2>1, <2>2, <2>3
<1>13. ASSUME NEW j \in JobIds, ChainLost(j) PROVE PlanHeld(jobs'[i])
  BY <1>3, <1>5, <1>11, <1>13, ChainLostEffect DEF Stays
<1>14. ASSUME NEW j \in JobIds, Reports(j) PROVE PlanHeld(jobs'[i])
  <2>1. /\ Others(j) /\ jobs'[j].kind = jobs[j].kind
        /\ jobs[j].pc \in ReportPlaces /\ jobs'[j].plan = jobs[j].plan
        /\ jobs'[j].pc \in Past
    BY <1>3, <1>14, ReportEffect DEF Stays
  <2>2. PlanHeld(jobs[j])
    BY DEF PlansHeld
  <2>3. PlanHeld(jobs'[j])
    BY <2>1, <2>2 DEF PlanHeld
  <2>4. QED
    BY <1>5, <2>1, <2>3
<1>15. ASSUME NEW j \in JobIds, Return(j) \/ Rescue(j) PROVE PlanHeld(jobs'[i])
  BY <1>3, <1>4, <1>5, <1>15, ReturnEffect, RescueEffect
<1>16. ASSUME NEW j \in JobIds, Timeout(j) PROVE PlanHeld(jobs'[i])
  BY <1>2, <1>3, <1>5, <1>16, TimeoutEffect DEF PlanHeld
<1>17. ASSUME NEW j \in JobIds, Crash(j) PROVE PlanHeld(jobs'[i])
  BY <1>3, <1>4, <1>5, <1>17, CrashEffect
<1>18. QED
  BY <1>6, <1>7, <1>8, <1>9, <1>10, <1>12, <1>13, <1>14, <1>15, <1>16, <1>17, StepCases

(* Contexts expire, and jobs are inserted without a task, only by a fault. *)
LEMMA UnhurtStep ==
    ASSUME TypeOK, Consistent, Unhurt, Next
    PROVE  Unhurt'
<1>1. SUFFICES ASSUME budget'.faults = 0, NEW i \in JobIds
               PROVE  jobs'[i].ctx = "live" /\ jobs'[i].tracked
  BY DEF Unhurt
<1>2. ~Fault /\ budget.faults = 0
  BY <1>1, BudgetGrows DEF TypeOK, Budget
<1>3. ExecutionSound /\ RunCreatedFirst
  BY DEF Consistent
<1>4. \A j \in JobIds : jobs[j].ctx = "live" /\ jobs[j].tracked
  BY <1>2 DEF Unhurt
<1>5. ASSUME NEW j \in JobIds, Others(j), Stays(j) PROVE jobs'[i].ctx = "live" /\ jobs'[i].tracked
  BY <1>4, <1>5 DEF Others, Stays
<1>6. CASE LeavesJobs
  BY <1>4, <1>6, LeavesJobsEffect
<1>7. ASSUME NEW n \in JobIds, EnqueueEntry(n)
      PROVE  jobs'[i].ctx = "live" /\ jobs'[i].tracked
  BY <1>3, <1>4, <1>7, EnqueueEffect DEF Inserted, Others
<1>8. ASSUME NEW j \in JobIds, NEW t \in Spawns[jobs[j].kind], NEW n \in JobIds, Spawn(j, t, n)
      PROVE  jobs'[i].ctx = "live" /\ jobs'[i].tracked
  BY <1>2, <1>3, <1>4, <1>8, SpawnEffect DEF Inserted, Stays
<1>9. ASSUME NEW j \in JobIds, NEW n \in JobIds, ChainInsert(j, n)
      PROVE  jobs'[i].ctx = "live" /\ jobs'[i].tracked
  BY <1>2, <1>3, <1>4, <1>9, ChainInsertEffect DEF Inserted, Stays
<1>10. ASSUME NEW j \in JobIds,
              \/ StartTask(j) \/ (\E p \in Plans[jobs[j].kind] : MarkTask(j, p))
              \/ ChainLost(j) \/ Reports(j) \/ Crash(j)
       PROVE  jobs'[i].ctx = "live" /\ jobs'[i].tracked
  <2>1. Others(j) /\ Stays(j)
    BY <1>3, <1>10, StartEffect, MarkEffect, ChainLostEffect, ReportEffect, CrashEffect
  <2>2. QED
    BY <1>5, <2>1
<1>11. ASSUME NEW j \in JobIds, Return(j) \/ Rescue(j)
       PROVE  jobs'[i].ctx = "live" /\ jobs'[i].tracked
  <2>1. Others(j) /\ jobs'[j].ctx = "live" /\ (jobs[j].tracked => jobs'[j].tracked)
    BY <1>3, <1>11, ReturnEffect, RescueEffect
  <2>2. QED
    BY <1>4, <2>1 DEF Others
<1>12. ASSUME NEW j \in JobIds, Timeout(j) PROVE FALSE
  BY <1>2, <1>12 DEF Timeout
<1>13. QED
  BY <1>6, <1>7, <1>8, <1>9, <1>10, <1>11, <1>12, StepCases

(* Without a fault every statement succeeds. *)
LEMMA CalmStatements ==
    ASSUME TypeOK, Unhurt, budget'.faults = 0, Next, NEW j \in JobIds
    PROVE  /\ budget.faults = 0 /\ ~Errs(j) /\ ~Fault
           /\ \A s : SetTask(j, s) =>
                 /\ UNCHANGED budget
                 /\ taskStatus' = [taskStatus EXCEPT ![jobs[j].kind] = s]
                 /\ everCompleted' =
                       everCompleted \cup (IF s = "completed" THEN {jobs[j].kind} ELSE {})
<1>1. ~Fault /\ budget.faults = 0
  BY BudgetGrows DEF TypeOK, Budget
<1>2. jobs[j].ctx = "live" /\ jobs[j].tracked
  BY <1>1 DEF Unhurt
<1>3. ~Errs(j)
  BY <1>1, <1>2 DEF Errs
<1>4. QED
  BY <1>1, <1>2, <1>3 DEF SetTask, Succeeds

(* Jobs keep their kind, and none is ever lost. *)
LEMMA KindsKept ==
    ASSUME TypeOK, Consistent, Next, NEW i \in JobIds, Exists(jobs[i])
    PROVE  Exists(jobs'[i]) /\ jobs'[i].kind = jobs[i].kind
<1> USE DEF Exists
<1>3. ExecutionSound /\ RunCreatedFirst
  BY DEF Consistent
<1>5. ASSUME NEW j \in JobIds, Others(j), Exists(jobs'[j]), jobs'[j].kind = jobs[j].kind
      PROVE  Exists(jobs'[i]) /\ jobs'[i].kind = jobs[i].kind
  BY <1>5 DEF Others
<1>6. CASE LeavesJobs
  BY <1>6, LeavesJobsEffect
<1>7. ASSUME NEW n \in JobIds, EnqueueEntry(n) PROVE FALSE
  BY <1>3, <1>7, EnqueueEffect
<1>8. ASSUME NEW j \in JobIds, NEW t \in Spawns[jobs[j].kind], NEW n \in JobIds, Spawn(j, t, n)
      PROVE  Exists(jobs'[i]) /\ jobs'[i].kind = jobs[i].kind
  BY <1>3, <1>8, SpawnEffect DEF Stays
<1>9. ASSUME NEW j \in JobIds, NEW n \in JobIds, ChainInsert(j, n)
      PROVE  Exists(jobs'[i]) /\ jobs'[i].kind = jobs[i].kind
  BY <1>3, <1>9, ChainInsertEffect DEF Stays
<1>10. ASSUME NEW j \in JobIds,
              \/ StartTask(j) \/ (\E p \in Plans[jobs[j].kind] : MarkTask(j, p))
              \/ ChainLost(j) \/ Reports(j) \/ Crash(j)
       PROVE  Exists(jobs'[i]) /\ jobs'[i].kind = jobs[i].kind
  <2>1. Others(j) /\ Stays(j)
    BY <1>3, <1>10, StartEffect, MarkEffect, ChainLostEffect, ReportEffect, CrashEffect
  <2>2. QED
    BY <1>5, <2>1 DEF Stays
<1>11. ASSUME NEW j \in JobIds, Return(j) \/ Rescue(j) \/ Timeout(j)
       PROVE  Exists(jobs'[i]) /\ jobs'[i].kind = jobs[i].kind
  <2>1. Others(j) /\ jobs'[j].kind = jobs[j].kind /\ jobs'[j].state # "none"
    BY <1>3, <1>11, ReturnEffect, RescueEffect, TimeoutEffect
  <2>2. QED
    BY <1>5, <2>1
<1>13. QED
  BY <1>6, <1>7, <1>8, <1>9, <1>10, <1>11, StepCases

(* Only the marks of the workers put a task on record. *)
LEMMA RecordStep ==
    ASSUME TypeOK, Consistent, Next
    PROVE  \/ UNCHANGED everCompleted
           \/ \E j \in JobIds, p \in Plan :
                 /\ MarkTask(j, p) /\ p.mark = "completed"
                 /\ everCompleted' = everCompleted \cup {jobs[j].kind}
<1>1. ASSUME NEW j \in JobIds, NEW s, SetTask(j, s)
      PROVE  \/ UNCHANGED everCompleted
             \/ s = "completed" /\ everCompleted' = everCompleted \cup {jobs[j].kind}
  BY <1>1 DEF SetTask, rowVars
<1>2. CASE LeavesJobs
  BY <1>2 DEF LeavesJobs, CreateRun, CreateTask, CreateAborts, WorkStatement, Retry,
     RetryRead, RetryResetTask, RetrySetRunning, Rest, rowVars, vars
<1>3. ASSUME NEW j \in JobIds, StartTask(j) PROVE UNCHANGED everCompleted
  BY <1>1, <1>3 DEF StartTask
<1>4. ASSUME NEW j \in JobIds, NEW p \in Plans[jobs[j].kind], MarkTask(j, p)
      PROVE  p \in Plan /\ (\/ UNCHANGED everCompleted
                            \/ /\ p.mark = "completed"
                               /\ everCompleted' = everCompleted \cup {jobs[j].kind})
  <2>1. SetTask(j, p.mark) /\ p \in Plan
    BY <1>4, MarkEffect DEF Consistent
  <2>2. QED
    BY <1>1, <2>1
<1>5. ASSUME NEW n \in JobIds, EnqueueEntry(n) PROVE UNCHANGED everCompleted
  BY <1>5 DEF EnqueueEntry, rowVars
<1>6. ASSUME NEW j \in JobIds,
             \/ \E t \in Spawns[jobs[j].kind], n \in JobIds : Spawn(j, t, n)
             \/ \E n \in JobIds : ChainInsert(j, n)
             \/ ChainLost(j) \/ Reports(j) \/ Return(j)
             \/ Timeout(j) \/ Crash(j) \/ Rescue(j)
      PROVE  UNCHANGED everCompleted
  BY <1>6 DEF Spawn, ChainInsert, ChainLost, Reports, CheckRead, CheckWriteStatus,
     CheckWriteError, CheckNotify, AskReview, Return, Timeout, Crash, Rescue, rowVars
<1>7. QED
  BY <1>2, <1>3, <1>4, <1>5, <1>6, StepCases

LEMMA CompletedByJobsStep ==
    ASSUME TypeOK, Consistent, CompletedByJobs, Next
    PROVE  CompletedByJobs'
<1>1. SUFFICES ASSUME NEW t \in everCompleted'
               PROVE  \E i \in JobIds : Exists(jobs[i]) /\ jobs[i].kind = t
  BY KindsKept DEF CompletedByJobs
<1>2. CASE t \in everCompleted
  BY <1>2 DEF CompletedByJobs
<1>3. CASE t \notin everCompleted
  <2>1. PICK j \in JobIds, p \in Plan :
           MarkTask(j, p) /\ everCompleted' = everCompleted \cup {jobs[j].kind}
    BY <1>3, RecordStep
  <2>2. jobs[j].state = "running" /\ jobs[j].kind = t
    BY <1>3, <2>1 DEF MarkTask, Consistent, ExecutionSound
  <2>3. QED
    BY <2>2 DEF Exists
<1>4. QED
  BY <1>2, <1>3

(* A run that is said to be completed has all its tasks on record. *)
LEMMA CompletionCoveredStep ==
    ASSUME TypeOK, Consistent, CompletionCovered, Next
    PROVE  CompletionCovered'
<1>1. SUFFICES ASSUME runStatus' = "completed" PROVE everCompleted' = Tasks
  BY DEF CompletionCovered
<1>2. everCompleted \subseteq everCompleted' /\ everCompleted' \subseteq Tasks
  <2>1. everCompleted' \subseteq Tasks
    BY TypeStep DEF Consistent, TypeOK
  <2>2. QED
    BY <2>1, HistoryGrows
<1>3. everCompleted = Tasks
  <2>1. CASE \E j \in JobIds : CheckWriteStatus(j)
    BY <1>1, <2>1 DEF CheckWriteStatus, Consistent, VerdictGiven, CompletionCovered
  <2>2. CASE runStatus = "completed"
    BY <2>2 DEF CompletionCovered
  <2>3. CASE ~(\E j \in JobIds : CheckWriteStatus(j)) /\ runStatus # "completed"
    BY <1>1, <2>3, ZenonT(40) DEF Next, Create, CreateRun, CreateTask, EnqueueEntry, CreateAborts,
       Work, StartTask, Spawn, WorkStatement, MarkTask, ChainInsert, ChainLost, CheckRead,
       CheckWriteError, CheckNotify, AskReview, Return, Timeout, Crash, Rescue,
       Retry, RetryRead, RetryResetTask, RetrySetRunning, Rest, runVars, vars
  <2>4. QED
    BY <2>1, <2>2, <2>3
<1>4. QED
  BY <1>2, <1>3

(* What ChainInsert inserts comes next in the chain. *)
LEMMA NextOfChain ==
    ASSUME NEW Main, IsChain(Main), TypeOK, PlansHeld, NEW j \in JobIds,
           jobs[j].pc = "chain"
    PROVE  Links(Main, jobs[j].kind, jobs[j].plan)
BY DEF PlansHeld, PlanHeld, IsChain, TypeOK, Job

(* Leaving the chain, an execution is about to return, its work done. *)
LEMMA ChainLeft ==
    ASSUME NEW Main, IsChain(Main), TypeOK, PlansHeld, NEW j \in JobIds,
           jobs[j].pc = "chain"
    PROVE  /\ AfterMark(ChainRest(jobs[j].plan)) = "return"
           /\ ChainRest(jobs[j].plan).mark = "completed"
<1>1. Links(Main, jobs[j].kind, jobs[j].plan)
  BY NextOfChain
<1>2. jobs[j].plan \in Plan
  BY DEF TypeOK, Job
<1>3. QED
  BY <1>1, <1>2 DEF Links, ChainRest, AfterMark, AfterCheck, Plan

LEMMA EarlierCompletedStep ==
    ASSUME NEW Main, IsChain(Main), TypeOK, Consistent, PlansHeld, Unhurt,
           EarlierCompleted(Main), Next
    PROVE  EarlierCompleted(Main)'
<1> DEFINE Held(r, done) ==
       /\ r.pc = "chain" => r.kind \in done
       /\ Exists(r) /\ r.kind \in Main
             => \A t \in Main : SortOrder[t] < SortOrder[r.kind] => t \in done
<1>1. SUFFICES ASSUME budget'.faults = 0, NEW i \in JobIds PROVE Held(jobs'[i], everCompleted')
  BY DEF EarlierCompleted
<1>2. ~Fault /\ budget.faults = 0
  BY <1>1, BudgetGrows DEF TypeOK, Budget
<1>3. ExecutionSound /\ RunCreatedFirst
  BY DEF Consistent
<1>4. \A j \in JobIds : Held(jobs[j], everCompleted')
  BY <1>2, HistoryGrows DEF EarlierCompleted
<1>5. SortOrder \in [Tasks -> Nat] /\ Main \subseteq Tasks
  BY EngineAssumption DEF IsChain
<1> HIDE DEF Held
<1>6. ASSUME NEW j \in JobIds, Others(j), jobs'[j].kind = jobs[j].kind,
             Exists(jobs[j]), jobs'[j].pc # "chain"
      PROVE  Held(jobs'[i], everCompleted')
  <2>1. CASE i = j
    BY <1>4, <1>6, <2>1 DEF Held
  <2>2. CASE i # j
    BY <1>4, <1>6, <2>2 DEF Others
  <2>3. QED
    BY <2>1, <2>2
<1>7. CASE LeavesJobs
  BY <1>4, <1>7, LeavesJobsEffect
<1>8. ASSUME NEW n \in JobIds, EnqueueEntry(n) PROVE Held(jobs'[i], everCompleted')
  <2>1. Others(n) /\ Inserted(jobs'[n], Entry)
    BY <1>3, <1>8, EnqueueEffect
  <2>2. Held(jobs'[n], everCompleted')
    BY <1>5, <2>1 DEF Held, Inserted, IsChain
  <2>3. QED
    BY <1>4, <2>1, <2>2 DEF Others
<1>9. ASSUME NEW j \in JobIds, NEW t \in Spawns[jobs[j].kind], NEW n \in JobIds, Spawn(j, t, n)
      PROVE  Held(jobs'[i], everCompleted')
  <2>1. /\ \A k \in JobIds : k # j /\ k # n => jobs'[k] = jobs[k]
        /\ Stays(j) /\ jobs[j].state = "running" /\ jobs'[j].pc = "body"
        /\ Inserted(jobs'[n], t)
    BY <1>3, <1>9, SpawnEffect
  <2>2. t \notin Main
    BY DEF IsChain, TypeOK, Job
  <2>3. CASE i = n
    BY <2>1, <2>2, <2>3 DEF Held, Inserted
  <2>4. CASE i = j
    BY <1>4, <2>1, <2>4 DEF Held, Stays, Exists
  <2>5. QED
    BY <1>4, <2>1, <2>3, <2>4
<1>10. ASSUME NEW j \in JobIds, NEW p \in Plans[jobs[j].kind], MarkTask(j, p)
       PROVE  Held(jobs'[i], everCompleted')
  <2>1. /\ Others(j) /\ Stays(j) /\ jobs[j].state = "running"
        /\ jobs'[j].pc = AfterMark(p) /\ p \in Plan /\ SetTask(j, p.mark)
    BY <1>3, <1>10, MarkEffect
  <2>2. everCompleted' = everCompleted \cup (IF p.mark = "completed" THEN {jobs[j].kind} ELSE {})
    BY <1>1, <2>1, CalmStatements
  <2>3. jobs'[j].pc = "chain" => jobs[j].kind \in everCompleted'
    <3>1. jobs[j].kind \in Tasks
      BY DEF TypeOK, Job
    <3>2. jobs'[j].pc = "chain" => p.chain # <<>>
      BY <2>1 DEF AfterMark, AfterCheck
    <3>3. jobs'[j].pc = "chain" => p.mark = "completed"
      BY <1>10, <2>1, <3>1, <3>2 DEF IsChain, Links
    <3>4. QED
      BY <2>2, <3>3
  <2>4. Held(jobs[j], everCompleted') /\ Exists(jobs[j])
    BY <1>4, <2>1 DEF Exists
  <2>5. Held(jobs'[j], everCompleted')
    BY <2>1, <2>3, <2>4 DEF Held, Stays
  <2>6. QED
    BY <1>4, <2>1, <2>5 DEF Others
<1>11. ASSUME NEW j \in JobIds, NEW n \in JobIds, ChainInsert(j, n)
       PROVE  Held(jobs'[i], everCompleted')
  <2> DEFINE h == Head(jobs[j].plan.chain)
  <2>1. /\ \A k \in JobIds : k # j /\ k # n => jobs'[k] = jobs[k]
        /\ Stays(j) /\ jobs[j].state = "running" /\ jobs[j].pc = "chain"
        /\ jobs'[j].pc = AfterMark(ChainRest(jobs[j].plan))
        /\ Inserted(jobs'[n], h)
    BY <1>3, <1>11, ChainInsertEffect
  <2>2. /\ jobs[j].kind \in Main /\ h \in Main
        /\ SortOrder[jobs[j].kind] < SortOrder[h]
        /\ \A u \in Main : SortOrder[u] < SortOrder[h] => SortOrder[u] <= SortOrder[jobs[j].kind]
    BY <2>1, NextOfChain DEF Links
  <2> HIDE DEF h
  <2>3. jobs[j].kind \in everCompleted'
    BY <1>4, <2>1 DEF Held
  <2>4. ASSUME NEW u \in Main, SortOrder[u] < SortOrder[h] PROVE u \in everCompleted'
    <3>1. SortOrder[u] <= SortOrder[jobs[j].kind]
      BY <2>2, <2>4
    <3>2. CASE SortOrder[u] < SortOrder[jobs[j].kind]
      BY <1>4, <2>1, <2>2, <3>2 DEF Held, Exists
    <3>3. CASE SortOrder[u] = SortOrder[jobs[j].kind]
      BY <2>2, <2>3, <3>3 DEF IsChain
    <3>4. QED
      BY <1>5, <2>2, <3>1, <3>2, <3>3
  <2>5. CASE i = n
    BY <2>1, <2>4, <2>5 DEF Held, Inserted
  <2>6. CASE i = j
    BY <1>4, <2>1, <2>6, ChainLeft DEF Held, Stays, Exists
  <2>7. QED
    BY <1>4, <2>1, <2>5, <2>6
<1>12. ASSUME NEW j \in JobIds, ChainLost(j) PROVE FALSE
  BY <1>1, <1>12, CalmStatements DEF ChainLost
<1>13. ASSUME NEW j \in JobIds,
              \/ StartTask(j) \/ Reports(j) \/ Return(j) \/ Crash(j) \/ Rescue(j)
       PROVE  Held(jobs'[i], everCompleted')
  <2>1. Others(j) /\ jobs'[j].kind = jobs[j].kind /\ jobs[j].state # "none"
        /\ jobs'[j].pc \in {"body", "idle", "lost", "return"} \cup ReportPlaces
    BY <1>3, <1>13, StartEffect, ReportEffect, ReturnEffect, CrashEffect, RescueEffect DEF Stays
  <2>2. QED
    BY <1>6, <2>1 DEF Exists, ReportPlaces
<1>14. ASSUME NEW j \in JobIds, Timeout(j) PROVE FALSE
  BY <1>2, <1>14 DEF Timeout
<1>15. QED
  BY <1>7, <1>8, <1>9, <1>10, <1>11, <1>12, <1>13, <1>14, StepCases

(* Work that is done stays done, unless its execution crashes. *)
LEMMA DoneStays ==
    ASSUME TypeOK, Consistent, Next, NEW i \in JobIds, Done(jobs[i]), ~Crash(i)
    PROVE  Done(jobs'[i])
<1> USE DEF Past, ReportPlaces
<1>3. ExecutionSound /\ RunCreatedFirst
  BY DEF Consistent
<1>4. /\ jobs[i].state \in {"completed", "running"}
      /\ jobs[i].state = "completed" => jobs[i].pc = "idle"
  BY <1>3 DEF Done, ExecutionSound
<1>5. CASE LeavesJobs
  BY <1>5, LeavesJobsEffect
<1>6. ASSUME NEW n \in JobIds, EnqueueEntry(n) PROVE FALSE
  BY <1>3, <1>4, <1>6, EnqueueEffect
<1>7. ASSUME NEW j \in JobIds, NEW t \in Spawns[jobs[j].kind], NEW n \in JobIds, Spawn(j, t, n)
      PROVE  Done(jobs'[i])
  BY <1>3, <1>4, <1>7, SpawnEffect DEF Done
<1>8. ASSUME NEW j \in JobIds, NEW n \in JobIds, ChainInsert(j, n) PROVE Done(jobs'[i])
  BY <1>3, <1>4, <1>8, ChainInsertEffect DEF Done
<1>9. ASSUME NEW j \in JobIds,
             \/ StartTask(j) \/ (\E p \in Plans[jobs[j].kind] : MarkTask(j, p))
             \/ ChainLost(j) \/ Crash(j) \/ Rescue(j)
      PROVE  Done(jobs'[i])
  <2>1. Others(j) /\ ~(jobs[j].pc \in Past /\ jobs[j].plan.mark = "completed" /\ ~Crash(j))
        /\ jobs[j].state \in {"available", "running"}
    BY <1>3, <1>9, StartEffect, MarkEffect, ChainLostEffect, CrashEffect, RescueEffect
       DEF ExecutionSound
  <2>2. i # j
    BY <2>1 DEF Done
  <2>3. QED
    BY <2>1, <2>2 DEF Others
<1>10. ASSUME NEW j \in JobIds, Reports(j) PROVE Done(jobs'[i])
  <2>1. /\ Others(j) /\ jobs[j].pc \in Past /\ jobs'[j].pc \in Past
        /\ jobs'[j].plan = jobs[j].plan
    BY <1>3, <1>10, ReportEffect
  <2>2. QED
    BY <1>4, <2>1 DEF Others, Done
<1>11. ASSUME NEW j \in JobIds, Return(j) PROVE Done(jobs'[i])
  <2>1. /\ Others(j) /\ jobs[j].pc = "return"
        /\ jobs[j].plan.mark # "failed" => jobs'[j].state = "completed"
    BY <1>3, <1>11, ReturnEffect
  <2>2. QED
    BY <1>4, <2>1 DEF Others, Done
<1>12. ASSUME NEW j \in JobIds, Timeout(j) PROVE Done(jobs'[i])
  <2>1. /\ Others(j) /\ jobs'[j].pc = jobs[j].pc /\ jobs'[j].plan = jobs[j].plan
        /\ jobs[j].state = "running"
    BY <1>3, <1>12, TimeoutEffect
  <2>2. QED
    BY <1>4, <2>1 DEF Others, Done
<1>13. QED
  BY <1>5, <1>6, <1>7, <1>8, <1>9, <1>10, <1>11, <1>12, StepCases

(* Where new jobs come from. *)
LEMMA Insertions ==
    ASSUME TypeOK, Consistent, Next, NEW i \in JobIds, ~Exists(jobs[i]), Exists(jobs'[i])
    PROVE  \/ EnqueueEntry(i)
           \/ \E j \in JobIds : ChainInsert(j, i)
           \/ \E j \in JobIds : \E t \in Spawns[jobs[j].kind] : Spawn(j, t, i)
<1> USE DEF Exists
<1>1. ExecutionSound /\ RunCreatedFirst
  BY DEF Consistent
<1>2. CASE LeavesJobs
  BY <1>2, LeavesJobsEffect
<1>3. ASSUME NEW n \in JobIds, EnqueueEntry(n) PROVE i = n
  BY <1>1, <1>3, EnqueueEffect DEF Others
<1>4. ASSUME NEW j \in JobIds, NEW n \in JobIds, ChainInsert(j, n) PROVE i = n
  BY <1>1, <1>4, ChainInsertEffect
<1>5. ASSUME NEW j \in JobIds, NEW t \in Spawns[jobs[j].kind], NEW n \in JobIds, Spawn(j, t, n)
      PROVE  i = n
  BY <1>1, <1>5, SpawnEffect
<1>6. ASSUME NEW j \in JobIds,
             \/ StartTask(j) \/ (\E p \in Plans[jobs[j].kind] : MarkTask(j, p))
             \/ ChainLost(j) \/ Reports(j) \/ Return(j)
             \/ Timeout(j) \/ Crash(j) \/ Rescue(j)
      PROVE  FALSE
  <2>1. Others(j) /\ Exists(jobs[j])
    BY <1>1, <1>6, StartEffect, MarkEffect, ChainLostEffect, ReportEffect, ReturnEffect,
       TimeoutEffect, CrashEffect, RescueEffect
  <2>2. QED
    BY <2>1 DEF Others
<1>7. QED
  BY <1>2, <1>3, <1>4, <1>5, <1>6, StepCases

(* Without a crash no execution is lost. *)
LEMMA NoneLost ==
    ASSUME TypeOK, Consistent, Next, NEW i \in JobIds, jobs[i].pc # "lost", ~Crash(i)
    PROVE  jobs'[i].pc # "lost"
<1>1. ExecutionSound /\ RunCreatedFirst
  BY DEF Consistent
<1>2. CASE LeavesJobs
  BY <1>2, LeavesJobsEffect
<1>3. ASSUME NEW n \in JobIds, EnqueueEntry(n) PROVE jobs'[i].pc # "lost"
  BY <1>1, <1>3, EnqueueEffect DEF Others, Inserted
<1>4. ASSUME NEW j \in JobIds, jobs[j].plan \in Plan
      PROVE  AfterMark(jobs[j].plan) # "lost"
  BY DEF AfterMark, AfterCheck
<1>5. ASSUME NEW j \in JobIds, NEW n \in JobIds, ChainInsert(j, n)
      PROVE  jobs'[i].pc # "lost"
  BY <1>1, <1>5, ChainInsertEffect DEF AfterMark, AfterCheck, Inserted
<1>6. ASSUME NEW j \in JobIds, NEW t \in Spawns[jobs[j].kind], NEW n \in JobIds, Spawn(j, t, n)
      PROVE  jobs'[i].pc # "lost"
  BY <1>1, <1>6, SpawnEffect DEF Inserted
<1>7. ASSUME NEW j \in JobIds, NEW p \in Plans[jobs[j].kind], MarkTask(j, p)
      PROVE  jobs'[i].pc # "lost"
  BY <1>1, <1>7, MarkEffect DEF Others, AfterMark, AfterCheck
<1>8. ASSUME NEW j \in JobIds, ChainLost(j)
      PROVE  jobs'[i].pc # "lost"
  BY <1>1, <1>8, ChainLostEffect DEF Others, AfterMark, AfterCheck
<1>9. ASSUME NEW j \in JobIds,
             \/ StartTask(j) \/ Reports(j) \/ Return(j) \/ Rescue(j)
      PROVE  jobs'[i].pc # "lost"
  <2>1. Others(j) /\ jobs'[j].pc \in {"body", "return", "idle"} \cup ReportPlaces
    BY <1>1, <1>9, StartEffect, ReportEffect, ReturnEffect, RescueEffect
  <2>2. QED
    BY <2>1 DEF Others, ReportPlaces
<1>10. ASSUME NEW j \in JobIds, Timeout(j) PROVE jobs'[i].pc # "lost"
  BY <1>1, <1>10, TimeoutEffect DEF Others
<1>11. ASSUME NEW j \in JobIds, Crash(j) PROVE jobs'[i].pc # "lost"
  BY <1>1, <1>11, CrashEffect DEF Others
<1>12. QED
  BY <1>2, <1>3, <1>5, <1>6, <1>7, <1>8, <1>9, <1>10, <1>11, StepCases

LEMMA OneAtATimeStep ==
    ASSUME NEW Main, IsChain(Main), TypeOK, Consistent, PlansHeld, OneAtATime(Main), Next
    PROVE  OneAtATime(Main)'
<1>1. SUFFICES ASSUME budget'.crashes = 0
               PROVE  /\ \A j \in JobIds : jobs'[j].pc # "lost"
                      /\ \A i, j \in JobIds :
                            /\ Exists(jobs'[i]) /\ jobs'[i].kind \in Main
                            /\ Exists(jobs'[j]) /\ jobs'[j].kind \in Main
                            => /\ jobs'[i].kind = jobs'[j].kind => i = j
                               /\ SortOrder[jobs'[i].kind] < SortOrder[jobs'[j].kind]
                                     => Done(jobs'[i])
  BY DEF OneAtATime
<1>2. budget.crashes = 0 /\ \A j \in JobIds : ~Crash(j)
  <2>1. budget.crashes = 0
    BY <1>1, BudgetGrows DEF TypeOK, Budget
  <2>2. ASSUME NEW j \in JobIds, Crash(j) PROVE FALSE
    BY <1>1, <2>1, <2>2, CrashEffect DEF Consistent
  <2>3. QED
    BY <2>1, <2>2
<1>3. ExecutionSound /\ RunCreatedFirst
  BY DEF Consistent
<1>4. SortOrder \in [Tasks -> Nat] /\ Main \subseteq Tasks
  BY EngineAssumption DEF IsChain
<1>5. \A j \in JobIds : jobs'[j].pc # "lost"
  BY <1>2, NoneLost DEF OneAtATime
<1>6. ASSUME NEW i \in JobIds, NEW j \in JobIds,
             Exists(jobs'[i]), jobs'[i].kind \in Main, Exists(jobs'[j]), jobs'[j].kind \in Main
      PROVE  /\ jobs'[i].kind = jobs'[j].kind => i = j
             /\ SortOrder[jobs'[i].kind] < SortOrder[jobs'[j].kind] => Done(jobs'[i])
  <2>1. CASE Exists(jobs[i]) /\ Exists(jobs[j])
    <3>1. jobs'[i].kind = jobs[i].kind /\ jobs'[j].kind = jobs[j].kind
      BY <2>1, KindsKept
    <3>2. Done(jobs[i]) => Done(jobs'[i])
      BY <1>2, DoneStays
    <3>3. QED
      BY <1>2, <1>6, <2>1, <3>1, <3>2 DEF OneAtATime
  <2>2. ASSUME NEW n \in JobIds, EnqueueEntry(n) PROVE i = n /\ j = n
    BY <1>3, <1>6, <2>2, EnqueueEffect DEF Others, Exists
  <2>3. ASSUME NEW k \in JobIds, NEW n \in JobIds, ChainInsert(k, n)
        PROVE  /\ jobs'[i].kind = jobs'[j].kind => i = j
               /\ SortOrder[jobs'[i].kind] < SortOrder[jobs'[j].kind] => Done(jobs'[i])
    <3> DEFINE h == Head(jobs[k].plan.chain)
    <3>1. /\ \A m \in JobIds : m # k /\ m # n => jobs'[m] = jobs[m]
          /\ n # k /\ jobs[k].state = "running" /\ jobs[k].pc = "chain"
          /\ Stays(k) /\ jobs'[k].pc = "return" /\ jobs'[k].plan.mark = "completed"
          /\ Inserted(jobs'[n], h)
      BY <1>3, <2>3, ChainInsertEffect, ChainLeft
    <3>2. /\ jobs[k].kind \in Main /\ h \in Main
          /\ SortOrder[jobs[k].kind] < SortOrder[h]
          /\ \A u \in Main : SortOrder[u] < SortOrder[h] => SortOrder[u] <= SortOrder[jobs[k].kind]
      BY <3>1, NextOfChain DEF Links
    <3> HIDE DEF h
    <3>3. Exists(jobs[k]) /\ ~Done(jobs[k]) /\ Done(jobs'[k])
      BY <3>1 DEF Exists, Done, Past, ReportPlaces
    <3>4. ASSUME NEW m \in JobIds, m # n, Exists(jobs'[m]), jobs'[m].kind \in Main
          PROVE  /\ Exists(jobs[m]) /\ jobs'[m].kind = jobs[m].kind
                 /\ SortOrder[jobs[m].kind] <= SortOrder[jobs[k].kind]
                 /\ Done(jobs'[m])
      <4>1. Exists(jobs[m]) /\ jobs'[m].kind = jobs[m].kind
        BY <3>1, <3>3, <3>4 DEF Stays
      <4>2. ~(SortOrder[jobs[k].kind] < SortOrder[jobs[m].kind])
        BY <1>2, <3>2, <3>3, <3>4, <4>1 DEF OneAtATime
      <4>3. SortOrder[jobs[m].kind] <= SortOrder[jobs[k].kind]
        BY <1>4, <3>2, <3>4, <4>1, <4>2
      <4>4. CASE m = k
        BY <3>3, <4>1, <4>3, <4>4
      <4>5. CASE m # k
        <5>1. jobs[m].kind # jobs[k].kind
          BY <1>2, <3>2, <3>3, <3>4, <4>1, <4>5 DEF OneAtATime
        <5>2. SortOrder[jobs[m].kind] # SortOrder[jobs[k].kind]
          BY <3>2, <3>4, <4>1, <5>1 DEF IsChain
        <5>3. SortOrder[jobs[m].kind] < SortOrder[jobs[k].kind]
          BY <1>4, <3>2, <3>4, <4>1, <4>3, <5>2
        <5>4. Done(jobs[m])
          BY <1>2, <3>2, <3>3, <3>4, <4>1, <5>3 DEF OneAtATime
        <5>5. QED
          BY <3>1, <3>4, <4>1, <4>3, <4>5, <5>4
      <4>6. QED
        BY <4>4, <4>5
    <3>5. jobs'[n].kind = h
      BY <3>1 DEF Inserted
    <3>6. CASE i = n /\ j = n
      BY <1>4, <3>2, <3>5, <3>6
    <3>7. CASE i = n /\ j # n
      BY <1>4, <1>6, <3>2, <3>4, <3>5, <3>7
    <3>8. CASE i # n /\ j = n
      BY <1>4, <1>6, <3>2, <3>4, <3>5, <3>8
    <3>9. CASE i # n /\ j # n
      BY <1>2, <1>6, <3>4, <3>9 DEF OneAtATime
    <3>10. QED
      BY <3>6, <3>7, <3>8, <3>9
  <2>4. ASSUME NEW k \in JobIds, NEW n \in JobIds, NEW t \in Spawns[jobs[k].kind],
               Spawn(k, t, n)
        PROVE  ~(jobs'[n].kind \in Main)
    <3>1. jobs'[n].kind = t
      BY <1>3, <2>4, SpawnEffect DEF Inserted
    <3>2. QED
      BY <3>1 DEF IsChain, TypeOK, Job
  <2>5. QED
    BY <1>4, <1>6, <2>1, <2>2, <2>3, <2>4, Insertions
<1>7. QED
  BY <1>5, <1>6

(* The first state, without jobs, and every step keep the chain. *)
LEMMA ChainInit ==
    ASSUME NEW Main, Init
    PROVE  ChainInv(Main)
BY DEF Init, ChainInv, PlansHeld, PlanHeld, Unhurt, EarlierCompleted, OneAtATime,
   CompletedByJobs, CompletionCovered, NoJob, Exists, Past, ReportPlaces

LEMMA ChainStep ==
    ASSUME NEW Main, IsChain(Main), TypeOK, Consistent, ChainInv(Main), [Next]_vars
    PROVE  ChainInv(Main)'
<1>1. CASE Next
  BY <1>1, PlansHeldStep, UnhurtStep, EarlierCompletedStep, OneAtATimeStep,
     CompletedByJobsStep, CompletionCoveredStep DEF ChainInv
<1>2. CASE UNCHANGED vars
  BY <1>2 DEF vars, ChainInv, PlansHeld, Unhurt, EarlierCompleted, OneAtATime,
     CompletedByJobs, CompletionCovered
<1>3. QED
  BY <1>1, <1>2

(* Whatever crashes, fails, times out or is retried, the jobs of a chain   *)
(* are inserted in its order, and without a crash once each.               *)
THEOREM ChainsAreKept ==
    ASSUME NEW Main, IsChain(Main)
    PROVE  Spec => []ChainInv(Main)
<1>1. TypeOK /\ Consistent /\ ChainInv(Main) /\ [Next]_vars => ChainInv(Main)'
  BY ChainStep
<1>2. Init => ChainInv(Main)
  BY ChainInit
<1>3. QED
  BY <1>1, <1>2, TypeCorrect, VerdictsAreCovered, PTL DEF Spec

-----------------------------------------------------------------------------
(* How a run of one chain ends. *)

(* Every task is in the chain, and Last ends it: only a worker that fails  *)
(* or the last one chains nothing; it checks whether the run is complete,  *)
(* and the last one asks for a review when it succeeds.                    *)
EndsAt(Last) ==
    /\ IsChain(Tasks) /\ Last \in Tasks
    /\ \A t \in Tasks : SortOrder[t] <= SortOrder[Last]
    /\ \A t \in Tasks, p \in Plan : p \in Plans[t] /\ p.chain = <<>> =>
          /\ p.check
          /\ p.mark = "completed" => t = Last /\ p.review

ChainReady == TypeOK /\ Consistent /\ ChainInv(Tasks)

(* What a step does to one job: its insertion, or one step of its own. *)
JobInserted(i) ==
    \/ EnqueueEntry(i)
    \/ \E j \in JobIds : ChainInsert(j, i)
    \/ \E j \in JobIds : \E t \in Spawns[jobs[j].kind] : Spawn(j, t, i)

JobMoves(i) ==
    \/ StartTask(i)
    \/ \E t \in Spawns[jobs[i].kind], n \in JobIds : Spawn(i, t, n)
    \/ \E p \in Plans[jobs[i].kind] : MarkTask(i, p)
    \/ \E n \in JobIds : ChainInsert(i, n)
    \/ ChainLost(i) \/ Reports(i) \/ Return(i)
    \/ Timeout(i) \/ Crash(i) \/ Rescue(i)

LEMMA JobCases ==
    ASSUME TypeOK, Consistent, Next, NEW i \in JobIds
    PROVE  jobs'[i] = jobs[i] \/ JobInserted(i) \/ JobMoves(i)
<1> DEFINE Goal == jobs'[i] = jobs[i] \/ JobInserted(i) \/ JobMoves(i)
<1> SUFFICES Goal
  OBVIOUS
<1>1. ExecutionSound /\ RunCreatedFirst
  BY DEF Consistent
<1>2. ASSUME NEW j \in JobIds, Others(j), JobMoves(j) PROVE Goal
  BY <1>2 DEF Others
<1> HIDE DEF Goal
<1>3. CASE LeavesJobs
  BY <1>3, LeavesJobsEffect DEF Goal
<1>4. ASSUME NEW n \in JobIds, EnqueueEntry(n) PROVE Goal
  BY <1>1, <1>4, EnqueueEffect DEF Goal, JobInserted, Others
<1>5. ASSUME NEW j \in JobIds, NEW n \in JobIds, ChainInsert(j, n) PROVE Goal
  <2>1. i # j /\ i # n => jobs'[i] = jobs[i]
    BY <1>1, <1>5, ChainInsertEffect
  <2>2. QED
    BY <1>5, <2>1 DEF Goal, JobInserted, JobMoves
<1>6. ASSUME NEW j \in JobIds, NEW t \in Spawns[jobs[j].kind], NEW n \in JobIds, Spawn(j, t, n)
      PROVE  Goal
  <2>1. i # j /\ i # n => jobs'[i] = jobs[i]
    BY <1>1, <1>6, SpawnEffect
  <2>2. QED
    BY <1>6, <2>1 DEF Goal, JobInserted, JobMoves
<1>7. ASSUME NEW j \in JobIds,
             \/ StartTask(j) \/ (\E p \in Plans[jobs[j].kind] : MarkTask(j, p))
             \/ ChainLost(j) \/ Reports(j) \/ Return(j)
             \/ Timeout(j) \/ Crash(j) \/ Rescue(j)
      PROVE  Goal
  <2>1. Others(j)
    BY <1>1, <1>7, StartEffect, MarkEffect, ChainLostEffect, ReportEffect, ReturnEffect,
       TimeoutEffect, CrashEffect, RescueEffect
  <2>2. JobMoves(j)
    BY <1>7 DEF JobMoves
  <2>3. QED
    BY <1>2, <2>1, <2>2
<1>8. QED
  BY <1>3, <1>4, <1>5, <1>6, <1>7, StepCases

(* Without users nobody is retrying. *)
NobodyRetries == budget.retries = 0 => api.pc = "idle"

(* Who changes a task's row. *)
LEMMA RowFrame ==
    ASSUME TypeOK, Consistent, Next, NEW t \in Tasks
    PROVE  \/ taskStatus'[t] = taskStatus[t]
           \/ taskStatus[t] = "absent" /\ creator = "tasks"
           \/ api.pc = "reset"
           \/ \E j \in JobIds : jobs[j].kind = t /\ StartTask(j)
           \/ \E j \in JobIds : \E p \in Plans[jobs[j].kind] :
                 jobs[j].kind = t /\ MarkTask(j, p)
<1> DEFINE Goal == \/ taskStatus'[t] = taskStatus[t]
                   \/ taskStatus[t] = "absent" /\ creator = "tasks"
                   \/ api.pc = "reset"
                   \/ \E j \in JobIds : jobs[j].kind = t /\ StartTask(j)
                   \/ \E j \in JobIds : \E p \in Plans[jobs[j].kind] :
                         jobs[j].kind = t /\ MarkTask(j, p)
<1> SUFFICES Goal
  OBVIOUS
<1>1. ASSUME NEW j \in JobIds, NEW s, SetTask(j, s), jobs[j].kind # t
      PROVE  taskStatus'[t] = taskStatus[t]
  BY <1>1 DEF SetTask, rowVars, TypeOK
<1>2. ASSUME NEW j \in JobIds, StartTask(j) PROVE Goal
  BY <1>1, <1>2 DEF StartTask
<1>3. ASSUME NEW j \in JobIds, NEW p \in Plans[jobs[j].kind], MarkTask(j, p) PROVE Goal
  BY <1>1, <1>3 DEF MarkTask
<1>4. ASSUME UNCHANGED taskStatus PROVE Goal
  BY <1>4
<1>5. ASSUME NEW u \in Tasks, CreateTask(u) PROVE Goal
  BY <1>5 DEF CreateTask, TypeOK
<1>6. ASSUME NEW u \in Tasks, RetryResetTask(u) PROVE Goal
  BY <1>6 DEF RetryResetTask
<1> HIDE DEF Goal
<1>7. ASSUME NEW j \in JobIds,
             \/ \E u \in Spawns[jobs[j].kind], n \in JobIds : Spawn(j, u, n)
             \/ \E n \in JobIds : ChainInsert(j, n)
             \/ ChainLost(j) \/ Reports(j) \/ Return(j)
             \/ Timeout(j) \/ Crash(j) \/ Rescue(j)
      PROVE  UNCHANGED taskStatus
  BY <1>7 DEF Spawn, ChainInsert, ChainLost, Reports, CheckRead, CheckWriteStatus,
     CheckWriteError, CheckNotify, AskReview, Return, Timeout, Crash, Rescue, rowVars
<1>8. CASE LeavesJobs
  <2>1. CASE CreateRun \/ CreateAborts \/ (\E j \in JobIds : WorkStatement(j)) \/ Rest
    BY <1>4, <2>1 DEF CreateRun, CreateAborts, WorkStatement, Rest, vars, rowVars
  <2>2. CASE RetryRead \/ RetrySetRunning
    BY <1>4, <2>2 DEF RetryRead, RetrySetRunning, rowVars
  <2>3. QED
    BY <1>5, <1>6, <1>8, <2>1, <2>2 DEF LeavesJobs, Retry
<1>9. ASSUME NEW n \in JobIds, EnqueueEntry(n) PROVE UNCHANGED taskStatus
  BY <1>9 DEF EnqueueEntry, rowVars
<1>10. QED
  BY <1>2, <1>3, <1>4, <1>7, <1>8, <1>9, StepCases

(* Who changes the run's status. *)
LEMMA StatusFrame ==
    ASSUME TypeOK, Consistent, Next
    PROVE  \/ runStatus' = runStatus
           \/ runStatus = "none" /\ creator = "run"
           \/ api.pc = "reset"
           \/ \E j \in JobIds : CheckWriteStatus(j) /\ runStatus' = jobs[j].verdict
<1>1. CASE CreateRun
  BY <1>1 DEF CreateRun, Consistent, RunCreatedFirst
<1>2. CASE RetrySetRunning
  BY <1>2 DEF RetrySetRunning
<1>3. ASSUME NEW j \in JobIds, CheckWriteStatus(j)
      PROVE  runStatus' = runStatus \/ runStatus' = jobs[j].verdict
  BY <1>3 DEF CheckWriteStatus
<1>4. CASE ~(\E j \in JobIds : CheckWriteStatus(j)) /\ ~CreateRun /\ ~RetrySetRunning
  BY <1>4, ZenonT(40) DEF Next, Create, CreateTask, EnqueueEntry, CreateAborts,
     Work, StartTask, Spawn, WorkStatement, MarkTask, ChainInsert, ChainLost, CheckRead,
     CheckWriteError, CheckNotify, AskReview, Return, Timeout, Crash, Rescue,
     Retry, RetryRead, RetryResetTask, Rest, runVars, vars
<1>5. QED
  BY <1>1, <1>2, <1>3, <1>4

LEMMA NobodyRetriesStep ==
    ASSUME TypeOK, NobodyRetries, Next
    PROVE  NobodyRetries'
<1>1. SUFFICES ASSUME budget'.retries = 0 PROVE api'.pc = "idle"
  BY DEF NobodyRetries
<1>2. api.pc = "idle"
  BY <1>1, BudgetGrows DEF NobodyRetries, TypeOK, Budget
<1>3. CASE RetryRead
  BY <1>1, <1>3, BudgetGrows DEF RetryRead, TypeOK, Budget
<1>4. CASE UNCHANGED api
  BY <1>2, <1>4
<1>5. CASE (\E t \in Tasks : RetryResetTask(t)) \/ RetrySetRunning
  BY <1>2, <1>5 DEF RetryResetTask, RetrySetRunning
<1>6. QED
  BY <1>3, <1>4, <1>5, ZenonT(40) DEF Next, Create, CreateRun, CreateTask, EnqueueEntry, CreateAborts,
     Work, StartTask, Spawn, WorkStatement, MarkTask, ChainInsert, ChainLost, CheckRead,
     CheckWriteStatus, CheckWriteError, CheckNotify, AskReview, Return, Timeout, Crash,
     Rescue, Retry, Rest, vars

(* Where a worker goes after its mark: on to the next one, or to the check.*)
LEMMA PlanOfWorker ==
    ASSUME NEW Last, EndsAt(Last), NEW t \in Tasks, NEW p \in Plan, p \in Plans[t]
    PROVE  /\ p.mark \in {"completed", "failed"}
           /\ p.chain # <<>> => /\ p.mark = "completed" /\ t # Last
                                /\ AfterMark(p) = "chain"
           /\ p.chain = <<>> => /\ AfterMark(p) = "check"
                                /\ p.mark = "completed" => t = Last /\ p.review
<1>1. ASSUME p.chain # <<>> PROVE p.mark = "completed" /\ t # Last
  <2>1. Links(Tasks, t, p)
    BY <1>1 DEF EndsAt, IsChain
  <2>2. Head(p.chain) \in Tasks /\ SortOrder[t] < SortOrder[Head(p.chain)]
    BY <2>1 DEF Links
  <2>3. SortOrder[Head(p.chain)] <= SortOrder[Last]
    BY <2>2 DEF EndsAt
  <2>4. SortOrder[t] \in Nat /\ SortOrder[Head(p.chain)] \in Nat /\ SortOrder[Last] \in Nat
    BY <2>2, EngineAssumption DEF EndsAt
  <2>5. t # Last
    BY <2>2, <2>3, <2>4
  <2>6. QED
    BY <2>1, <2>5 DEF Links
<1>2. p.mark \in {"completed", "failed"}
  BY DEF Plan
<1>3. ASSUME p.chain = <<>>
      PROVE  p.check /\ (p.mark = "completed" => t = Last /\ p.review)
  BY <1>3 DEF EndsAt
<1>4. QED
  BY <1>1, <1>2, <1>3 DEF AfterMark

(* An execution that reports was failed, or is that of the last task. *)
LEMMA Reporters ==
    ASSUME NEW Last, EndsAt(Last), TypeOK, PlansHeld, NEW j \in JobIds,
           jobs[j].pc \in Past
    PROVE  /\ jobs[j].plan.mark \in {"completed", "failed"}
           /\ jobs[j].pc \in ReportPlaces \/ jobs[j].kind = Last
                 => \/ jobs[j].plan.mark = "failed"
                    \/ /\ jobs[j].plan.mark = "completed" /\ jobs[j].plan.review
                       /\ jobs[j].kind = Last
<1> DEFINE r == jobs[j]
<1>1. r.kind \in Tasks /\ r.plan \in Plan
  BY DEF TypeOK, Job
<1>2. PICK p \in Plans[r.kind] :
         p.mark = r.plan.mark /\ IF p.chain # <<>> THEN r.pc = "return" ELSE r.plan = p
  BY DEF PlansHeld, PlanHeld
<1>3. p \in Plan
  BY <1>1, EngineAssumption
<1> HIDE DEF r
<1>4. r.pc \in ReportPlaces \/ r.kind = Last => p.chain = <<>>
  BY <1>1, <1>2, <1>3, PlanOfWorker DEF ReportPlaces
<1>5. QED
  <2>1. r.plan.mark \in {"completed", "failed"}
    BY <1>1, <1>2, <1>3, PlanOfWorker
  <2>2. ASSUME r.pc \in ReportPlaces \/ r.kind = Last
        PROVE  \/ r.plan.mark = "failed"
               \/ r.plan.mark = "completed" /\ r.plan.review /\ r.kind = Last
    BY <1>1, <1>2, <1>3, <1>4, <2>1, <2>2, PlanOfWorker
  <2>3. QED
    BY <2>1, <2>2 DEF r

(* The job at work, or the last one: without a crash there is only one. *)
AtFront(Last, r) == Exists(r) /\ (~Done(r) \/ r.kind = Last)

LEMMA FrontIsOne ==
    ASSUME NEW Last, EndsAt(Last), ChainReady, budget.crashes = 0,
           NEW i \in JobIds, NEW j \in JobIds,
           AtFront(Last, jobs[i]), AtFront(Last, jobs[j])
    PROVE  i = j
<1>1. jobs[i].kind \in Tasks /\ jobs[j].kind \in Tasks /\ Last \in Tasks
  BY DEF ChainReady, TypeOK, Job, EndsAt
<1>2. \A t \in Tasks : SortOrder[t] \in Nat /\ SortOrder[t] <= SortOrder[Last]
  BY EngineAssumption DEF EndsAt
<1>3. ASSUME NEW k \in JobIds, NEW m \in JobIds, AtFront(Last, jobs[k]),
             AtFront(Last, jobs[m]), jobs[k].kind \in Tasks, jobs[m].kind \in Tasks
      PROVE  ~(SortOrder[jobs[k].kind] < SortOrder[jobs[m].kind])
  <2>1. SUFFICES ASSUME SortOrder[jobs[k].kind] < SortOrder[jobs[m].kind] PROVE FALSE
    OBVIOUS
  <2>2. Done(jobs[k])
    BY <1>3, <2>1 DEF AtFront, ChainReady, ChainInv, OneAtATime
  <2>3. jobs[k].kind = Last
    BY <1>3, <2>2 DEF AtFront
  <2>4. QED
    BY <1>1, <1>2, <1>3, <2>1, <2>3
<1>4. SortOrder[jobs[i].kind] = SortOrder[jobs[j].kind]
  BY <1>1, <1>2, <1>3
<1>5. jobs[i].kind = jobs[j].kind
  BY <1>1, <1>4 DEF EndsAt, IsChain
<1>6. QED
  BY <1>1, <1>5 DEF AtFront, ChainReady, ChainInv, OneAtATime

(* Without a crash a task on record is never worked on again. *)
Marked(r) == r.pc = "chain" \/ Done(r)

MarkedForGood ==
    budget.crashes = 0 =>
        \A j \in JobIds :
            Exists(jobs[j]) /\ jobs[j].kind \in everCompleted => Marked(jobs[j])

LEMMA NoCrash ==
    ASSUME TypeOK, Consistent, Next, budget'.crashes = 0
    PROVE  budget.crashes = 0 /\ \A j \in JobIds : ~Crash(j)
<1>1. budget.crashes = 0
  BY BudgetGrows DEF TypeOK, Budget
<1>2. ASSUME NEW j \in JobIds, Crash(j) PROVE FALSE
  BY <1>1, <1>2, CrashEffect DEF Consistent
<1>3. QED
  BY <1>1, <1>2

LEMMA MarkedForGoodStep ==
    ASSUME IsChain(Tasks), ChainReady, MarkedForGood, Next
    PROVE  MarkedForGood'
<1>1. SUFFICES ASSUME budget'.crashes = 0, NEW i \in JobIds, Exists(jobs'[i]),
                      jobs'[i].kind \in everCompleted'
               PROVE  Marked(jobs'[i])
  BY DEF MarkedForGood
<1>2. /\ TypeOK /\ Consistent /\ PlansHeld /\ CompletedByJobs
      /\ ExecutionSound /\ RunCreatedFirst
  BY DEF ChainReady, ChainInv, Consistent
<1>3. /\ budget.crashes = 0 /\ ~Crash(i)
      /\ \A k \in JobIds : Exists(jobs[k]) /\ jobs[k].kind \in everCompleted => Marked(jobs[k])
  BY <1>1, <1>2, NoCrash DEF MarkedForGood
<1>4. \A k \in JobIds : Exists(jobs'[k]) /\ jobs'[k].kind = jobs'[i].kind => k = i
  <2>1. ChainInv(Tasks)'
    BY ChainStep DEF ChainReady
  <2>2. jobs'[i].kind \in Tasks
    BY <1>2, TypeStep DEF Consistent, TypeOK, Job
  <2>3. QED
    BY <1>1, <2>1, <2>2 DEF ChainInv, OneAtATime
<1>5. ASSUME NEW k \in JobIds, NEW p \in Plan, MarkTask(k, p), p.mark = "completed",
             jobs[k].kind = jobs'[i].kind
      PROVE  Marked(jobs'[i])
  <2>1. Exists(jobs[k]) /\ jobs'[k].pc = AfterMark(p) /\ jobs'[k].plan = p
    BY <1>2, <1>5, MarkEffect DEF Exists
  <2>2. k = i
    BY <1>2, <1>4, <1>5, <2>1, KindsKept
  <2>3. jobs'[k].pc \in {"chain"} \cup Past
    BY <2>1 DEF AfterMark, AfterCheck, Past, ReportPlaces
  <2>4. QED
    BY <1>5, <2>1, <2>2, <2>3 DEF Marked, Done
<1>6. CASE jobs'[i].kind \notin everCompleted
  BY <1>1, <1>2, <1>5, <1>6, RecordStep
<1>7. CASE jobs'[i].kind \in everCompleted
  <2>1. PICK k \in JobIds : Exists(jobs[k]) /\ jobs[k].kind = jobs'[i].kind
    BY <1>7, <1>2 DEF CompletedByJobs
  <2>2. k = i
    BY <1>2, <1>4, <2>1, KindsKept
  <2>3. Marked(jobs[i])
    BY <1>3, <1>7, <2>1, <2>2
  <2>4. CASE Done(jobs[i])
    BY <1>2, <1>3, <2>4, DoneStays DEF Marked
  <2>5. CASE jobs[i].pc = "chain"
    <3>1. CASE jobs'[i] = jobs[i]
      BY <2>3, <3>1
    <3>2. JobInserted(i) => jobs[i].state = "none"
      BY <1>2, EnqueueEffect, ChainInsertEffect, SpawnEffect DEF JobInserted
    <3>3. ~JobInserted(i)
      BY <1>2, <2>5, <3>2 DEF ExecutionSound
    <3>4. CASE ChainLost(i) \/ \E n \in JobIds : ChainInsert(i, n)
      <4>1. /\ jobs'[i].pc = AfterMark(ChainRest(jobs[i].plan))
            /\ jobs'[i].plan = ChainRest(jobs[i].plan)
        BY <1>2, <3>4, ChainLostEffect, ChainInsertEffect
      <4>2. QED
        BY <1>2, <2>5, <4>1, ChainLeft DEF Marked, Done, Past
    <3>5. CASE Timeout(i)
      BY <1>2, <2>5, <3>5, TimeoutEffect DEF Marked
    <3>6. CASE \/ StartTask(i) \/ (\E t \in Spawns[jobs[i].kind], n \in JobIds : Spawn(i, t, n))
               \/ (\E p \in Plans[jobs[i].kind] : MarkTask(i, p))
               \/ Reports(i) \/ Return(i) \/ Rescue(i)
      <4>1. jobs[i].pc # "chain"
        BY <1>2, <3>6, StartEffect, SpawnEffect, MarkEffect, ReportEffect, ReturnEffect,
           RescueEffect DEF ReportPlaces, ExecutionSound
      <4>2. QED
        BY <2>5, <4>1
    <3>7. QED
      BY <1>2, <1>3, <3>1, <3>3, <3>4, <3>5, <3>6, JobCases DEF JobMoves
  <2>6. QED
    BY <2>3, <2>4, <2>5 DEF Marked
<1>8. QED
  BY <1>6, <1>7

(* ... and a run that is said to be completed is not judged again. *)
NothingToTell ==
    budget.crashes = 0 /\ runStatus = "completed" =>
        \A j \in JobIds : jobs[j].pc \notin {"check", "status"}

LEMMA NothingToTellStep ==
    ASSUME NEW Last, EndsAt(Last), ChainReady, MarkedForGood, NothingToTell, Next
    PROVE  NothingToTell'
<1>1. SUFFICES ASSUME budget'.crashes = 0, runStatus' = "completed", NEW i \in JobIds,
                      jobs'[i].pc \in {"check", "status"}
               PROVE  FALSE
  BY DEF NothingToTell
<1>2. /\ TypeOK /\ Consistent /\ PlansHeld /\ CompletionCovered
      /\ ExecutionSound /\ RunCreatedFirst
  BY DEF ChainReady, ChainInv, Consistent
<1>3. /\ budget.crashes = 0 /\ ~Crash(i)
      /\ \A k \in JobIds : Exists(jobs[k]) /\ jobs[k].kind \in everCompleted => Marked(jobs[k])
  BY <1>1, <1>2, NoCrash DEF MarkedForGood
<1>4. \A k \in JobIds : jobs[k].kind \in Tasks /\ jobs[k].plan \in Plan
  BY <1>2 DEF TypeOK, Job
<1>5. ASSUME NEW j \in JobIds, CheckWriteStatus(j), jobs[j].verdict = "completed"
      PROVE  FALSE
  <2>1. everCompleted = Tasks /\ jobs[j].pc = "status"
    BY <1>2, <1>5 DEF CheckWriteStatus, Consistent, VerdictGiven
  <2>2. /\ Others(j) /\ jobs[j].state = "running" /\ jobs'[j].pc = "notify"
    BY <1>2, <1>5, StatusEffect
  <2>3. i # j /\ jobs'[i] = jobs[i]
    BY <1>1, <2>2 DEF Others
  <2>4. ASSUME NEW k \in JobIds, jobs[k].pc \in {"check", "status"}
        PROVE  AtFront(Last, jobs[k])
    <3>1. Exists(jobs[k]) /\ jobs[k].pc \in ReportPlaces /\ jobs[k].pc \in Past
      BY <1>2, <2>4 DEF ExecutionSound, Exists, Past, ReportPlaces
    <3>2. Marked(jobs[k])
      BY <1>3, <1>4, <2>1, <3>1
    <3>3. jobs[k].state = "running"
      BY <1>2, <3>1 DEF ExecutionSound, ReportPlaces
    <3>4. jobs[k].plan.mark = "completed"
      BY <2>4, <3>2, <3>3 DEF Marked, Done
    <3>5. jobs[k].kind = Last
      BY <1>2, <3>1, <3>4, Reporters
    <3>6. QED
      BY <3>1, <3>5 DEF AtFront
  <2>5. AtFront(Last, jobs[i]) /\ AtFront(Last, jobs[j])
    BY <1>1, <2>1, <2>3, <2>4
  <2>6. QED
    BY <1>3, <2>3, <2>5, FrontIsOne
<1>6. runStatus = "completed"
  <2>1. CASE \E j \in JobIds : CheckWriteStatus(j) /\ runStatus' = jobs[j].verdict
    BY <1>1, <1>5, <2>1
  <2>2. CASE ~(\E j \in JobIds : CheckWriteStatus(j) /\ runStatus' = jobs[j].verdict)
    BY <1>1, <2>2, <1>2, ZenonT(40)
    DEF Next, Create, CreateRun, CreateTask, EnqueueEntry, CreateAborts,
       Work, StartTask, Spawn, WorkStatement, MarkTask, ChainInsert, ChainLost, CheckRead,
       CheckWriteStatus, CheckWriteError, CheckNotify, AskReview, Return, Timeout, Crash,
       Rescue, Retry, RetryRead, RetryResetTask, RetrySetRunning, Rest, runVars, vars
  <2>3. QED
    BY <2>1, <2>2
<1>7. jobs[i].pc \notin {"check", "status"} /\ (Exists(jobs[i]) => Marked(jobs[i]))
  BY <1>2, <1>3, <1>4, <1>6 DEF NothingToTell, CompletionCovered
<1>8. CASE jobs'[i] = jobs[i]
  BY <1>1, <1>7, <1>8
<1>9. JobInserted(i) => jobs'[i].pc = "idle"
  BY <1>2, EnqueueEffect, ChainInsertEffect, SpawnEffect DEF JobInserted, Inserted
<1>10. ASSUME NEW p \in Plans[jobs[i].kind], MarkTask(i, p) PROVE FALSE
  <2>1. jobs[i].pc = "body" /\ jobs[i].state = "running"
    BY <1>2, <1>10, MarkEffect
  <2>2. Marked(jobs[i])
    BY <1>7, <2>1 DEF Exists
  <2>3. QED
    BY <2>1, <2>2 DEF Marked, Done, Past, ReportPlaces
<1>11. CASE ChainLost(i) \/ \E n \in JobIds : ChainInsert(i, n)
  <2>1. jobs[i].pc = "chain" /\ jobs'[i].pc = AfterMark(ChainRest(jobs[i].plan))
    BY <1>2, <1>11, ChainLostEffect, ChainInsertEffect
  <2>2. IsChain(Tasks)
    BY DEF EndsAt
  <2>3. QED
    BY <1>1, <1>2, <2>1, <2>2, ChainLeft
<1>12. CASE Reports(i)
  <2>1. AfterCheck(jobs[i].plan) \in {"review", "return"}
    BY DEF AfterCheck
  <2>2. ~CheckRead(i) /\ ~CheckWriteStatus(i)
    BY <1>7 DEF CheckRead, CheckWriteStatus
  <2>3. CheckWriteError(i) \/ CheckNotify(i) \/ AskReview(i)
    BY <1>12, <2>2 DEF Reports
  <2>4. QED
    BY <1>1, <1>2, <2>1, <2>3, ErrorEffect, NotifyEffect, ReviewEffect
<1>13. CASE \/ StartTask(i) \/ (\E t \in Spawns[jobs[i].kind], n \in JobIds : Spawn(i, t, n))
            \/ Return(i) \/ Rescue(i)
  <2>1. jobs'[i].pc \in {"body", "idle"}
    BY <1>2, <1>13, StartEffect, SpawnEffect, ReturnEffect, RescueEffect
  <2>2. QED
    BY <1>1, <2>1
<1>14. CASE Timeout(i)
  BY <1>1, <1>2, <1>7, <1>14, TimeoutEffect
<1>15. QED
  BY <1>1, <1>2, <1>3, <1>8, <1>9, <1>10, <1>11, <1>12, <1>13, <1>14, JobCases
     DEF JobMoves

-----------------------------------------------------------------------------
(* What is reported well stays so, unless something crashes or a user      *)
(* interferes.                                                             *)
SettledInv == MarkedForGood /\ NothingToTell /\ NobodyRetries

LEMMA SettledInit ==
    ASSUME Init
    PROVE  SettledInv
BY DEF Init, SettledInv, MarkedForGood, NothingToTell, NobodyRetries, NoJob, Exists

LEMMA SettledStep ==
    ASSUME NEW Last, EndsAt(Last), ChainReady, SettledInv, [Next]_vars
    PROVE  SettledInv'
<1>1. CASE Next
  <2>1. IsChain(Tasks) /\ TypeOK
    BY DEF EndsAt, ChainReady
  <2>2. QED
    BY <1>1, <2>1, MarkedForGoodStep, NothingToTellStep, NobodyRetriesStep DEF SettledInv
<1>2. CASE UNCHANGED vars
  BY <1>2 DEF vars, SettledInv, MarkedForGood, NothingToTell, NobodyRetries
<1>3. QED
  BY <1>1, <1>2

(* One step takes back neither a completed run nor a completed task. *)
Regress ==
    \/ runStatus = "completed" /\ runStatus' # "completed"
    \/ \E t \in Tasks : taskStatus[t] = "completed" /\ taskStatus'[t] # "completed"

LEMMA NoRegressStep ==
    ASSUME ChainReady, SettledInv, [Next]_vars,
           budget.crashes = 0, budget'.retries = 0
    PROVE  ~Regress
<1>1. TypeOK /\ Consistent /\ HistoryKept /\ ExecutionSound /\ RunCreatedFirst
  BY DEF ChainReady, Consistent
<1>2. CASE UNCHANGED vars
  BY <1>2 DEF vars, Regress
<1>3. ASSUME Next PROVE ~Regress
  <2>1. budget.retries = 0
    BY <1>1, <1>3, BudgetGrows DEF TypeOK, Budget
  <2>2. api.pc = "idle"
    BY <2>1 DEF SettledInv, NobodyRetries
  <2>3. ASSUME runStatus = "completed" PROVE runStatus' = "completed"
    <3>1. ~(\E j \in JobIds : CheckWriteStatus(j))
      BY <2>3 DEF SettledInv, NothingToTell, CheckWriteStatus
    <3>2. QED
      BY <1>1, <1>3, <2>2, <2>3, <3>1, StatusFrame
  <2>4. ASSUME NEW t \in Tasks, taskStatus[t] = "completed" PROVE taskStatus'[t] = "completed"
    <3>1. t \in everCompleted
      BY <1>1, <2>4 DEF HistoryKept
    <3>2. ASSUME NEW j \in JobIds, jobs[j].kind = t,
                 StartTask(j) \/ \E p \in Plans[jobs[j].kind] : MarkTask(j, p)
          PROVE  FALSE
      <4>1. \/ jobs[j].state = "available"
            \/ jobs[j].pc = "body" /\ jobs[j].state = "running"
        BY <1>1, <3>2, StartEffect, MarkEffect
      <4>2. jobs[j].state = "available" => jobs[j].pc = "idle"
        BY <1>1 DEF ExecutionSound
      <4>3. Marked(jobs[j])
        BY <3>1, <3>2, <4>1 DEF SettledInv, MarkedForGood, Exists
      <4>4. QED
        BY <4>1, <4>2, <4>3 DEF Marked, Done, Past, ReportPlaces
    <3>3. QED
      BY <1>1, <1>3, <2>2, <2>4, <3>2, RowFrame
  <2>5. QED
    BY <2>3, <2>4 DEF Regress
<1>4. QED
  BY <1>2, <1>3

(* Without a crash and without users, neither a completed task nor a       *)
(* completed run is ever taken back, whatever fails or is executed again.  *)
THEOREM NothingTakenBack ==
    ASSUME NEW Last, EndsAt(Last)
    PROVE  Spec => NoRegress
<1>1. IsChain(Tasks)
  BY DEF EndsAt
<1>2. Init => ChainInv(Tasks) /\ SettledInv
  BY ChainInit, SettledInit
<1>3. TypeOK /\ Consistent /\ ChainInv(Tasks) /\ SettledInv /\ [Next]_vars
         => ChainInv(Tasks)' /\ SettledInv'
  BY <1>1, ChainStep, SettledStep DEF ChainReady
<1>4. TypeOK /\ Consistent /\ ChainInv(Tasks) /\ SettledInv /\ [Next]_vars
         => [budget.crashes = 0 /\ budget'.retries = 0 =>
                /\ runStatus = "completed" => runStatus' = "completed"
                /\ \A t \in Tasks : taskStatus[t] = "completed"
                                        => taskStatus'[t] = "completed"]_vars
  BY NoRegressStep DEF ChainReady, Regress
<1>5. QED
  BY <1>2, <1>3, <1>4, TypeCorrect, VerdictsAreCovered, PTL DEF Spec, NoRegress

-----------------------------------------------------------------------------
(* When nothing fails, crashes or is retried, the run tells how its jobs   *)
(* ended: what a job has done stands in its task's row, what it reported   *)
(* in the run's, and the user has been told.                               *)
Calm == budget.faults = 0 /\ budget.crashes = 0 /\ budget.retries = 0

(* The row of its task says what the job has marked. *)
RowTold(r, rows) ==
    /\ r.pc \in Past \cup {"chain"} => rows[r.kind] = r.plan.mark
    /\ r.state = "completed" => rows[r.kind] = "completed"

(* The run says what a job that has reported found. *)
Tells(Last, r) == r.plan.mark = "failed" \/ r.kind = Last

StatusTold(Last, r, status) ==
    /\ r.pc \in Reporting => r.verdict = r.plan.mark
    /\ r.pc \in {"error", "notify", "review", "return"} /\ Tells(Last, r)
          => status = r.plan.mark
    /\ r.state = "completed" /\ r.kind = Last => status = "completed"
    /\ r.state = "discarded" => status = "failed"

(* The user has been told, and the copilot asked. *)
SentTold(Last, r, out) ==
    /\ r.pc \in {"review", "return"} /\ Tells(Last, r) => out[r.plan.mark] > 0
    /\ \/ r.pc = "return" /\ r.plan.mark = "completed"
       \/ r.state = "completed"
       => (r.kind = Last => out["completed"] > 0 /\ out["review"] > 0)
    /\ r.state = "discarded" => out["failed"] > 0

Told(Last) ==
    Calm => \A j \in JobIds : /\ RowTold(jobs[j], taskStatus)
                              /\ StatusTold(Last, jobs[j], runStatus)
                              /\ MaxCount > 0 => SentTold(Last, jobs[j], sent)

(* Some job is at work, or the last one is completed. *)
WorkGoesOn(Last) ==
    budget.faults = 0 /\ creator = "finished" =>
        \E j \in JobIds : AtFront(Last, jobs[j])

(* Nothing of what was sent is taken back. *)
LEMMA SentGrows ==
    ASSUME TypeOK, Consistent, Next, NEW m \in Sent
    PROVE  sent[m] \in Nat /\ sent'[m] \in Nat /\ sent[m] <= sent'[m]
<1>1. sent[m] \in Nat /\ sent \in [Sent -> 0 .. MaxCount] /\ MaxCount \in Nat
  BY EngineAssumption DEF TypeOK
<1>2. CASE UNCHANGED sent
  BY <1>1, <1>2
<1>3. ASSUME NEW j \in JobIds, NEW k, Send(j, k)
      PROVE  sent'[m] \in Nat /\ sent[m] <= sent'[m]
  <2>1. CASE sent' = [sent EXCEPT ![k] = IF @ < MaxCount THEN @ + 1 ELSE @]
    <3>1. sent'[m] = IF m = k THEN (IF sent[m] < MaxCount THEN sent[m] + 1 ELSE sent[m])
                     ELSE sent[m]
      BY <1>1, <2>1
    <3>2. QED
      BY <1>1, <3>1
  <2>2. QED
    BY <1>2, <1>3, <2>1 DEF Send
<1>4. CASE \E j \in JobIds : CheckNotify(j) \/ AskReview(j)
  BY <1>1, <1>3, <1>4 DEF CheckNotify, AskReview
<1>5. CASE ~(\E j \in JobIds : CheckNotify(j) \/ AskReview(j))
  <2>1. UNCHANGED sent
    BY <1>5, ZenonT(40) DEF Next, Create, CreateRun, CreateTask, EnqueueEntry, CreateAborts,
       Work, StartTask, Spawn, WorkStatement, MarkTask, ChainInsert, ChainLost, CheckRead,
       CheckWriteStatus, CheckWriteError, Return, Timeout, Crash,
       Rescue, Retry, RetryRead, RetryResetTask, RetrySetRunning, Rest, runVars, vars
  <2>2. QED
    BY <1>2, <2>1, <1>1
<1>6. QED
  BY <1>1, <1>4, <1>5

(* A statement that succeeds sends. *)
LEMMA SendEffect ==
    ASSUME TypeOK, NEW j \in JobIds, NEW m \in Sent, Send(j, m), ~Errs(j), MaxCount > 0
    PROVE  sent'[m] > 0
<1>1. sent[m] \in Nat /\ sent \in [Sent -> 0 .. MaxCount] /\ MaxCount \in Nat
  BY EngineAssumption DEF TypeOK
<1>2. sent' = [sent EXCEPT ![m] = IF @ < MaxCount THEN @ + 1 ELSE @]
  BY DEF Send
<1>3. sent'[m] = IF sent[m] < MaxCount THEN sent[m] + 1 ELSE sent[m]
  BY <1>1, <1>2
<1>4. sent[m] < MaxCount \/ sent[m] > 0
  BY <1>1
<1>5. QED
  BY <1>1, <1>3, <1>4

(* Calm now, calm before: every statement succeeds, nothing is lost. *)
LEMMA CalmSteps ==
    ASSUME TypeOK, Consistent, Unhurt, NobodyRetries, Next, Calm'
    PROVE  /\ Calm /\ api.pc = "idle" /\ ~Fault
           /\ \A j \in JobIds : ~Errs(j) /\ ~Timeout(j) /\ ~Crash(j) /\ jobs[j].tracked
<1>1. budget.retries = 0
  BY BudgetGrows DEF Calm, TypeOK, Budget
<1>2. budget.crashes = 0 /\ \A j \in JobIds : ~Crash(j)
  BY NoCrash DEF Calm
<1>3. budget.faults = 0 /\ ~Fault
  BY BudgetGrows DEF Calm, TypeOK, Budget
<1>4. \A j \in JobIds : ~Errs(j) /\ ~Timeout(j) /\ jobs[j].tracked
  BY <1>3 DEF Unhurt, Errs, Timeout
<1>5. QED
  BY <1>1, <1>2, <1>3, <1>4 DEF Calm, NobodyRetries

LEMMA CalmBefore ==
    ASSUME ChainReady, SettledInv, Next, Calm'
    PROVE  /\ Calm /\ api.pc = "idle" /\ ~Fault
           /\ \A j \in JobIds : ~Errs(j) /\ ~Timeout(j) /\ ~Crash(j) /\ jobs[j].tracked
<1>1. TypeOK /\ Consistent /\ Unhurt /\ NobodyRetries
  BY DEF ChainReady, ChainInv, SettledInv
<1>2. QED
  BY <1>1, CalmSteps

(* A row is not changed under a job that has marked it. *)
LEMMA RowStays ==
    ASSUME NEW Main, TypeOK, Consistent, ChainInv(Main), NobodyRetries, Next, Calm',
           NEW i \in JobIds, jobs[i].kind \in Main,
           jobs[i].pc \in Past \cup {"chain"} \/ jobs[i].state = "completed"
    PROVE  taskStatus'[jobs[i].kind] = taskStatus[jobs[i].kind]
<1>1. /\ ExecutionSound /\ RunCreatedFirst /\ Unhurt
      /\ jobs[i].kind \in Tasks
  BY DEF ChainInv, Consistent, TypeOK, Job
<1>2. /\ jobs[i].state \in {"running", "completed"}
      /\ jobs[i].pc # "body" /\ Exists(jobs[i])
  BY <1>1 DEF ExecutionSound, Past, ReportPlaces, Exists
<1>3. creator = "finished" /\ api.pc = "idle" /\ budget.crashes = 0
  BY <1>1, <1>2, CalmSteps DEF RunCreatedFirst, Exists, Calm
<1>4. ASSUME NEW j \in JobIds, jobs[j].kind = jobs[i].kind,
             StartTask(j) \/ \E p \in Plans[jobs[j].kind] : MarkTask(j, p)
      PROVE  FALSE
  <2>1. jobs[j].state = "available" \/ (jobs[j].pc = "body" /\ jobs[j].state = "running")
    BY <1>1, <1>4, StartEffect, MarkEffect
  <2>2. j = i
    BY <1>1, <1>2, <1>3, <1>4, <2>1 DEF ChainInv, OneAtATime, Exists
  <2>3. QED
    BY <1>2, <2>1, <2>2
<1>5. QED
  BY <1>1, <1>3, <1>4, RowFrame

LEMMA RowToldStep ==
    ASSUME NEW Main, IsChain(Main), TypeOK, Consistent, ChainInv(Main), NobodyRetries,
           Next, Calm', NEW i \in JobIds, jobs'[i].kind \in Main,
           RowTold(jobs[i], taskStatus)
    PROVE  RowTold(jobs'[i], taskStatus')
<1>1. /\ ExecutionSound /\ RunCreatedFirst /\ Unhurt /\ PlansHeld
      /\ jobs[i].kind \in Tasks /\ jobs[i].plan \in Plan
  BY DEF ChainInv, Consistent, TypeOK, Job
<1>2. ~Errs(i) /\ ~Timeout(i) /\ ~Crash(i)
  BY <1>1, CalmSteps
<1>3. ASSUME jobs'[i].pc \notin Past \cup {"chain"}, jobs'[i].state # "completed"
      PROVE  RowTold(jobs'[i], taskStatus')
  BY <1>3 DEF RowTold
<1>4. CASE jobs'[i] = jobs[i]
  BY <1>3, <1>4, RowStays DEF RowTold
<1>5. CASE JobInserted(i)
  <2>1. jobs'[i].pc = "idle" /\ jobs'[i].state = "available"
    BY <1>1, <1>5, EnqueueEffect, ChainInsertEffect, SpawnEffect DEF JobInserted, Inserted
  <2>2. QED
    BY <1>3, <2>1 DEF Past, ReportPlaces
<1>6. CASE \/ StartTask(i) \/ (\E t \in Spawns[jobs[i].kind], n \in JobIds : Spawn(i, t, n))
           \/ Rescue(i)
  <2>1. /\ jobs'[i].pc \in {"body", "idle"}
        /\ jobs'[i].state \in {"running", "available", "discarded"}
    BY <1>1, <1>6, StartEffect, SpawnEffect, RescueEffect DEF Stays
  <2>2. QED
    BY <1>3, <2>1 DEF Past, ReportPlaces
<1>7. ASSUME NEW p \in Plans[jobs[i].kind], MarkTask(i, p) PROVE RowTold(jobs'[i], taskStatus')
  <2>1. /\ jobs'[i].kind = jobs[i].kind /\ jobs'[i].plan = p /\ jobs'[i].state = "running"
        /\ SetTask(i, p.mark)
    BY <1>1, <1>7, MarkEffect DEF Stays
  <2>2. taskStatus' = [taskStatus EXCEPT ![jobs[i].kind] = p.mark]
    BY <1>1, <2>1, CalmStatements DEF Calm
  <2>3. taskStatus'[jobs[i].kind] = p.mark
    BY <1>1, <2>2 DEF TypeOK
  <2>4. QED
    BY <2>1, <2>3 DEF RowTold
<1>8. CASE ChainLost(i) \/ \E n \in JobIds : ChainInsert(i, n)
  <2>1. /\ jobs[i].pc = "chain" /\ jobs'[i].state = "running"
        /\ jobs'[i].kind = jobs[i].kind /\ jobs'[i].plan = ChainRest(jobs[i].plan)
        /\ UNCHANGED rowVars
    BY <1>1, <1>8, ChainLostEffect, ChainInsertEffect DEF Stays
  <2>2. jobs[i].plan.mark = "completed" /\ jobs'[i].plan.mark = "completed"
    BY <1>1, <2>1, NextOfChain, ChainLeft DEF Links
  <2>3. QED
    BY <2>1, <2>2 DEF RowTold, rowVars
<1>9. CASE Reports(i)
  <2>1. /\ jobs'[i].state = "running" /\ jobs'[i].kind = jobs[i].kind
        /\ jobs[i].pc \in Past /\ jobs'[i].plan = jobs[i].plan /\ UNCHANGED rowVars
    BY <1>1, <1>9, ReportEffect DEF Stays, Past
  <2>2. QED
    BY <2>1 DEF RowTold, rowVars
<1>10. CASE Return(i)
  <2>1. /\ jobs[i].pc = "return" /\ jobs'[i].pc = "idle" /\ jobs'[i].kind = jobs[i].kind
        /\ jobs'[i].state = "completed" => jobs[i].plan.mark # "failed"
        /\ UNCHANGED rowVars
    BY <1>1, <1>10, ReturnEffect
  <2>2. jobs[i].plan.mark \in {"completed", "failed"}
    BY <1>1 DEF Plan
  <2>3. QED
    BY <2>1, <2>2 DEF RowTold, rowVars, Past, ReportPlaces
<1>11. QED
  BY <1>1, <1>2, <1>4, <1>5, <1>6, <1>7, <1>8, <1>9, <1>10, JobCases DEF JobMoves

(* The check finds what its worker has just done. *)
LEMMA CheckSees ==
    ASSUME NEW Last, EndsAt(Last), ChainReady, Calm,
           \A j \in JobIds : RowTold(jobs[j], taskStatus),
           NEW i \in JobIds, jobs[i].pc = "check"
    PROVE  Verdict = jobs[i].plan.mark
<1>1. /\ TypeOK /\ Consistent /\ ExecutionSound /\ RunCreatedFirst /\ PlansHeld
      /\ jobs[i].kind \in Tasks /\ IsChain(Tasks)
  BY DEF ChainReady, ChainInv, Consistent, TypeOK, Job, EndsAt
<1>2. /\ jobs[i].pc \in Past /\ jobs[i].pc \in ReportPlaces /\ Exists(jobs[i])
      /\ taskStatus[jobs[i].kind] = jobs[i].plan.mark
  BY <1>1 DEF RowTold, Past, ReportPlaces, ExecutionSound, Exists
<1>3. CASE jobs[i].plan.mark = "failed"
  BY <1>1, <1>2, <1>3 DEF Verdict, Rows
<1>4. CASE jobs[i].plan.mark = "completed" /\ jobs[i].kind = Last
  <2>1. ASSUME NEW t \in Tasks, t # Last PROVE taskStatus[t] = "completed"
    <3>1. SortOrder[t] < SortOrder[Last]
      <4>1. SortOrder[t] <= SortOrder[Last] /\ SortOrder[t] # SortOrder[Last] /\ Last \in Tasks
        BY <2>1 DEF EndsAt, IsChain
      <4>2. SortOrder[t] \in Nat /\ SortOrder[Last] \in Nat
        BY <4>1, EngineAssumption
      <4>3. QED
        BY <4>1, <4>2
    <3>2. t \in everCompleted
      BY <1>2, <1>4, <3>1 DEF Calm, ChainReady, ChainInv, EarlierCompleted, EndsAt
    <3>3. PICK j \in JobIds : Exists(jobs[j]) /\ jobs[j].kind = t
      BY <3>2 DEF ChainReady, ChainInv, CompletedByJobs
    <3>4. Done(jobs[j])
      BY <1>1, <1>2, <1>4, <3>1, <3>3 DEF Calm, ChainReady, ChainInv, OneAtATime
    <3>5. RowTold(jobs[j], taskStatus)
      OBVIOUS
    <3>6. QED
      BY <3>3, <3>4, <3>5 DEF RowTold, Done
  <2>2. \A t \in Tasks : taskStatus[t] = "completed"
    BY <1>2, <1>4, <2>1
  <2>3. QED
    BY <1>4, <2>2 DEF Verdict, Rows
<1>5. QED
  BY <1>1, <1>2, <1>3, <1>4, Reporters

(* What the run says of a job that has reported is not changed by another. *)
LEMMA StatusStays ==
    ASSUME NEW Last, EndsAt(Last), ChainReady, SettledInv, Next, Calm', NEW i \in JobIds,
           \/ jobs[i].pc \in {"error", "notify", "review", "return"} /\ Tells(Last, jobs[i])
           \/ jobs[i].state = "completed" /\ jobs[i].kind = Last
           \/ jobs[i].state = "discarded"
    PROVE  runStatus' = runStatus
<1>1. /\ TypeOK /\ Consistent /\ ExecutionSound /\ RunCreatedFirst /\ PlansHeld
  BY DEF ChainReady, ChainInv, Consistent
<1>2. api.pc = "idle" /\ budget.crashes = 0
  BY CalmBefore DEF Calm
<1>3. Exists(jobs[i]) /\ jobs[i].pc # "status"
  BY <1>1 DEF ExecutionSound, Exists
<1>4. creator = "finished"
  BY <1>1, <1>3 DEF RunCreatedFirst, Exists
<1>5. AtFront(Last, jobs[i])
  <2>1. jobs[i].pc # "idle" => jobs[i].state = "running"
    BY <1>1 DEF ExecutionSound
  <2>2. jobs[i].state = "discarded" => ~Done(jobs[i])
    BY <2>1 DEF Done, Past, ReportPlaces
  <2>3. jobs[i].pc \in {"error", "notify", "review", "return"} /\ jobs[i].plan.mark = "failed"
           => ~Done(jobs[i])
    BY <2>1 DEF Done
  <2>4. QED
    BY <1>3, <2>2, <2>3 DEF AtFront, Tells
<1>6. ASSUME NEW j \in JobIds, CheckWriteStatus(j) PROVE FALSE
  <2>1. jobs[j].pc = "status" /\ jobs[j].state = "running"
    BY <1>1, <1>6, StatusEffect
  <2>2. jobs[j].plan.mark = "failed" \/ jobs[j].kind = Last
    BY <1>1, <2>1, Reporters DEF Past, ReportPlaces
  <2>3. AtFront(Last, jobs[j])
    BY <2>1, <2>2 DEF AtFront, Done, Exists
  <2>4. i = j
    BY <1>2, <1>5, <2>3, FrontIsOne
  <2>5. QED
    BY <1>3, <2>1, <2>4
<1>7. QED
  BY <1>1, <1>2, <1>4, <1>6, StatusFrame

(* The steps of a calm run that leave a job where it has nothing to tell.  *)
LEMMA QuietCases ==
    ASSUME NEW Last, EndsAt(Last), ChainReady, SettledInv, Next, Calm', NEW i \in JobIds,
           jobs'[i] # jobs[i], ~Reports(i), ~Return(i)
    PROVE  /\ jobs'[i].pc \notin Reporting /\ jobs'[i].pc # "review"
           /\ jobs'[i].state \in {"available", "running"}
           /\ jobs'[i].pc = "return" => ~Tells(Last, jobs'[i])
<1> DEFINE Goal == /\ jobs'[i].pc \notin Reporting /\ jobs'[i].pc # "review"
                   /\ jobs'[i].state \in {"available", "running"}
                   /\ jobs'[i].pc = "return" => ~Tells(Last, jobs'[i])
<1> SUFFICES Goal
  OBVIOUS
<1>1. /\ TypeOK /\ Consistent /\ ExecutionSound /\ RunCreatedFirst /\ PlansHeld
      /\ jobs[i].kind \in Tasks /\ jobs[i].plan \in Plan /\ IsChain(Tasks)
  BY DEF ChainReady, ChainInv, Consistent, TypeOK, Job, EndsAt
<1>2. ~Timeout(i) /\ ~Crash(i) /\ budget.crashes = 0
  BY CalmBefore DEF Calm
<1>3. ASSUME jobs'[i].pc \in {"idle", "body", "chain", "check"},
             jobs'[i].state \in {"available", "running"}
      PROVE  Goal
  BY <1>3 DEF Reporting
<1>4. CASE JobInserted(i)
  BY <1>1, <1>3, <1>4, EnqueueEffect, ChainInsertEffect, SpawnEffect DEF JobInserted, Inserted
<1>5. CASE StartTask(i) \/ (\E t \in Spawns[jobs[i].kind], n \in JobIds : Spawn(i, t, n))
  <2>1. jobs'[i].pc = "body" /\ jobs'[i].state = "running"
    BY <1>1, <1>5, StartEffect, SpawnEffect DEF Stays
  <2>2. QED
    BY <1>3, <2>1
<1>6. ASSUME Rescue(i) PROVE FALSE
  BY <1>1, <1>2, <1>6, RescueEffect DEF ChainReady, ChainInv, OneAtATime
<1>7. ASSUME NEW p \in Plans[jobs[i].kind], MarkTask(i, p) PROVE Goal
  <2>1. p \in Plan /\ jobs'[i].pc = AfterMark(p) /\ jobs'[i].state = "running"
    BY <1>1, <1>7, MarkEffect DEF Stays
  <2>2. AfterMark(p) \in {"chain", "check"}
    BY <1>1, <2>1, PlanOfWorker
  <2>3. QED
    BY <1>3, <2>1, <2>2
<1>8. CASE ChainLost(i) \/ \E n \in JobIds : ChainInsert(i, n)
  <2>1. /\ jobs[i].pc = "chain" /\ jobs'[i].state = "running"
        /\ jobs'[i].kind = jobs[i].kind /\ jobs'[i].plan = ChainRest(jobs[i].plan)
        /\ jobs'[i].pc = AfterMark(ChainRest(jobs[i].plan))
    BY <1>1, <1>8, ChainLostEffect, ChainInsertEffect DEF Stays
  <2>2. jobs'[i].pc = "return" /\ jobs'[i].plan.mark = "completed"
    BY <1>1, <2>1, ChainLeft
  <2>3. jobs[i].kind # Last
    <3>1. jobs[i].plan \in Plans[jobs[i].kind] /\ jobs[i].plan.chain # <<>>
      BY <1>1, <2>1 DEF PlansHeld, PlanHeld
    <3>2. QED
      BY <1>1, <3>1, PlanOfWorker
  <2>4. QED
    BY <2>1, <2>2, <2>3 DEF Tells, Reporting
<1>9. QED
  BY <1>1, <1>2, <1>4, <1>5, <1>6, <1>7, <1>8, JobCases DEF JobMoves

LEMMA StatusToldStep ==
    ASSUME NEW Last, EndsAt(Last), ChainReady, SettledInv, Told(Last), Next, Calm',
           NEW i \in JobIds
    PROVE  StatusTold(Last, jobs'[i], runStatus')
<1> DEFINE Goal == StatusTold(Last, jobs'[i], runStatus')
<1> SUFFICES Goal
  OBVIOUS
<1>1. /\ TypeOK /\ Consistent /\ ExecutionSound /\ RunCreatedFirst /\ PlansHeld
      /\ jobs[i].kind \in Tasks /\ jobs[i].plan \in Plan
  BY DEF ChainReady, ChainInv, Consistent, TypeOK, Job
<1>2. Calm /\ ~Errs(i) /\ ~Fault
  BY CalmBefore
<1>3. StatusTold(Last, jobs[i], runStatus)
  BY <1>2 DEF Told
<1>4. CASE jobs'[i] = jobs[i]
  BY <1>3, <1>4, StatusStays DEF StatusTold
<1>5. CASE jobs'[i] # jobs[i] /\ ~Reports(i) /\ ~Return(i)
  <2>1. /\ jobs'[i].pc \notin Reporting /\ jobs'[i].pc # "review"
        /\ jobs'[i].state \in {"available", "running"}
        /\ jobs'[i].pc = "return" => ~Tells(Last, jobs'[i])
    BY <1>5, QuietCases
  <2>2. QED
    BY <2>1 DEF StatusTold, Reporting
<1>6. CASE Reports(i)
  <2>1. /\ jobs'[i].state = "running" /\ jobs'[i].kind = jobs[i].kind
        /\ jobs'[i].plan = jobs[i].plan
    BY <1>1, <1>6, ReportEffect DEF Stays
  <2>2. ASSUME jobs[i].pc \in ReportPlaces
        PROVE  Tells(Last, jobs[i]) /\ jobs[i].plan.mark \in {"completed", "failed"}
    BY <1>1, <2>2, Reporters DEF Tells, Past
  <2>3. CASE CheckRead(i)
    <3>1. jobs[i].pc = "check"
      BY <2>3 DEF CheckRead
    <3>2. Verdict = jobs[i].plan.mark
      BY <1>2, <3>1, CheckSees DEF Told
    <3>3. Verdict # "none"
      BY <2>2, <3>1, <3>2 DEF ReportPlaces
    <3>4. jobs'[i].verdict = Verdict /\ jobs'[i].pc = "status"
      BY <1>1, <1>2, <2>3, <3>3, CheckReadEffect
    <3>5. QED
      BY <2>1, <3>2, <3>4 DEF StatusTold
  <2>4. CASE CheckWriteStatus(i)
    <3>1. /\ jobs[i].pc = "status" /\ jobs'[i].pc \in {"error", "notify"}
          /\ jobs'[i].verdict = jobs[i].verdict /\ runStatus' = jobs[i].verdict
      BY <1>1, <1>2, <2>4, StatusEffect
    <3>2. QED
      BY <1>3, <2>1, <3>1 DEF StatusTold, Reporting
  <2>5. CASE CheckWriteError(i)
    <3>1. /\ jobs[i].pc = "error" /\ jobs'[i].pc = "notify"
          /\ jobs'[i].verdict = jobs[i].verdict /\ runStatus' = runStatus
      BY <1>1, <2>5, ErrorEffect
    <3>2. QED
      BY <1>3, <2>1, <3>1 DEF StatusTold, Reporting, Tells
  <2>6. CASE CheckNotify(i) \/ AskReview(i)
    <3>1. AfterCheck(jobs[i].plan) \in {"review", "return"}
      BY DEF AfterCheck
    <3>2. /\ jobs[i].pc \in {"notify", "review"} /\ jobs'[i].pc \in {"review", "return"}
          /\ runStatus' = runStatus
      BY <1>1, <2>6, <3>1, NotifyEffect, ReviewEffect
    <3>3. QED
      BY <1>3, <2>1, <3>2 DEF StatusTold, Reporting, Tells
  <2>7. QED
    BY <1>6, <2>3, <2>4, <2>5, <2>6 DEF Reports
<1>7. CASE Return(i)
  <2>1. /\ jobs[i].pc = "return" /\ jobs'[i].pc = "idle" /\ jobs'[i].kind = jobs[i].kind
        /\ jobs'[i].state = IF jobs[i].plan.mark # "failed" THEN "completed"
                            ELSE IF jobs[i].attempt < MaxAttempts THEN "available"
                            ELSE "discarded"
        /\ runStatus' = runStatus
    BY <1>1, <1>7, ReturnEffect DEF runVars
  <2>2. jobs[i].plan.mark \in {"completed", "failed"}
    BY <1>1, <2>1, Reporters DEF Past
  <2>3. Tells(Last, jobs[i]) => runStatus = jobs[i].plan.mark
    BY <1>3, <2>1 DEF StatusTold
  <2>4. jobs'[i].state = "completed" => jobs[i].plan.mark = "completed"
    BY <2>1, <2>2
  <2>5. jobs'[i].state = "discarded" => jobs[i].plan.mark = "failed"
    BY <2>1
  <2>6. QED
    BY <2>1, <2>3, <2>4, <2>5 DEF StatusTold, Tells, Reporting
<1>8. QED
  BY <1>4, <1>5, <1>6, <1>7

LEMMA SentToldStep ==
    ASSUME NEW Last, EndsAt(Last), ChainReady, SettledInv, Told(Last), Next, Calm',
           NEW i \in JobIds, MaxCount > 0
    PROVE  SentTold(Last, jobs'[i], sent')
<1> DEFINE Goal == SentTold(Last, jobs'[i], sent')
<1> SUFFICES Goal
  OBVIOUS
<1>1. /\ TypeOK /\ Consistent /\ ExecutionSound /\ RunCreatedFirst /\ PlansHeld
      /\ jobs[i].kind \in Tasks /\ jobs[i].plan \in Plan
  BY DEF ChainReady, ChainInv, Consistent, TypeOK, Job
<1>2. Calm /\ ~Errs(i) /\ ~Fault
  BY CalmBefore
<1>3. SentTold(Last, jobs[i], sent) /\ StatusTold(Last, jobs[i], runStatus)
  BY <1>2 DEF Told
<1>4. ASSUME NEW m \in Sent, sent[m] > 0 PROVE sent'[m] > 0
  <2>1. sent[m] \in Nat /\ sent'[m] \in Nat /\ sent[m] <= sent'[m]
    BY <1>1, SentGrows
  <2>2. QED
    BY <1>4, <2>1
<1>5. {"completed", "failed", "review"} = Sent
  BY DEF Sent
<1>6. jobs[i].plan.mark \in Sent
  BY <1>1, <1>5 DEF Plan
<1>7. CASE jobs'[i] = jobs[i]
  BY <1>3, <1>4, <1>5, <1>6, <1>7 DEF SentTold
<1>8. CASE jobs'[i] # jobs[i] /\ ~Reports(i) /\ ~Return(i)
  <2>1. /\ jobs'[i].pc # "review" /\ jobs'[i].state \in {"available", "running"}
        /\ jobs'[i].pc = "return" => ~Tells(Last, jobs'[i])
    BY <1>8, QuietCases
  <2>2. QED
    BY <2>1 DEF SentTold, Tells
<1>9. CASE Reports(i)
  <2>1. /\ jobs'[i].state = "running" /\ jobs'[i].kind = jobs[i].kind
        /\ jobs'[i].plan = jobs[i].plan
    BY <1>1, <1>9, ReportEffect DEF Stays
  <2>2. CASE CheckRead(i)
    <3>1. jobs[i].pc = "check"
      BY <2>2 DEF CheckRead
    <3>2. Verdict = jobs[i].plan.mark
      BY <1>2, <3>1, CheckSees DEF Told
    <3>3. Verdict # "none"
      BY <1>5, <1>6, <3>2
    <3>4. jobs'[i].pc = "status"
      BY <1>1, <1>2, <2>2, <3>3, CheckReadEffect
    <3>5. QED
      BY <2>1, <3>4 DEF SentTold
  <2>3. CASE CheckWriteStatus(i) \/ CheckWriteError(i)
    <3>1. jobs'[i].pc \in {"error", "notify"}
      BY <1>1, <2>3, StatusEffect, ErrorEffect
    <3>2. QED
      BY <2>1, <3>1 DEF SentTold
  <2>4. CASE CheckNotify(i)
    <3>1. /\ jobs[i].pc = "notify" /\ Send(i, jobs[i].verdict)
          /\ jobs'[i].pc = AfterCheck(jobs[i].plan)
      BY <1>1, <2>4, NotifyEffect
    <3>2. jobs[i].verdict = jobs[i].plan.mark
      BY <1>3, <3>1 DEF StatusTold, Reporting
    <3>3. sent'[jobs[i].plan.mark] > 0
      BY <1>1, <1>2, <1>6, <3>1, <3>2, SendEffect
    <3>4. jobs[i].plan.mark = "completed" => jobs'[i].pc = "review"
      BY <1>1, <3>1, Reporters DEF AfterCheck, Past, ReportPlaces
    <3>5. QED
      BY <2>1, <3>3, <3>4 DEF SentTold
  <2>5. CASE AskReview(i)
    <3>1. jobs[i].pc = "review" /\ jobs'[i].pc = "return" /\ Send(i, "review")
      BY <1>1, <2>5, ReviewEffect
    <3>2. sent'["review"] > 0
      BY <1>1, <1>2, <1>5, <3>1, SendEffect
    <3>3. Tells(Last, jobs[i]) => sent'[jobs[i].plan.mark] > 0
      BY <1>3, <1>4, <1>6, <3>1 DEF SentTold
    <3>4. QED
      BY <2>1, <3>1, <3>2, <3>3 DEF SentTold, Tells
  <2>6. QED
    BY <1>9, <2>2, <2>3, <2>4, <2>5 DEF Reports
<1>10. CASE Return(i)
  <2>1. /\ jobs[i].pc = "return" /\ jobs'[i].pc = "idle" /\ jobs'[i].kind = jobs[i].kind
        /\ jobs'[i].state = IF jobs[i].plan.mark # "failed" THEN "completed"
                            ELSE IF jobs[i].attempt < MaxAttempts THEN "available"
                            ELSE "discarded"
        /\ sent' = sent
    BY <1>1, <1>10, ReturnEffect DEF runVars
  <2>2. jobs[i].plan.mark \in {"completed", "failed"}
    BY <1>1, <2>1, Reporters DEF Past
  <2>3. Tells(Last, jobs[i]) => sent[jobs[i].plan.mark] > 0
    BY <1>3, <2>1 DEF SentTold
  <2>4. jobs[i].plan.mark = "completed" /\ jobs[i].kind = Last
           => sent["completed"] > 0 /\ sent["review"] > 0
    BY <1>3, <2>1 DEF SentTold
  <2>5. jobs'[i].state = "completed" => jobs[i].plan.mark = "completed"
    BY <2>1, <2>2
  <2>6. jobs'[i].state = "discarded" => jobs[i].plan.mark = "failed"
    BY <2>1
  <2>7. QED
    BY <2>1, <2>3, <2>4, <2>5, <2>6 DEF SentTold, Tells
<1>11. QED
  BY <1>7, <1>8, <1>9, <1>10

LEMMA WorkGoesOnStep ==
    ASSUME NEW Last, EndsAt(Last), ChainReady, WorkGoesOn(Last), Next
    PROVE  WorkGoesOn(Last)'
<1> DEFINE Goal == \E k \in JobIds : AtFront(Last, jobs'[k])
<1>1. SUFFICES ASSUME budget'.faults = 0, creator' = "finished" PROVE Goal
  BY DEF WorkGoesOn
<1>2. /\ TypeOK /\ Consistent /\ ExecutionSound /\ RunCreatedFirst /\ PlansHeld /\ Unhurt
      /\ IsChain(Tasks)
  BY DEF ChainReady, ChainInv, Consistent, EndsAt
<1>3. ASSUME NEW n \in JobIds, NEW t, Inserted(jobs'[n], t) PROVE Goal
  BY <1>3 DEF AtFront, Inserted, Exists, Done, Past, ReportPlaces
<1>4. ASSUME NEW n \in JobIds, EnqueueEntry(n) PROVE Goal
  BY <1>2, <1>3, <1>4, EnqueueEffect
<1>5. CASE creator # "finished"
  <2>1. \E n \in JobIds : EnqueueEntry(n)
    BY <1>1, <1>5, ZenonT(40) DEF Next, Create, CreateRun, CreateTask, CreateAborts,
       Work, StartTask, Spawn, WorkStatement, MarkTask, ChainInsert, ChainLost, CheckRead,
       CheckWriteStatus, CheckWriteError, CheckNotify, AskReview, Return, Timeout, Crash,
       Rescue, Retry, RetryRead, RetryResetTask, RetrySetRunning, Rest, vars
  <2>2. QED
    BY <1>4, <2>1
<1>6. CASE creator = "finished"
  <2>1. budget.faults = 0
    BY <1>1, <1>2, BudgetGrows DEF TypeOK, Budget
  <2>2. PICK j \in JobIds : AtFront(Last, jobs[j])
    BY <1>6, <2>1 DEF WorkGoesOn
  <2>3. ~Errs(j) /\ ~Fault
    BY <1>1, <1>2, CalmStatements
  <2>4. /\ Exists(jobs[j]) /\ Exists(jobs'[j]) /\ jobs'[j].kind = jobs[j].kind
        /\ jobs[j].kind \in Tasks
    BY <1>2, <2>2, KindsKept DEF AtFront, TypeOK, Job
  <2>5. ASSUME ~Done(jobs'[j]) \/ jobs'[j].kind = Last PROVE Goal
    BY <2>4, <2>5 DEF AtFront
  <2>6. CASE jobs[j].kind = Last
    BY <2>4, <2>5, <2>6
  <2>7. CASE ~Done(jobs[j])
    <3> HIDE DEF Goal
    <3>1. CASE jobs'[j] = jobs[j]
      BY <2>5, <2>7, <3>1
    <3>2. JobInserted(j) => jobs[j].state = "none"
      BY <1>2, EnqueueEffect, ChainInsertEffect, SpawnEffect DEF JobInserted
    <3>3. ASSUME NEW n \in JobIds, ChainInsert(j, n) PROVE Goal
      BY <1>2, <1>3, <3>3, ChainInsertEffect
    <3>4. ~ChainLost(j) /\ ~Timeout(j)
      BY <2>3 DEF ChainLost, Timeout
    <3>5. ASSUME NEW p \in Plans[jobs[j].kind], MarkTask(j, p) PROVE Goal
      <4>1. /\ p \in Plan /\ jobs'[j].pc = AfterMark(p) /\ jobs'[j].plan = p
            /\ jobs'[j].state = "running"
        BY <1>2, <3>5, MarkEffect DEF Stays
      <4>2. CASE p.chain # <<>>
        <5>1. jobs'[j].pc = "chain"
          BY <2>4, <4>1, <4>2, PlanOfWorker
        <5>2. QED
          BY <2>5, <4>1, <5>1 DEF Done, Past, ReportPlaces
      <4>3. CASE p.chain = <<>>
        <5>1. p.mark = "completed" => jobs[j].kind = Last
          BY <2>4, <4>1, <4>3, PlanOfWorker
        <5>2. QED
          BY <2>4, <2>5, <4>1, <5>1 DEF Done
      <4>4. QED
        BY <4>2, <4>3
    <3>6. CASE Reports(j)
      <4>1. /\ jobs[j].pc \in Past /\ jobs'[j].plan = jobs[j].plan
            /\ jobs'[j].state = "running"
        BY <1>2, <3>6, ReportEffect DEF Past, Stays
      <4>2. QED
        BY <2>5, <2>7, <4>1 DEF Done
    <3>7. CASE Return(j)
      <4>1. /\ jobs[j].pc = "return" /\ jobs'[j].pc = "idle"
            /\ jobs'[j].state = "completed" => jobs[j].plan.mark # "failed"
        BY <1>2, <3>7, ReturnEffect
      <4>2. jobs[j].plan.mark \in {"completed", "failed"} /\ jobs[j].pc \in Past
        BY <1>2, <4>1, Reporters DEF Past
      <4>3. jobs[j].plan.mark = "failed"
        BY <2>7, <4>2 DEF Done
      <4>4. QED
        BY <2>5, <4>1, <4>3 DEF Done, Past, ReportPlaces
    <3>8. CASE \/ StartTask(j) \/ (\E t \in Spawns[jobs[j].kind], n \in JobIds : Spawn(j, t, n))
               \/ Crash(j) \/ Rescue(j)
      <4>1. /\ jobs'[j].pc \in {"body", "lost", "idle"}
            /\ jobs'[j].state # "completed"
        BY <1>2, <3>8, StartEffect, SpawnEffect, CrashEffect, RescueEffect DEF Stays
      <4>2. QED
        BY <2>5, <4>1 DEF Done, Past, ReportPlaces
    <3>9. QED
      BY <1>2, <2>4, <3>1, <3>2, <3>3, <3>4, <3>5, <3>6, <3>7, <3>8, JobCases
         DEF JobMoves, Exists
  <2>8. QED
    BY <2>2, <2>6, <2>7 DEF AtFront
<1>7. QED
  BY <1>5, <1>6

-----------------------------------------------------------------------------
(* The invariant of the run's end, and what follows when nothing is left.  *)
EndInv(Last) == SettledInv /\ Told(Last) /\ WorkGoesOn(Last)

LEMMA EndInit ==
    ASSUME NEW Last, Init
    PROVE  EndInv(Last)
<1>1. \A j \in JobIds : jobs[j] = NoJob
  BY DEF Init
<1>2. Told(Last)
  BY <1>1 DEF Told, RowTold, StatusTold, SentTold, NoJob, Past, ReportPlaces, Reporting
<1>3. WorkGoesOn(Last)
  BY DEF Init, WorkGoesOn
<1>4. QED
  BY <1>2, <1>3, SettledInit DEF EndInv

LEMMA EndStep ==
    ASSUME NEW Last, EndsAt(Last), ChainReady, EndInv(Last), [Next]_vars
    PROVE  EndInv(Last)'
<1>1. SettledInv /\ Told(Last) /\ WorkGoesOn(Last)
  BY DEF EndInv
<1>2. SettledInv'
  BY <1>1, SettledStep
<1>3. ASSUME Next PROVE Told(Last)'
  <2>1. SUFFICES ASSUME Calm', NEW i \in JobIds
                 PROVE  /\ RowTold(jobs'[i], taskStatus')
                        /\ StatusTold(Last, jobs'[i], runStatus')
                        /\ MaxCount > 0 => SentTold(Last, jobs'[i], sent')
    BY DEF Told
  <2>2. RowTold(jobs[i], taskStatus)
    BY <1>1, <1>3, <2>1, CalmBefore DEF Told
  <2>3. RowTold(jobs'[i], taskStatus')
    <3>1. jobs'[i].kind \in Tasks /\ IsChain(Tasks) /\ NobodyRetries
      BY <1>1, <1>3, TypeStep DEF ChainReady, Consistent, TypeOK, Job, EndsAt, SettledInv
    <3>2. QED
      BY <1>3, <2>1, <2>2, <3>1, RowToldStep DEF ChainReady
  <2>4. QED
    BY <1>1, <1>3, <2>1, <2>3, StatusToldStep, SentToldStep
<1>4. CASE UNCHANGED vars
  BY <1>1, <1>2, <1>4 DEF vars, EndInv, Told, Calm, WorkGoesOn
<1>5. QED
  BY <1>1, <1>2, <1>3, <1>4, WorkGoesOnStep DEF EndInv

(* When nothing is left to run, the job at the front is over: discarded,   *)
(* or the last one and completed.                                          *)
LEMMA AtRest ==
    ASSUME NEW Last, EndsAt(Last), ChainReady, EndInv(Last), Calm,
           Quiescent, creator = "finished"
    PROVE  \E j \in JobIds : \/ jobs[j].state = "discarded"
                             \/ jobs[j].state = "completed" /\ jobs[j].kind = Last
<1>1. PICK j \in JobIds : AtFront(Last, jobs[j])
  BY DEF EndInv, WorkGoesOn, Calm
<1>2. jobs[j].state \in {"completed", "discarded"}
  BY <1>1 DEF AtFront, Exists, Quiescent, ChainReady, TypeOK, Job, JobState
<1>3. QED
  BY <1>1, <1>2 DEF AtFront, Done

LEMMA EndIsSynchronised ==
    ASSUME NEW Last, EndsAt(Last), ChainReady, EndInv(Last)
    PROVE  Synchronised
<1>1. SUFFICES ASSUME Quiescent, creator = "finished", Calm
               PROVE  /\ Discarded = {} => runStatus = "completed"
                      /\ Discarded # {} => runStatus = "failed"
  BY DEF Synchronised, Calm
<1>2. \A j \in JobIds : StatusTold(Last, jobs[j], runStatus)
  BY <1>1 DEF EndInv, Told
<1>3. PICK j \in JobIds : \/ jobs[j].state = "discarded"
                          \/ jobs[j].state = "completed" /\ jobs[j].kind = Last
  BY <1>1, AtRest
<1>4. QED
  BY <1>2, <1>3 DEF StatusTold, Discarded

LEMMA EndIsAnnounced ==
    ASSUME NEW Last, EndsAt(Last), ChainReady, EndInv(Last), MaxCount > 0
    PROVE  OutcomeIsAnnounced
<1>1. SUFFICES ASSUME Quiescent, creator = "finished", Calm
               PROVE  /\ runStatus = "completed" => sent["completed"] > 0 /\ sent["review"] > 0
                      /\ Discarded # {} => sent["failed"] > 0
  BY DEF OutcomeIsAnnounced, Calm
<1>2. \A j \in JobIds : StatusTold(Last, jobs[j], runStatus) /\ SentTold(Last, jobs[j], sent)
  BY <1>1 DEF EndInv, Told
<1>3. PICK j \in JobIds : \/ jobs[j].state = "discarded"
                          \/ jobs[j].state = "completed" /\ jobs[j].kind = Last
  BY <1>1, AtRest
<1>4. QED
  BY <1>2, <1>3 DEF StatusTold, SentTold, Discarded

(* A run in which nothing fails, crashes or is retried does not stop       *)
(* silently: when nothing is left of it to run it says completed if River  *)
(* has given up on no job, and failed if it has given up on one.           *)
THEOREM RunTellsItsEnd ==
    ASSUME NEW Last, EndsAt(Last)
    PROVE  Spec => []Synchronised
<1>1. IsChain(Tasks)
  BY DEF EndsAt
<1>2. Init => ChainInv(Tasks) /\ EndInv(Last)
  BY ChainInit, EndInit
<1>3. TypeOK /\ Consistent /\ ChainInv(Tasks) /\ EndInv(Last) /\ [Next]_vars
         => ChainInv(Tasks)' /\ EndInv(Last)'
  BY <1>1, ChainStep, EndStep DEF ChainReady
<1>4. TypeOK /\ Consistent /\ ChainInv(Tasks) /\ EndInv(Last) => Synchronised
  BY EndIsSynchronised DEF ChainReady
<1>5. QED
  BY <1>2, <1>3, <1>4, TypeCorrect, VerdictsAreCovered, PTL DEF Spec
=============================================================================
