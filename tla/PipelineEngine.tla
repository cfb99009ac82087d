--------------------------- MODULE PipelineEngine ---------------------------
(***************************************************************************)
(* The machinery every Neuco background pipeline runs on, for one run:     *)
(*   - the rows pipeline_runs / pipeline_tasks (internal/store),           *)
(*   - the helpers every worker calls around its own work: StartTask,      *)
(*     CompleteTask, FailTask, CheckPipelineCompletion (internal/jobs),    *)
(*   - River, the job queue in Postgres (external): at-least-once          *)
(*     execution, retries, the rescue of jobs whose executor died,         *)
(*   - the RetryPipeline endpoint (internal/api/handlers).                 *)
(*                                                                         *)
(* A pipeline is a set of workers, one per task.  What a worker does around*)
(* its own work is a Plan: how it marks its task, which workers' jobs it   *)
(* inserts next, whether it runs the completion check and asks for a       *)
(* copilot review.  Plans[t] is the set of plans worker t may end up with, *)
(* Spawns[t] the workers whose jobs it inserts while it works; the         *)
(* pipelines of the repository give them their values.  Every database     *)
(* statement is a step of its own.                                         *)
(***************************************************************************)
EXTENDS Naturals, Sequences

CONSTANTS
    Tasks,        \* the names of the run's pipeline_tasks rows
    SortOrder,    \* their sort_order column
    Entry,        \* the worker whose job the creator of the run inserts
    Plans,        \* what each worker may decide to do, see Plan
    Spawns,       \* whose jobs each worker inserts in the middle of its work
    JobIds,       \* bound: the river_job IDs this run may use
    MaxSpawns,    \* bound: jobs one execution inserts in the middle of its work
    MaxAttempts,  \* River's max_attempts of a job
    MaxCrashes,   \* bound: executions whose process dies or panics
    MaxFaults,    \* bound: statements that fail and contexts that expire
    MaxRetries,   \* bound: calls of RetryPipeline
    MaxTroubles,  \* bound: crashes, faults and retries together
    MaxCount      \* bound: what a run sends is counted up to it

RunStatus  == {"none", "pending", "running", "completed", "failed"}
TaskStatus == {"absent", "pending", "running", "completed", "failed"}

(* mark: the helper called on the task; chain: the jobs inserted after it; *)
(* check: whether CheckPipelineCompletion follows; review: whether a job   *)
(* for the copilot is inserted last.  Work returns an error to River       *)
(* exactly when it marked its task failed.                                 *)
Plan == [mark : {"completed", "failed"}, chain : Seq(Tasks),
         check : BOOLEAN, review : BOOLEAN]

Chains(next)  == [mark |-> "completed", chain |-> <<next>>,
                  check |-> FALSE, review |-> FALSE]
Finishes      == [mark |-> "completed", chain |-> <<>>,
                  check |-> TRUE, review |-> FALSE]
FinishesAndAsks == [Finishes EXCEPT !.review = TRUE]
Fails         == [mark |-> "failed", chain |-> <<>>,
                  check |-> FALSE, review |-> FALSE]
FailsAndTells == [Fails EXCEPT !.check = TRUE]
NoPlan        == [Finishes EXCEPT !.check = FALSE]

ASSUME EngineAssumption ==
    /\ SortOrder \in [Tasks -> Nat]
    /\ Entry \in Tasks
    /\ Plans \in [Tasks -> SUBSET Plan]
    /\ Spawns \in [Tasks -> SUBSET Tasks]
    /\ JobIds \in SUBSET Nat
    /\ MaxAttempts \in Nat \ {0}
    /\ MaxSpawns \in Nat
    /\ MaxCrashes \in Nat
    /\ MaxFaults \in Nat
    /\ MaxRetries \in Nat
    /\ MaxTroubles \in Nat
    /\ MaxCount \in Nat

VARIABLES
    runStatus,      \* pipeline_runs.status ("none": no row yet)
    runError,       \* whether pipeline_runs.error is set
    taskStatus,     \* pipeline_tasks.status ("absent": no row yet)
    jobs,           \* the river_job rows and their current execution
    creator,        \* how far the code that creates the run got
    api,            \* the one RetryPipeline call in progress
    sent,           \* notifications and copilot reviews the run asked for
    budget,         \* how much of the bounds is used
    everCompleted,  \* history: tasks whose row has ever been 'completed'
    everFailed      \* history: whether a task's row has ever been 'failed'

rowVars  == <<taskStatus, everCompleted, everFailed>>
runVars  == <<runStatus, runError, sent>>
vars == <<runStatus, runError, taskStatus, jobs, creator, api, sent, budget,
          everCompleted, everFailed>>

-----------------------------------------------------------------------------
(* River's view of a job, and where its execution is in Work.              *)
JobState == {"none", "available", "running", "completed", "discarded"}
Working  == {"body", "chain", "check", "status", "error",
             "notify", "review", "return"}
Job == [state   : JobState,
        kind    : Tasks,                 \* the worker that runs it
        tracked : BOOLEAN,               \* TaskID # uuid.Nil
        attempt : 0 .. MaxAttempts,
        pc      : Working \cup {"idle", "lost"},
        ctx     : {"live", "done"},      \* River cancels it on timeout
        spawned : 0 .. MaxSpawns,
        plan    : Plan,
        verdict : {"none", "completed", "failed"}]

NoJob == [state |-> "none", kind |-> Entry, tracked |-> TRUE, attempt |-> 0,
          pc |-> "idle", ctx |-> "live", spawned |-> 0, plan |-> NoPlan, verdict |-> "none"]

NewJob(t, tracked) ==
    [NoJob EXCEPT !.state = "available", !.kind = t, !.tracked = tracked]

(* river_job.id is a bigserial: IDs are given out in increasing order.     *)
IsNextId(n) ==
    /\ jobs[n].state = "none"
    /\ \A m \in JobIds : m < n => jobs[m].state # "none"

Sent == {"completed", "failed", "review"}
Budget == [crashes : 0 .. MaxCrashes, faults : 0 .. MaxFaults,
           retries : 0 .. MaxRetries]

TypeOK ==
    /\ runStatus \in RunStatus
    /\ runError \in BOOLEAN
    /\ taskStatus \in [Tasks -> TaskStatus]
    /\ jobs \in [JobIds -> Job]
    /\ creator \in {"run", "tasks", "job", "finished", "aborted"}
    /\ api \in [pc : {"idle", "reset"}, failed : SUBSET Tasks]
    /\ sent \in [Sent -> 0 .. MaxCount]
    /\ budget \in Budget
    /\ everCompleted \in SUBSET Tasks
    /\ everFailed \in BOOLEAN

Init ==
    /\ runStatus = "none"
    /\ runError = FALSE
    /\ taskStatus = [t \in Tasks |-> "absent"]
    /\ jobs = [j \in JobIds |-> NoJob]
    /\ creator = "run"
    /\ api = [pc |-> "idle", failed |-> {}]
    /\ sent = [m \in Sent |-> 0]
    /\ budget = [crashes |-> 0, faults |-> 0, retries |-> 0]
    /\ everCompleted = {}
    /\ everFailed = FALSE

Spare == budget.crashes + budget.faults + budget.retries < MaxTroubles

CanFault == budget.faults < MaxFaults /\ Spare
Fault == CanFault /\ budget' = [budget EXCEPT !.faults = @ + 1]

-----------------------------------------------------------------------------
(* Creating the run: the row, its tasks in sort order, the entry job, each *)
(* by a statement of its own and without a transaction; an error returns   *)
(* at once and leaves what was inserted.                                   *)

CreateRun ==
    /\ creator = "run"
    /\ runStatus' = "pending"
    /\ creator' = "tasks"
    /\ UNCHANGED <<runError, rowVars, jobs, api, sent, budget>>

CreateTask(t) ==
    /\ creator = "tasks"
    /\ taskStatus[t] = "absent"
    /\ \A u \in Tasks : SortOrder[u] < SortOrder[t] => taskStatus[u] # "absent"
    /\ taskStatus' = [taskStatus EXCEPT ![t] = "pending"]
    /\ creator' = IF \A u \in Tasks \ {t} : taskStatus[u] # "absent"
                  THEN "job" ELSE "tasks"
    /\ UNCHANGED <<runVars, jobs, api, budget, everCompleted, everFailed>>

EnqueueEntry(n) ==
    /\ creator = "job"
    /\ IsNextId(n)
    /\ jobs' = [jobs EXCEPT ![n] = NewJob(Entry, TRUE)]
    /\ creator' = "finished"
    /\ UNCHANGED <<runVars, rowVars, api, budget>>

CreateAborts ==
    /\ creator \in {"run", "tasks", "job"}
    /\ Fault
    /\ creator' = "aborted"
    /\ UNCHANGED <<runVars, rowVars, jobs, api>>

-----------------------------------------------------------------------------
(* A statement of the execution of j: it succeeds only while the job's     *)
(* context is live, and even then the database may refuse it.              *)

Succeeds(j) == jobs[j].ctx = "live" /\ UNCHANGED budget
Errs(j) ==
    \/ jobs[j].ctx = "done" /\ UNCHANGED budget
    \/ jobs[j].ctx = "live" /\ Fault

AdvanceTo(j, pc) == jobs' = [jobs EXCEPT ![j].pc = pc]

(* UpdatePipelineTaskStatus on the job's own task, whatever its row says   *)
(* now; a job without a task ID has no row, an error is only logged.       *)
SetTask(j, status) ==
    LET t == jobs[j].kind IN
    \/ /\ jobs[j].tracked
       /\ Succeeds(j)
       /\ taskStatus' = [taskStatus EXCEPT ![t] = status]
       /\ everCompleted' =
              everCompleted \cup (IF status = "completed" THEN {t} ELSE {})
       /\ everFailed' = (everFailed \/ status = "failed")
    \/ jobs[j].tracked /\ Errs(j) /\ UNCHANGED rowVars
    \/ ~jobs[j].tracked /\ UNCHANGED <<budget, rowVars>>

-----------------------------------------------------------------------------
(* River hands an available job to a worker process, whose first statement *)
(* is StartTask.                                                           *)
StartTask(j) ==
    /\ jobs[j].state = "available"
    /\ SetTask(j, "running")
    /\ jobs' = [jobs EXCEPT ![j].state = "running", ![j].pc = "body",
                            ![j].attempt = @ + 1]
    /\ UNCHANGED <<runVars, creator, api>>

(* A mutant: the copilot is asked only by a step that chains nothing and   *)
(* does not check.                                                         *)
AfterCheckOnly(p) == IF p.review /\ ~p.check THEN "review" ELSE "return"

AfterCheck(p) == IF p.review THEN "review" ELSE "return"
AfterMark(p) == IF p.chain # <<>> THEN "chain"
                ELSE IF p.check THEN "check" ELSE AfterCheck(p)

(* A job the work itself inserts, with the task ID it looked up, or        *)
(* without one when the lookup failed.                                     *)
Spawn(j, t, n) ==
    /\ jobs[j].pc = "body"
    /\ t \in Spawns[jobs[j].kind]
    /\ jobs[j].spawned < MaxSpawns
    /\ jobs[j].ctx = "live"
    /\ IsNextId(n)
    /\ \E tracked \in BOOLEAN :
          /\ jobs' = [jobs EXCEPT ![n] = NewJob(t, tracked), ![j].spawned = @ + 1]
          /\ IF tracked THEN UNCHANGED budget ELSE Fault
    /\ UNCHANGED <<runVars, rowVars, creator, api>>

(* A statement of the work itself, whose outcome is the pipeline's affair. *)
WorkStatement(j) ==
    /\ jobs[j].pc = "body"
    /\ Succeeds(j) \/ Errs(j)
    /\ UNCHANGED <<runVars, rowVars, jobs, creator, api>>

(* A mutant: a worker that chains forgets CompleteTask.                    *)
MarkTaskForgotten(j, p) ==
    /\ jobs[j].pc = "body"
    /\ p \in Plans[jobs[j].kind]
    /\ IF p.chain = <<>> THEN SetTask(j, p.mark) ELSE UNCHANGED <<budget, rowVars>>
    /\ jobs' = [jobs EXCEPT ![j].pc = AfterMark(p), ![j].plan = p]
    /\ UNCHANGED <<runVars, creator, api>>

(* The work is over, well or badly, and its task is marked: CompleteTask   *)
(* or FailTask.                                                            *)
MarkTask(j, p) ==
    LET t == jobs[j].kind IN
    /\ jobs[j].pc = "body"
    /\ p \in Plans[t]
    /\ SetTask(j, p.mark)
    /\ jobs' = [jobs EXCEPT ![j].pc = AfterMark(p), ![j].plan = p]
    /\ UNCHANGED <<runVars, creator, api>>

ChainRest(p) == [p EXCEPT !.chain = Tail(@)]

Chained(j) == [jobs EXCEPT ![j].plan = ChainRest(@),
                           ![j].pc = AfterMark(ChainRest(jobs[j].plan))]

(* Inserting the next worker's job: the run is read again for the ID of    *)
(* the next task.  If only that read fails the job is inserted without a   *)
(* task ID.                                                                *)
ChainInsert(j, n) ==
    /\ jobs[j].pc = "chain"
    /\ jobs[j].plan.chain # <<>>
    /\ jobs[j].ctx = "live"
    /\ IsNextId(n)
    /\ \E tracked \in BOOLEAN :
          /\ jobs' = [Chained(j) EXCEPT
                        ![n] = NewJob(Head(jobs[j].plan.chain), tracked)]
          /\ IF tracked THEN UNCHANGED budget ELSE Fault
    /\ UNCHANGED <<runVars, rowVars, creator, api>>

(* The insertion itself fails: logged, and Work carries on.                *)
ChainLost(j) ==
    /\ jobs[j].pc = "chain"
    /\ jobs[j].plan.chain # <<>>
    /\ Errs(j)
    /\ jobs' = Chained(j)
    /\ UNCHANGED <<runVars, rowVars, creator, api>>

-----------------------------------------------------------------------------
(* CheckPipelineCompletion: read the tasks, then write the run's status,   *)
(* its error and a notification by separate statements, from what was read *)
(* and whatever the run's status is by then.                               *)

Rows == {t \in Tasks : taskStatus[t] # "absent"}

(* A mutant: a task that has not started does not count.                   *)
VerdictOfStarted ==
    IF \E t \in Rows : taskStatus[t] = "failed" THEN "failed"
    ELSE IF \A t \in Rows : taskStatus[t] \in {"pending", "completed"} THEN "completed"
    ELSE "none"

Verdict ==
    IF \E t \in Rows : taskStatus[t] = "failed" THEN "failed"
    ELSE IF \A t \in Rows : taskStatus[t] = "completed" THEN "completed"
    ELSE "none"

CheckRead(j) ==
    /\ jobs[j].pc = "check"
    /\ \/ /\ Succeeds(j)
          /\ jobs' = [jobs EXCEPT
                        ![j].verdict = Verdict,
                        ![j].pc = IF Verdict = "none"
                                  THEN AfterCheck(jobs[j].plan) ELSE "status"]
       \/ Errs(j) /\ AdvanceTo(j, AfterCheck(jobs[j].plan))
    /\ UNCHANGED <<runVars, rowVars, creator, api>>

CheckWriteStatus(j) ==
    /\ jobs[j].pc = "status"
    /\ \/ Succeeds(j) /\ runStatus' = jobs[j].verdict
       \/ Errs(j) /\ UNCHANGED runStatus
    /\ AdvanceTo(j, IF jobs[j].verdict = "failed" THEN "error" ELSE "notify")
    /\ UNCHANGED <<runError, sent, rowVars, creator, api>>

CheckWriteError(j) ==
    /\ jobs[j].pc = "error"
    /\ \/ Succeeds(j) /\ runError' = TRUE
       \/ Errs(j) /\ UNCHANGED runError
    /\ AdvanceTo(j, "notify")
    /\ UNCHANGED <<runStatus, sent, rowVars, creator, api>>

(* One more of kind m is sent; its failure is only logged.                 *)
Send(j, m) ==
    \/ Succeeds(j) /\ sent' = [sent EXCEPT ![m] = IF @ < MaxCount THEN @ + 1 ELSE @]
    \/ Errs(j) /\ UNCHANGED sent

CheckNotify(j) ==
    /\ jobs[j].pc = "notify"
    /\ Send(j, jobs[j].verdict)
    /\ AdvanceTo(j, AfterCheck(jobs[j].plan))
    /\ UNCHANGED <<runStatus, runError, rowVars, creator, api>>

AskReview(j) ==
    /\ jobs[j].pc = "review"
    /\ Send(j, "review")
    /\ AdvanceTo(j, "return")
    /\ UNCHANGED <<runStatus, runError, rowVars, creator, api>>

-----------------------------------------------------------------------------
(* River: the end of an execution, its timeout, its loss and its rescue.   *)

(* A mutant: the last attempt is retried too.                              *)
EndedForever(r, failed) ==
    IF failed THEN [NewJob(r.kind, r.tracked) EXCEPT !.attempt = r.attempt]
    ELSE [NoJob EXCEPT !.kind = r.kind, !.state = "completed"]

(* What is left of the row of job r when its execution is over: another    *)
(* attempt keeps its arguments and count, a finished one is not read again.*)
Ended(r, failed) ==
    IF failed /\ r.attempt < MaxAttempts
    THEN [NewJob(r.kind, r.tracked) EXCEPT !.attempt = r.attempt]
    ELSE [NoJob EXCEPT !.kind = r.kind,
                       !.state = IF failed THEN "discarded" ELSE "completed"]

Return(j) ==
    /\ jobs[j].pc = "return"
    /\ jobs' = [jobs EXCEPT ![j] = Ended(@, @.plan.mark = "failed")]
    /\ UNCHANGED <<runVars, rowVars, creator, api, budget>>

Timeout(j) ==
    /\ jobs[j].pc \in Working \ {"return"}
    /\ jobs[j].ctx = "live"
    /\ Fault
    /\ jobs' = [jobs EXCEPT ![j].ctx = "done"]
    /\ UNCHANGED <<runVars, rowVars, creator, api>>

(* The process dies (deploy, OOM) or Work panics: nothing after that point *)
(* runs, and River only learns of it later.                                *)
Crash(j) ==
    /\ budget.crashes < MaxCrashes /\ Spare
    /\ budget' = [budget EXCEPT !.crashes = @ + 1]
    /\ \/ jobs[j].pc \in Working /\ AdvanceTo(j, "lost")
       \/ /\ jobs[j].state = "available"      \* before its first statement
          /\ jobs' = [jobs EXCEPT ![j].state = "running", ![j].pc = "lost",
                                  ![j].attempt = @ + 1]
    /\ UNCHANGED <<runVars, rowVars, creator, api>>

Rescue(j) ==
    /\ jobs[j].pc = "lost"
    /\ jobs' = [jobs EXCEPT ![j] = Ended(@, TRUE)]
    /\ UNCHANGED <<runVars, rowVars, creator, api, budget>>

-----------------------------------------------------------------------------
(* POST /pipelines/{runId}/retry: one read, then a statement per task that *)
(* was failed when it was read, then the run.  No job is inserted.         *)

RetryRead ==
    /\ api.pc = "idle"
    /\ runStatus # "none"
    /\ budget.retries < MaxRetries /\ Spare
    /\ budget' = [budget EXCEPT !.retries = @ + 1]
    /\ api' = [pc |-> "reset", failed |-> {t \in Tasks : taskStatus[t] = "failed"}]
    /\ UNCHANGED <<runVars, rowVars, jobs, creator>>

RetryResetTask(t) ==
    /\ api.pc = "reset"
    /\ t \in api.failed
    /\ \A u \in api.failed : SortOrder[t] <= SortOrder[u]
    /\ api' = [api EXCEPT !.failed = @ \ {t}]
    /\ \/ taskStatus' = [taskStatus EXCEPT ![t] = "pending"] /\ UNCHANGED budget
       \/ UNCHANGED taskStatus /\ Fault
    /\ UNCHANGED <<runVars, everCompleted, everFailed, jobs, creator>>

RetrySetRunning ==
    /\ api.pc = "reset"
    /\ api.failed = {}
    /\ api' = [api EXCEPT !.pc = "idle"]
    /\ \/ runStatus' = "running" /\ UNCHANGED budget
       \/ UNCHANGED runStatus /\ Fault
    /\ UNCHANGED <<runError, sent, rowVars, jobs, creator>>

-----------------------------------------------------------------------------
Quiescent ==
    /\ creator \in {"finished", "aborted"}
    /\ api.pc = "idle"
    /\ \A j \in JobIds : jobs[j].state \notin {"available", "running"}

(* Nothing is left to run: the system may rest here.                       *)
Rest == Quiescent /\ UNCHANGED vars

Create == \/ CreateRun
          \/ \E t \in Tasks : CreateTask(t)
          \/ \E n \in JobIds : EnqueueEntry(n)

(* The steps of one execution of Work, in program order.                   *)
Work(j) ==
    \/ StartTask(j)
    \/ \E t \in Spawns[jobs[j].kind], n \in JobIds : Spawn(j, t, n)
    \/ WorkStatement(j)
    \/ \E p \in Plans[jobs[j].kind] : MarkTask(j, p)
    \/ \E n \in JobIds : ChainInsert(j, n)
    \/ ChainLost(j)
    \/ CheckRead(j)
    \/ CheckWriteStatus(j)
    \/ CheckWriteError(j)
    \/ CheckNotify(j)
    \/ AskReview(j)
    \/ Return(j)

Retry == RetryRead \/ (\E t \in Tasks : RetryResetTask(t)) \/ RetrySetRunning

Next ==
    \/ Create
    \/ CreateAborts
    \/ \E j \in JobIds : Work(j) \/ Timeout(j) \/ Crash(j) \/ Rescue(j)
    \/ Retry
    \/ Rest

Spec == Init /\ [][Next]_vars

(* The worker binary keeps fetching, executing and rescuing jobs.  Nothing *)
(* forces the creator or a user to act, or anything to fail.               *)
Fairness == \A j \in JobIds : WF_vars(Work(j)) /\ WF_vars(Rescue(j))

FairSpec == Spec /\ Fairness
-----------------------------------------------------------------------------
(* Properties. *)

(* A run says "completed" or "failed" only for a reason its tasks gave: the*)
(* helpers, interleaved with retries, crashes and users, implement the     *)
(* promise of PipelineContract.                                            *)
Contract == INSTANCE PipelineContract
                WITH status <- runStatus, completed <- everCompleted,
                     failed <- everFailed

KeepsContract == Contract!ContractSpec

(* Why it does: a verdict that an execution still holds, however stale, is *)
(* one that the tasks of the run gave at some time, all of them.           *)
HistoryKept == \A t \in Tasks :
    /\ taskStatus[t] = "completed" => t \in everCompleted
    /\ taskStatus[t] = "failed" => everFailed

Reporting == {"status", "error", "notify"}

VerdictGiven == \A j \in JobIds :
    /\ jobs[j].verdict = "completed" => everCompleted = Tasks
    /\ jobs[j].verdict = "failed" => everFailed
    /\ jobs[j].pc \in Reporting => jobs[j].verdict # "none"

RunCreatedFirst ==
    /\ runStatus = "none" => creator \in {"run", "aborted"} /\ api.pc = "idle"
    /\ creator = "run" => runStatus = "none"
    /\ creator \in {"job", "finished"} => Rows = Tasks
    /\ \A j \in JobIds : jobs[j].state # "none" => creator = "finished"

ExecutionSound == \A j \in JobIds :
    /\ jobs[j].pc # "idle" => jobs[j].state = "running"
    /\ jobs[j].state = "available" => jobs[j].attempt < MaxAttempts

Consistent == HistoryKept /\ VerdictGiven /\ RunCreatedFirst /\ ExecutionSound

(* The order of the chain: whatever is re-executed, rescued or retried, a  *)
(* worker's job exists only when every task before its own has been        *)
(* completed.                                                              *)
InOrder ==
    budget.faults = 0 =>
        \A j \in JobIds, t \in Tasks :
            jobs[j].state # "none" /\ SortOrder[t] < SortOrder[jobs[j].kind]
                => t \in everCompleted

(* "keep task/run state synchronized": when nothing is left to run, no     *)
(* statement has failed, nothing crashed and no user interfered, the run   *)
(* tells how its jobs ended; it does not stop silently.  (After a crash two*)
(* jobs of a task may be at work, and a verdict that one of them read while*)
(* the other had failed be written when all is well again.)                *)
Discarded == {j \in JobIds : jobs[j].state = "discarded"}

Synchronised ==
    Quiescent /\ creator = "finished" /\ budget.faults = 0
        /\ budget.crashes = 0 /\ budget.retries = 0
        => /\ Discarded = {} => runStatus = "completed"
           /\ Discarded # {} => runStatus = "failed"

(* "and emit notifications on completion/failure": then the user has been  *)
(* told how the run ended, and a completed one goes to the copilot.  (A    *)
(* retry that puts the failed task back to pending before the check has    *)
(* read it leaves nothing to tell.)                                        *)
OutcomeIsAnnounced ==
    Quiescent /\ creator = "finished" /\ budget.faults = 0
        /\ budget.crashes = 0 /\ budget.retries = 0
        => /\ runStatus = "completed" => sent["completed"] > 0 /\ sent["review"] > 0
           /\ Discarded # {} => sent["failed"] > 0

(* Only a crash makes River run a step again whose work was done.          *)
NoStepTwice ==
    budget.crashes = 0 =>
        \A i, j \in JobIds :
            /\ jobs[i].state # "none" /\ jobs[j].state # "none"
            /\ jobs[i].kind = jobs[j].kind
            => i = j

(* ... so without one, and without users, a completed task stays           *)
(* completed, and a completed run too.                                     *)
NoRegress ==
    [][budget.crashes = 0 /\ budget'.retries = 0 =>
          /\ runStatus = "completed" => runStatus' = "completed"
          /\ \A t \in Tasks : taskStatus[t] = "completed"
                                  => taskStatus'[t] = "completed"]_vars

(* "no pipeline is silently lost": once its first job is in the queue, a   *)
(* run is eventually reported completed or failed.                         *)
NoRunLost == (creator = "finished") ~> (runStatus \in {"completed", "failed"})

(* "Re-enqueue failed tasks": when a retry has put the run back to running *)
(* and a task River has given up on back to pending, a job will do it.     *)
RetryReenqueues ==
    api.pc = "idle" /\ runStatus = "running"
        /\ (\E j \in Discarded : taskStatus[jobs[j].kind] = "pending")
        => \E j \in JobIds : jobs[j].state \in {"available", "running"}
=============================================================================
