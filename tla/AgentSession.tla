---------------------------- MODULE AgentSession ----------------------------
(***************************************************************************)
(* The agent code generation pipeline: prepare_context, provision_sandbox, *)
(* run_agent and validate_output as River jobs over a sandbox of           *)
(* SandboxManagers, the sandbox_sessions row they share, the loop that     *)
(* sends failed output back to the agent, and StopSandboxSession, which    *)
(* writes the same row from the API process.                               *)
(*                                                                         *)
(* One pipeline of one generation.  Its run and task rows are              *)
(* PipelineEngine's subject and create_pr is CodegenPipeline's: both are   *)
(* left out.  A database call, an insertion of a job, a sandbox call or    *)
(* the worker process may fail at any step; every such trouble is counted. *)
(***************************************************************************)
EXTENDS SandboxManagers

CONSTANTS
    SessionStatuses,  \* what the CHECK on sandbox_sessions.status admits
    GenerationSchemas,\* whether GetGeneration can scan the row CreateGeneration leaves
    MaxRetries,       \* SANDBOX_MAX_RETRIES
    MaxAttempts,      \* executions River grants a job (25)
    JobIds,           \* bound: jobs alive at once
    MaxTroubles       \* bound: faults, timeouts and crashes

Statuses == {"pending", "provisioning", "provisioned", "running", "validating",
             "completed", "failed", "cancelled", "timed_out"}

ASSUME AgentAssumption ==
    /\ SessionStatuses \subseteq Statuses
    /\ GenerationSchemas \subseteq BOOLEAN
    /\ MaxRetries \in Nat
    /\ MaxAttempts \in Nat \ {0}
    /\ JobIds \subseteq Nat /\ IsFiniteSet(JobIds)
    /\ MaxTroubles \in Nat

VARIABLES
    readable,    \* which of GenerationSchemas the database has
    jobs,        \* the jobs of the pipeline in River
    sessions,    \* sandbox_sessions, a row per sandbox that got one
    work,        \* what the agent has left in each sandbox
    generation,  \* the generations row
    stopper,     \* the request in StopSandboxSession
    prs,         \* history: create_pr jobs enqueued
    agentRuns,   \* history: executions of the agent
    abandoned,   \* history: sandboxes an execution of provision_sandbox left behind
    miscounts,   \* history: retry counts that could not be written
    repeats,     \* history: executions begun anew after a crash
    troubles     \* history: what went wrong in the environment

pipelineVars == <<sessions, work, generation, stopper>>
history == <<prs, agentRuns, abandoned, miscounts, repeats>>
vars == <<readable, managerVars, jobs, pipelineVars, history, troubles>>

normalizeMaxRetries == IF MaxRetries = 0 THEN 1 ELSE MaxRetries

Kinds == {"none", "prepare_context", "provision_sandbox", "run_agent", "validate_output"}
Job == [kind : Kinds, attempt : 0 .. MaxAttempts - 1, ctx : {"live", "done"},
        pc : {"idle", "queued", "lost", "clone", "write", "insert", "build", "agent",
              "save", "commands", "decide", "finish", "report", "discarded"},
        box : Boxes \cup {None},         \* the sandbox, and its session
        count : 0 .. normalizeMaxRetries,\* RetryCount: an argument of validate_output
        passed : BOOLEAN,                \* validationPassed
        fresh : BOOLEAN]                 \* history: the work is as it was validated
Idle == [kind |-> "none", attempt |-> 0, ctx |-> "live", pc |-> "idle", box |-> None,
         count |-> 0, passed |-> FALSE, fresh |-> FALSE]

(* The log, results and files a session shows its viewers are left out.    *)
Session == [status : Statuses \cup {"none"}, retries : 0 .. normalizeMaxRetries]
NoSession == [status |-> "none", retries |-> 0]

AgentTypeOK ==
    /\ ManagersTypeOK /\ readable \in BOOLEAN
    /\ jobs \in [JobIds -> Job]
    /\ sessions \in [Boxes -> Session]
    /\ work \in [Boxes -> {"good", "bad"}]
    /\ generation \in [status : {"pending", "running", "failed"},
                       files : {"none", "validated", "other"}]
    /\ stopper \in {"idle", "decided", "done"}
    /\ {prs, agentRuns, abandoned, miscounts, repeats} \subseteq Nat
    /\ troubles \in 0 .. MaxTroubles

-----------------------------------------------------------------------------
(* River.  A queued job is executed and gone once its result is recorded,  *)
(* or discarded for good when its last attempt fails; the first step of    *)
(* each worker takes it from the queue.                                    *)
Gone(j) == jobs[j].pc \in {"idle", "discarded"}
FreeId(j) == Gone(j) /\ \A i \in JobIds : i < j => ~Gone(i)
Executing(j) == jobs[j].pc \notin {"idle", "queued", "lost", "discarded"}
At(j, kind, pc) == jobs[j].kind = kind /\ jobs[j].pc = pc

(* Which of the operations ops of one step may fail: all of them once the  *)
(* context is done, otherwise as many as there are troubles left.          *)
Faults(j, ops) ==
    IF jobs[j].ctx = "done" THEN {ops}
    ELSE {F \in SUBSET ops : troubles + Cardinality(F) <= MaxTroubles}
Counts(j, F) == troubles' = IF jobs[j].ctx = "done" THEN troubles ELSE troubles + Cardinality(F)

Goto(j, pc) == jobs' = [jobs EXCEPT ![j].pc = pc]

(* What a job still is once its locals are gone: its arguments.            *)
Arguments(j) == [jobs[j] EXCEPT
    !.ctx = "live", !.passed = FALSE, !.fresh = FALSE,
    !.box = IF jobs[j].kind = "provision_sandbox" THEN None ELSE @,
    !.count = IF jobs[j].kind = "run_agent" THEN 0 ELSE @]
Returns(j) == [Arguments(j) EXCEPT !.pc = "report"]

(* An error returned by Work: River tries again while attempts are left.   *)
Retried(j) == IF jobs[j].attempt + 1 < MaxAttempts
              THEN [Arguments(j) EXCEPT !.pc = "queued", !.attempt = @ + 1]
              ELSE [Arguments(j) EXCEPT !.pc = "discarded"]
Fails(j) == jobs' = [jobs EXCEPT ![j] = Retried(j)]

(* client.Insert of the next job; a failed insertion is only logged.       *)
Chains(j, next, inserted) ==
    IF inserted
    THEN \E i \in JobIds : FreeId(i) /\ jobs' = [jobs EXCEPT ![j] = Returns(j), ![i] = next]
    ELSE jobs' = [jobs EXCEPT ![j] = Returns(j)]
Successor(j, kind) == [Idle EXCEPT !.kind = kind, !.pc = "queued", !.box = jobs[j].box]

Report(j) ==
    /\ jobs[j].pc = "report"
    /\ jobs' = [jobs EXCEPT ![j] = Idle]
    /\ UNCHANGED <<managerVars, pipelineVars, history, troubles>>

(* River cancels the context of a job after a minute.                      *)
Timeout(j) ==
    /\ Executing(j) /\ jobs[j].pc # "report" /\ jobs[j].ctx = "live"
    /\ troubles < MaxTroubles
    /\ troubles' = troubles + 1
    /\ jobs' = [jobs EXCEPT ![j].ctx = "done"]
    /\ UNCHANGED <<managerVars, pipelineVars, history>>

(* The worker process dies; what it executed stays "running" in River      *)
(* until the rescuer queues it again.                                      *)
Crash ==
    /\ troubles < MaxTroubles /\ \E j \in JobIds : Executing(j)
    /\ troubles' = troubles + 1
    /\ jobs' = [j \in JobIds |-> IF Executing(j)
                                 THEN [Arguments(j) EXCEPT !.pc = "lost"] ELSE jobs[j]]
    /\ known' = {}
    /\ abandoned' = abandoned + Cardinality({j \in JobIds : jobs[j].pc \in {"clone", "write", "insert"}})
    /\ UNCHANGED <<provider, boxes, exists, pipelineVars, prs, agentRuns, miscounts, repeats>>

Rescue(j) ==
    /\ jobs[j].pc = "lost"
    /\ Fails(j)
    /\ repeats' = repeats + 1
    /\ UNCHANGED <<managerVars, pipelineVars, prs, agentRuns, abandoned, miscounts, troubles>>

-----------------------------------------------------------------------------
(* The queries on sandbox_sessions.                                        *)
UpdateSandboxSessionStatus(b, status) ==
    sessions' = [sessions EXCEPT ![b].status = status]

UpdateSandboxSessionResult(b, count) ==
    sessions' = [sessions EXCEPT ![b].retries = count]

(* CreateSandboxSession with status "provisioned" and retry count 0, which *)
(* the CHECK constraint may refuse.                                        *)
CreateAdmitted == "provisioned" \in SessionStatuses
CreateSandboxSession(b) ==
    sessions' = [sessions EXCEPT ![b] = [NoSession EXCEPT !.status = "provisioned"]]

-----------------------------------------------------------------------------
(* PrepareContextWorker reads and builds; the payload goes to the next job.*)
PrepareContext(j) ==
    /\ At(j, "prepare_context", "queued")
    /\ \E F \in Faults(j, {"read", "insert"}) :
         /\ IF "read" \in F THEN Fails(j)
            ELSE Chains(j, Successor(j, "provision_sandbox"), "insert" \notin F)
         /\ Counts(j, F)
    /\ UNCHANGED <<managerVars, pipelineVars, history>>

(* ProvisionSandboxWorker.  Once Provision has returned, an error leaves   *)
(* the sandbox behind, and so does a reply that is lost while it is made.  *)
Abandons(j) == Fails(j) /\ abandoned' = abandoned + 1

ProvisionStarts(j) ==
    /\ At(j, "provision_sandbox", "queued")
    /\ \E F \in Faults(j, {"sandbox"}), b \in Boxes :
         /\ \/ /\ F = {} /\ Create(b, FALSE)
               /\ jobs' = [jobs EXCEPT ![j].pc = "clone", ![j].box = b]
               /\ UNCHANGED abandoned
            \/ F # {} /\ Create(b, TRUE) /\ Abandons(j)
            \/ F # {} /\ Fails(j) /\ UNCHANGED <<managerVars, abandoned>>
         /\ Counts(j, F)
    /\ UNCHANGED <<pipelineVars, prs, agentRuns, miscounts, repeats>>

(* The second half fails with its context, or because of the repository    *)
(* itself; what then removes the sandbox may fail too, which nobody reads. *)
ProvisionEnds(j) ==
    /\ At(j, "provision_sandbox", "clone")
    /\ \/ /\ jobs[j].ctx = "live"
          /\ Provisioned(jobs[j].box) /\ Goto(j, "write")
          /\ UNCHANGED <<abandoned, troubles>>
       \/ /\ CleanupOnError(jobs[j].box, FALSE) /\ Fails(j)
          /\ UNCHANGED <<abandoned, troubles>>
       \/ /\ troubles < MaxTroubles /\ troubles' = troubles + 1
          /\ CleanupOnError(jobs[j].box, TRUE) /\ Abandons(j)
    /\ UNCHANGED <<pipelineVars, prs, agentRuns, miscounts, repeats>>

WriteInstructions(j) ==
    /\ At(j, "provision_sandbox", "write")
    /\ \E F \in Faults(j, {"files"}) :
         /\ IF F = {} /\ WriteFiles(jobs[j].box, jobs[j].ctx = "live")
            THEN Goto(j, "insert") /\ UNCHANGED abandoned
            ELSE Abandons(j)
         /\ Counts(j, F)
    /\ UNCHANGED <<managerVars, pipelineVars, prs, agentRuns, miscounts, repeats>>

CreateSession(j) ==
    /\ At(j, "provision_sandbox", "insert")
    /\ \E F \in Faults(j, {"session", "insert"}) :
         /\ IF "session" \in F \/ ~CreateAdmitted
            THEN Abandons(j) /\ UNCHANGED sessions
            ELSE /\ CreateSandboxSession(jobs[j].box)
                 /\ Chains(j, Successor(j, "run_agent"), "insert" \notin F)
                 /\ UNCHANGED abandoned
         /\ Counts(j, F)
    /\ UNCHANGED <<managerVars, work, generation, stopper, prs, agentRuns, miscounts, repeats>>

-----------------------------------------------------------------------------
(* RunAgentWorker.  It reads the session, and with it the retry count its  *)
(* validate_output will be given, and writes "running" whatever it read.   *)
RunAgentStarts(j) ==
    /\ At(j, "run_agent", "queued")
    /\ \E F \in Faults(j, {"session", "status"}) :
         /\ IF "session" \in F THEN Fails(j) /\ UNCHANGED sessions
            ELSE /\ jobs' = [jobs EXCEPT ![j].pc = "build", ![j].count = sessions[jobs[j].box].retries]
                 /\ IF "status" \in F THEN UNCHANGED sessions
                    ELSE UpdateSandboxSessionStatus(jobs[j].box, "running")
         /\ Counts(j, F)
    /\ UNCHANGED <<managerVars, work, generation, stopper, history>>

(* Config names the provider, the session or its default if it cannot be   *)
(* read; the worker knows one of the seven the API offers, and ends at any *)
(* other with the session left "running".                                  *)
ProviderUnknown(j) ==
    /\ At(j, "run_agent", "build")
    /\ Fails(j)
    /\ UNCHANGED <<managerVars, pipelineVars, history, troubles>>

(* BuildCommand reads INSTRUCTIONS.md from the worker's own file system:   *)
(* a container or a remote sandbox does not have it there.  (A missing     *)
(* ANTHROPIC_API_KEY ends in the same way.)                                *)
PromptReadable(b) == provider = "local" /\ b \in exists

BuildCommand(j) ==
    /\ At(j, "run_agent", "build")
    /\ PromptReadable(jobs[j].box)
    /\ Goto(j, "agent")
    /\ UNCHANGED <<managerVars, pipelineVars, history, troubles>>

BuildFails(j) ==
    /\ At(j, "run_agent", "build")
    /\ ~PromptReadable(jobs[j].box)
    /\ \E F \in Faults(j, {"status"}) :
         /\ IF F = {} THEN UpdateSandboxSessionStatus(jobs[j].box, "failed")
            ELSE UNCHANGED sessions
         /\ Counts(j, F)
    /\ Fails(j)
    /\ UNCHANGED <<managerVars, work, generation, stopper, history>>

(* cmd.Run on the worker's machine: no context stops it, and an agent that *)
(* fails may have done nothing.                                            *)
Agent(j) ==
    /\ At(j, "run_agent", "agent")
    /\ agentRuns' = agentRuns + 1
    /\ \/ UNCHANGED work /\ Goto(j, "save")
       \/ /\ \E w \in {"good", "bad"} : work' = [work EXCEPT ![jobs[j].box] = w]
          /\ jobs' = [i \in JobIds |->
               [jobs[i] EXCEPT !.pc = IF i = j THEN "save" ELSE @,
                               !.fresh = @ /\ jobs[i].box # jobs[j].box]]
    /\ UNCHANGED <<managerVars, sessions, generation, stopper, prs, abandoned, miscounts, repeats, troubles>>

SaveRun(j) ==
    /\ At(j, "run_agent", "save")
    /\ \E F \in Faults(j, {"status", "insert"}) :
         /\ IF "status" \in F THEN UNCHANGED sessions
            ELSE UpdateSandboxSessionStatus(jobs[j].box, "validating")
         /\ Chains(j, [Successor(j, "validate_output") EXCEPT !.count = jobs[j].count], "insert" \notin F)
         /\ Counts(j, F)
    /\ UNCHANGED <<managerVars, work, generation, stopper, history>>

-----------------------------------------------------------------------------
(* ValidateOutputWorker.                                                   *)
ValidateStarts(j) ==
    /\ At(j, "validate_output", "queued")
    /\ \E F \in Faults(j, {"session"}) :
         /\ IF F = {} THEN Goto(j, "commands") ELSE Fails(j)
         /\ Counts(j, F)
    /\ UNCHANGED <<managerVars, pipelineVars, history>>

(* The commands of detectValidationCommands run one after the other; one   *)
(* that cannot be run is skipped, and counts as passed.                    *)
RunCommands(j) ==
    /\ At(j, "validate_output", "commands")
    /\ \E outcome \in Execute(None, jobs[j].ctx = "live", work[jobs[j].box] = "good") :
         jobs' = [jobs EXCEPT ![j].pc = "decide", ![j].fresh = TRUE,
                              ![j].passed = (outcome # "nonzero")]
    /\ UNCHANGED <<managerVars, pipelineVars, history, troubles>>

(* The retry that is one too many.                                         *)
MayRetryOnceMore(j) == ~jobs[j].passed /\ jobs[j].count <= normalizeMaxRetries
MayRetry(j) == ~jobs[j].passed /\ jobs[j].count < normalizeMaxRetries
(* Gives up one retry early.                                               *)
GivesUpEarly(j) == ~jobs[j].passed /\ jobs[j].count + 1 >= normalizeMaxRetries
GivesUp(j)  == ~jobs[j].passed /\ jobs[j].count >= normalizeMaxRetries

(* Without the return after the job has been inserted, the worker goes on  *)
(* to its error: River executes it again beside its own successor.         *)
RetryAgentThenFail(j) ==
    /\ At(j, "validate_output", "decide") /\ MayRetry(j)
    /\ UpdateSandboxSessionResult(jobs[j].box, jobs[j].count + 1)
    /\ \E i \in JobIds :
         FreeId(i) /\ jobs' = [jobs EXCEPT ![j] = Retried(j), ![i] = Successor(j, "run_agent")]
    /\ UNCHANGED <<managerVars, work, generation, stopper, history, troubles>>

(* The insertion of the next run_agent forgotten.                          *)
RetryAgentForgotten(j) ==
    /\ At(j, "validate_output", "decide") /\ MayRetry(j)
    /\ UpdateSandboxSessionResult(jobs[j].box, jobs[j].count + 1)
    /\ jobs' = [jobs EXCEPT ![j] = Returns(j)]
    /\ UNCHANGED <<managerVars, work, generation, stopper, history, troubles>>

(* The count is written from the job's argument, not incremented in place. *)
RetryAgent(j) ==
    /\ At(j, "validate_output", "decide") /\ MayRetry(j)
    /\ \E F \in Faults(j, {"count", "insert"}) :
         /\ IF "count" \in F THEN UNCHANGED sessions /\ miscounts' = miscounts + 1
            ELSE /\ UpdateSandboxSessionResult(jobs[j].box, jobs[j].count + 1)
                 /\ UNCHANGED miscounts
         /\ Chains(j, Successor(j, "run_agent"), "insert" \notin F)
         /\ Counts(j, F)
    /\ UNCHANGED <<managerVars, work, generation, stopper, prs, agentRuns, abandoned, repeats>>

(* Out of retries: the generation fails, if it can be read at all, and so  *)
(* does the task; the session stays "validating", and River will try the   *)
(* job again.                                                              *)
GiveUp(j) ==
    /\ At(j, "validate_output", "decide") /\ GivesUp(j)
    /\ \E F \in Faults(j, {"generation"}) :
         /\ generation' = IF F = {} /\ readable
                          THEN [generation EXCEPT !.status = "failed"] ELSE generation
         /\ Counts(j, F)
    /\ Fails(j)
    /\ UNCHANGED <<managerVars, sessions, work, stopper, history>>

(* What the sandbox holds now becomes the generation's files: if the diff  *)
(* has any, and if the row can be read first.                              *)
CollectChanges(j) ==
    /\ At(j, "validate_output", "decide") /\ jobs[j].passed
    /\ \E F \in Faults(j, {"diff", "generation"}) :
         /\ \/ /\ F = {} /\ readable /\ CollectDiff(None, jobs[j].ctx = "live")
               /\ generation' = [status |-> "running",
                                 files |-> IF jobs[j].fresh THEN "validated" ELSE "other"]
            \/ UNCHANGED generation
         /\ Counts(j, F)
    /\ Goto(j, "finish")
    /\ UNCHANGED <<managerVars, sessions, work, stopper, history>>

Finish(j) ==
    /\ At(j, "validate_output", "finish")
    /\ \E F \in Faults(j, {"status", "insert"}) :
         /\ IF "status" \in F THEN UNCHANGED sessions
            ELSE UpdateSandboxSessionStatus(jobs[j].box, "completed")
         /\ prs' = IF "insert" \in F THEN prs ELSE prs + 1
         /\ Counts(j, F)
    /\ jobs' = [jobs EXCEPT ![j] = Returns(j)]
    /\ UNCHANGED <<managerVars, work, generation, stopper, agentRuns, abandoned, miscounts, repeats>>

-----------------------------------------------------------------------------
(* StopSandboxSession reads the session and, unless its status is          *)
(* terminal, writes "cancelled"; no job looks for it.                      *)
isTerminalSessionStatus(status) == status \in {"completed", "failed", "cancelled", "timed_out"}

StopReads ==
    /\ stopper = "idle"
    /\ \E b \in Boxes :
         /\ sessions[b].status # "none"
         /\ \A c \in Boxes : c < b => sessions[c].status = "none"
         /\ stopper' = IF isTerminalSessionStatus(sessions[b].status) THEN "done" ELSE "decided"
    /\ UNCHANGED <<managerVars, jobs, sessions, work, generation, history, troubles>>

StopWrites ==
    /\ stopper = "decided"
    /\ \E b \in Boxes :
         /\ sessions[b].status # "none"
         /\ \A c \in Boxes : c < b => sessions[c].status = "none"
         /\ UpdateSandboxSessionStatus(b, "cancelled")
    /\ stopper' = "done"
    /\ UNCHANGED <<managerVars, jobs, work, generation, history, troubles>>

-----------------------------------------------------------------------------
(* CreateAgentCodegenPipeline inserted the first job.                      *)
CreateAgentCodegenPipeline ==
    jobs = [j \in JobIds |-> IF \A i \in JobIds : j <= i
                             THEN [Idle EXCEPT !.kind = "prepare_context", !.pc = "queued"] ELSE Idle]

AgentInit ==
    /\ ManagersInit /\ readable \in GenerationSchemas
    /\ CreateAgentCodegenPipeline
    /\ sessions = [b \in Boxes |-> NoSession]
    /\ work = [b \in Boxes |-> "bad"]
    /\ generation = [status |-> "pending", files |-> "none"]
    /\ stopper = "idle"
    /\ prs = 0 /\ agentRuns = 0 /\ abandoned = 0 /\ miscounts = 0 /\ repeats = 0 /\ troubles = 0

PrepareContextWork(j)   == PrepareContext(j)
ProvisionSandboxWork(j) ==
    ProvisionStarts(j) \/ ProvisionEnds(j) \/ WriteInstructions(j) \/ CreateSession(j)
RunAgentWork(j)         ==
    \/ RunAgentStarts(j) \/ ProviderUnknown(j) \/ BuildCommand(j) \/ BuildFails(j)
    \/ Agent(j) \/ SaveRun(j)
ValidateOutputWork(j)   ==
    \/ ValidateStarts(j) \/ RunCommands(j)
    \/ RetryAgent(j) \/ GiveUp(j) \/ CollectChanges(j) \/ Finish(j)

Step(j) ==
    \/ Report(j) \/ Rescue(j)
    \/ PrepareContextWork(j) \/ ProvisionSandboxWork(j) \/ RunAgentWork(j) \/ ValidateOutputWork(j)

AgentNext ==
    /\ UNCHANGED readable
    /\ \/ \E j \in JobIds : Step(j) \/ Timeout(j)
       \/ Crash
       \/ StopReads \/ StopWrites

(* River keeps executing, retrying and rescuing what is there.             *)
AgentSpec == AgentInit /\ [][AgentNext]_vars /\ \A j \in JobIds : WF_vars(Step(j) /\ UNCHANGED readable)
-----------------------------------------------------------------------------
(* The agent is run as often as the retries allow: before a generation is  *)
(* failed no less and, while River executes no job anew, no more, except   *)
(* that a count that could not be written gives the loop one more round.   *)
(* (The count travels from the row to a job and back: two loops on one row *)
(* set each other back, and no bound per execution holds.)                 *)
RetriesExact ==
    /\ repeats = 0 => agentRuns <= normalizeMaxRetries + 1 + miscounts
    /\ generation.status = "failed" => agentRuns > normalizeMaxRetries

(* The files stored in the generation are the ones that were validated,    *)
(* as long as no job is executed beside its own successors.                *)
GenerationHoldsValidatedWork == repeats = 0 => generation.files # "other"

(* A sandbox that is nobody's (no session, no job at work on it) is one    *)
(* provision_sandbox left behind: by failing after Provision had returned, *)
(* by dying, or by a clean-up that failed.  Whatever else ends a Provision *)
(* early has removed what it created.                                      *)
Owned(b) == sessions[b].status # "none" \/ \E j \in JobIds : jobs[j].box = b /\ Executing(j)
LeaksCounted == Cardinality({b \in exists : ~Owned(b)}) <= abandoned

(* Unless something goes wrong around it the pipeline comes to a verdict:  *)
(* a pull request job, or a job River gives up on, and so a task whose     *)
(* every attempt told the run that it failed (FailTask, then               *)
(* CheckPipelineCompletion).  Neither the session nor the generation says  *)
(* so in every case: with an unknown provider the session stays "running". *)
AgentWorkIsJudged ==
    <>(prs > 0 \/ troubles > 0 \/ \E j \in JobIds : jobs[j].pc = "discarded")

(* provision_sandbox leaves a sandbox without a session only if something  *)
(* goes wrong around it.                                                   *)
ProvisionedIsRecorded == abandoned <= troubles
=============================================================================
