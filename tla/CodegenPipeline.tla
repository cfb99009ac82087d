-------------------------- MODULE CodegenPipeline --------------------------
(***************************************************************************)
(* The codegen pipeline: fetch_spec, index_repo, build_context,            *)
(* generate_code, create_pr, notify (internal/jobs/codegen.go), from the   *)
(* EnqueueCodegen endpoint to the draft pull request.  It is the engine    *)
(* with the plans of these six workers and with what they leave behind:    *)
(* generation rows, pull requests on GitHub, emails.                       *)
(***************************************************************************)
EXTENDS PipelineEngine, FiniteSets

CONSTANTS
    GenerationSchemas, \* can GetGeneration scan what CreateGeneration inserts?
                       \* (migrations: {FALSE}, pr_url and error are NULL)
    Gens,          \* bound: the generation rows this run may create, numbered
                   \* in the order in which their random IDs are drawn
    RequestedGen,  \* the one EnqueueCodegen creates and returns
    NoGen          \* uuid.Nil

CodegenTasks == {"fetch_spec", "index_repo", "build_context",
                 "generate_code", "create_pr", "notify"}

CodegenOrder == [t \in CodegenTasks |->
    CASE t = "fetch_spec" -> 0    [] t = "index_repo" -> 1
      [] t = "build_context" -> 2 [] t = "generate_code" -> 3
      [] t = "create_pr" -> 4     [] t = "notify" -> 5]

-----------------------------------------------------------------------------
(* The plans: every worker of the chain marks its task failed and checks   *)
(* when its work fails; only the last one checks when it succeeds.         *)

(* Mutants: a `return err' is missing after FailTask, so that a failed     *)
(* step chains as well; an error path without its completion check.        *)
CreatePRFallsThrough ==
    {Chains("notify"), [FailsAndTells EXCEPT !.chain = <<"notify">>]}
BuildContextTellsNobody == {Chains("generate_code"), Fails}

FetchSpecPlans    == {Chains("index_repo"), FailsAndTells}
IndexRepoPlans    == {Chains("build_context"), FailsAndTells}
BuildContextPlans == {Chains("generate_code"), FailsAndTells}
GenerateCodePlans == {Chains("create_pr"), FailsAndTells}
CreatePRPlans     == {Chains("notify"), FailsAndTells}
NotifyPlans       == {FinishesAndAsks, FailsAndTells}

CodegenPlans == [t \in CodegenTasks |->
    CASE t = "fetch_spec"    -> FetchSpecPlans
      [] t = "index_repo"    -> IndexRepoPlans
      [] t = "build_context" -> BuildContextPlans
      [] t = "generate_code" -> GenerateCodePlans
      [] t = "create_pr"     -> CreatePRPlans
      [] t = "notify"        -> NotifyPlans]

NoSpawns == [t \in Tasks |-> {}]

(* Tasks = CodegenTasks and Entry = "fetch_spec" in the program; the last  *)
(* part of the chain is enough to check what it does.                      *)
ASSUME CodegenAssumption ==
    /\ GenerationSchemas \subseteq BOOLEAN
    /\ Tasks \subseteq CodegenTasks
    /\ {"generate_code", "create_pr", "notify"} \subseteq Tasks
    /\ \A t \in Tasks : SortOrder[Entry] <= SortOrder[t]
    /\ SortOrder = [t \in Tasks |-> CodegenOrder[t]]
    /\ Plans = [t \in Tasks |-> CodegenPlans[t]]
    /\ Spawns = NoSpawns
    /\ Gens \in SUBSET Nat
    /\ RequestedGen \in Gens
    /\ NoGen \notin Gens

VARIABLES
    readable,   \* the schema
    genStatus,  \* generations.status ("none": no row)
    genPR,      \* generations whose pr_url is recorded
    github,     \* generations whose branch has an open pull request
    unsaved,    \* history: generations that create_pr gave no pull request and
                \* whose update failed, which is only logged
    local,      \* per job: its generation (argument or variable), its step
    emails      \* jobs handed to the email worker

genVars == <<genStatus, genPR, github, unsaved, local, emails>>
codegenVars == <<readable, vars, genVars>>

(* ("failed" is a status too, but nothing in the pipeline writes it.)      *)
GenStatus == {"none", "pending", "running", "completed"}
Step == {"start", "created", "opened", "refused", "saved", "failed", "mailed"}

CodegenTypeOK ==
    /\ TypeOK
    /\ readable \in BOOLEAN
    /\ genStatus \in [Gens -> GenStatus]
    /\ genPR \in SUBSET Gens
    /\ github \in SUBSET Gens
    /\ unsaved \in SUBSET Gens
    /\ local \in [JobIds -> [gen : Gens \cup {NoGen}, step : Step]]
    /\ emails \in 0 .. MaxCount

CodegenInit ==
    /\ Init
    /\ readable \in GenerationSchemas
    /\ genStatus = [g \in Gens |-> "none"]
    /\ genPR = {}
    /\ github = {}
    /\ unsaved = {}
    /\ local = [j \in JobIds |-> [gen |-> NoGen, step |-> "start"]]
    /\ emails = 0

-----------------------------------------------------------------------------
(* EnqueueCodegen: the run and its tasks, then a pending generation, then  *)
(* the fetch_spec job.                                                     *)
CreateRequestedGen ==
    /\ creator = "job"
    /\ genStatus[RequestedGen] = "none"
    /\ genStatus' = [genStatus EXCEPT ![RequestedGen] = "pending"]
    /\ UNCHANGED <<vars, genPR, github, unsaved, local, emails>>

EnqueueCodegen ==
    \/ CreateRun /\ UNCHANGED genVars
    \/ \E t \in Tasks : CreateTask(t) /\ UNCHANGED genVars
    \/ CreateRequestedGen
    \/ /\ genStatus[RequestedGen] = "pending"
       /\ \E n \in JobIds : EnqueueEntry(n)
       /\ UNCHANGED genVars

-----------------------------------------------------------------------------
At(j, worker) == jobs[j].pc = "body" /\ jobs[j].kind = worker

StepTo(j, s) == local' = [local EXCEPT ![j].step = s]

Mark(j, p) == MarkTask(j, p) /\ UNCHANGED genVars
Fail(j) == \E p \in Plans[jobs[j].kind] : p.mark = "failed" /\ Mark(j, p)

(* fetch_spec, index_repo and build_context only read; what they find goes *)
(* with the next job (the copy that index_repo leaves in the run's         *)
(* metadata is read by nobody).                                            *)
ReadOnlyWork(j) ==
    /\ \E w \in {"fetch_spec", "index_repo", "build_context"} : At(j, w)
    /\ \E p \in Plans[jobs[j].kind] : Mark(j, p)

FreeGens == {g \in Gens \ {RequestedGen} : genStatus[g] = "none"}

(* generate_code: the answer of the LLM goes into a new generation row.    *)
CreateGeneration(j) ==
    /\ At(j, "generate_code")
    /\ local[j].step = "start"
    /\ jobs[j].ctx = "live"
    /\ \E g \in FreeGens :
          /\ \A h \in FreeGens : g <= h
          /\ genStatus' = [genStatus EXCEPT ![g] = "running"]
          /\ local' = [local EXCEPT ![j] = [gen |-> g, step |-> "created"]]
    /\ UNCHANGED <<vars, genPR, github, unsaved, emails>>

(* A mutant: an error after the row is inserted fails the task.            *)
GenerateCodeEndsLate(j) ==
    /\ At(j, "generate_code")
    /\ \/ local[j].step = "created" /\ Mark(j, Chains("create_pr"))
       \/ Fail(j)

GenerateCodeEnds(j) ==
    /\ At(j, "generate_code")
    /\ \/ local[j].step = "created" /\ Mark(j, Chains("create_pr"))
       \/ local[j].step = "start" /\ Fail(j)

(* create_pr reads its generation before anything else.  With a GitHub     *)
(* installation: branch and commit are repeatable, but GitHub refuses a    *)
(* second pull request for the branch.                                     *)
OpenPR(j) ==
    LET g == local[j].gen IN
    /\ At(j, "create_pr")
    /\ local[j].step = "start"
    /\ readable
    /\ jobs[j].ctx = "live"
    /\ github' = github \cup {g}
    /\ local' = [local EXCEPT ![j].step = IF g \in github THEN "refused" ELSE "opened"]
    /\ UNCHANGED <<vars, genStatus, genPR, unsaved, emails>>

(* A mutant: UpdateGeneration leaves the status out.                       *)
SavedWithoutStatus(g) == UNCHANGED genStatus

Saved(g) == genStatus' = [genStatus EXCEPT ![g] = "completed"]

(* UpdateGeneration after the pull request: its error is the task's.       *)
SavePR(j) ==
    /\ At(j, "create_pr")
    /\ local[j].step = "opened"
    /\ WorkStatement(j)
    /\ \/ /\ Succeeds(j)
          /\ Saved(local[j].gen)
          /\ genPR' = genPR \cup {local[j].gen}
          /\ StepTo(j, "saved")
       \/ Errs(j) /\ StepTo(j, "failed") /\ UNCHANGED <<genStatus, genPR>>
    /\ UNCHANGED <<github, unsaved, emails>>

(* create_pr without GitHub: the error of UpdateGeneration is only logged. *)
(* An empty pr_url leaves the recorded one alone.                          *)
SaveWithoutPR(j) ==
    /\ At(j, "create_pr")
    /\ local[j].step = "start"
    /\ readable
    /\ WorkStatement(j)
    /\ \/ Succeeds(j) /\ Saved(local[j].gen) /\ UNCHANGED unsaved
       \/ Errs(j) /\ unsaved' = unsaved \cup {local[j].gen} /\ UNCHANGED genStatus
    /\ StepTo(j, "saved")
    /\ UNCHANGED <<genPR, github, emails>>

(* A mutant: what follows the opening may fail the task before the save.   *)
CreatePREndsUnsaved(j) ==
    /\ At(j, "create_pr")
    /\ \/ local[j].step = "saved" /\ Mark(j, Chains("notify"))
       \/ local[j].step # "saved" /\ Fail(j)

CreatePREnds(j) ==
    /\ At(j, "create_pr")
    /\ \/ local[j].step = "saved" /\ Mark(j, Chains("notify"))
       \/ local[j].step \in {"start", "refused", "failed"} /\ Fail(j)

(* notify reads the generation too: an email job when it has a pull        *)
(* request (its owner has an address; a failed insertion is only logged),  *)
(* then the task is completed.                                             *)
NotifyByEmail(j) ==
    /\ At(j, "notify")
    /\ local[j].step = "start"
    /\ readable /\ local[j].gen \in genPR
    /\ WorkStatement(j)
    /\ \/ Succeeds(j) /\ emails' = IF emails < MaxCount THEN emails + 1 ELSE emails
       \/ Errs(j) /\ UNCHANGED emails
    /\ StepTo(j, "mailed")
    /\ UNCHANGED <<genStatus, genPR, github, unsaved>>

(* A mutant: a failed read of the pull request's project ends the work.    *)
NotifyEndsEarly(j) ==
    /\ At(j, "notify")
    /\ (readable /\ Mark(j, FinishesAndAsks)) \/ Fail(j)

NotifyEnds(j) ==
    /\ At(j, "notify")
    /\ \/ local[j].step = "mailed" /\ Mark(j, FinishesAndAsks)
       \/ local[j].step = "start" /\ readable /\ local[j].gen \notin genPR
                                  /\ Mark(j, FinishesAndAsks)
       \/ local[j].step = "start" /\ Fail(j)

-----------------------------------------------------------------------------
CodegenStart(j) ==
    /\ StartTask(j)
    /\ local' = [local EXCEPT ![j].step = "start"]
    /\ UNCHANGED <<genStatus, genPR, github, unsaved, emails>>

(* The generation ID travels with the job: create_pr gets the one          *)
(* generate_code just made, notify the one of its create_pr.               *)
CodegenChain(j, n) ==
    /\ ChainInsert(j, n)
    /\ local' = [local EXCEPT ![n].gen = local[j].gen]
    /\ UNCHANGED <<genStatus, genPR, github, unsaved, emails>>

CodegenReturn(j) ==
    /\ Return(j)
    /\ local' = [local EXCEPT ![j].step = "start"]
    /\ UNCHANGED <<genStatus, genPR, github, unsaved, emails>>

CodegenWork(j) ==
    \/ CodegenStart(j)
    \/ ReadOnlyWork(j)
    \/ CreateGeneration(j)
    \/ GenerateCodeEnds(j)
    \/ OpenPR(j)
    \/ SavePR(j)
    \/ SaveWithoutPR(j)
    \/ CreatePREnds(j)
    \/ NotifyByEmail(j)
    \/ NotifyEnds(j)
    \/ \E n \in JobIds : CodegenChain(j, n)
    \/ ChainLost(j) /\ UNCHANGED genVars
    \/ CheckRead(j) /\ UNCHANGED genVars
    \/ CheckWriteStatus(j) /\ UNCHANGED genVars
    \/ CheckWriteError(j) /\ UNCHANGED genVars
    \/ CheckNotify(j) /\ UNCHANGED genVars
    \/ AskReview(j) /\ UNCHANGED genVars
    \/ CodegenReturn(j)

CodegenNext ==
    /\ UNCHANGED readable
    /\ \/ EnqueueCodegen
       \/ CreateAborts /\ UNCHANGED genVars
       \/ \E j \in JobIds :
             \/ CodegenWork(j)
             \/ Timeout(j) /\ UNCHANGED genVars
             \/ Crash(j) /\ UNCHANGED genVars
             \/ Rescue(j) /\ UNCHANGED genVars
       \/ Retry /\ UNCHANGED genVars
       \/ Rest /\ UNCHANGED genVars

CodegenSpec == CodegenInit /\ [][CodegenNext]_codegenVars

CodegenFairness ==
    \A j \in JobIds : /\ WF_codegenVars(CodegenWork(j) /\ UNCHANGED readable)
                      /\ WF_codegenVars(Rescue(j) /\ UNCHANGED <<readable, genVars>>)

CodegenFairSpec == CodegenSpec /\ CodegenFairness

-----------------------------------------------------------------------------
(* Properties. *)

WorkerGens == {g \in Gens \ {RequestedGen} : genStatus[g] # "none"}

(* One request, one pull request: however often River and users retry,     *)
(* without a crash the run generates its code once and opens at most one   *)
(* pull request; every crash repeats the work of at most one step, so it   *)
(* adds at most one generation and one pull request.                       *)
WorkIsNotRepeated ==
    /\ Cardinality(WorkerGens) <= 1 + budget.crashes
    /\ Cardinality(github) <= 1 + budget.crashes

(* A pull request is forgotten only for a trouble of its own: when nothing *)
(* is left to run, the generations whose branch has a pull request that no *)
(* row points to are no more than the crashes, failed statements and       *)
(* expired contexts of the run; all the others are completed.              *)
PRIsRecorded ==
    Quiescent => /\ Cardinality(github \ genPR) <= budget.crashes + budget.faults
                 /\ genPR \subseteq github
                 /\ \A g \in genPR : genStatus[g] = "completed"

(* A run is reported completed only when a generation of it is, or when    *)
(* the one statement that should have said so failed and was only logged,  *)
(* whatever else fails, crashes or is retried.                             *)
CompletedRunHasGeneration ==
    runStatus = "completed" =>
        \E g \in Gens : genStatus[g] = "completed" \/ g \in unsaved

(* The user is told of a pull request: a completed run whose generation    *)
(* has one has enqueued the email.  (After a crash between the two,        *)
(* create_pr may run again without an installation and record none.)       *)
PRIsAnnounced ==
    runStatus = "completed" /\ budget.faults = 0 /\ budget.crashes = 0
        /\ github # {} => emails > 0

(* "Compute a stable branch name ... so retries are idempotent": a retry   *)
(* of create_pr is not refused for what an earlier attempt did.            *)
CreatePRIsIdempotent == \A j \in JobIds : local[j].step # "refused"

(* The progress stream of the requested generation ends: "final done when  *)
(* generation reaches completed/failed".                                   *)
StreamEnds ==
    runStatus = "completed" /\ Quiescent => genStatus[RequestedGen] = "completed"
=============================================================================
